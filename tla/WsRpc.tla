-------------------------------- MODULE WsRpc --------------------------------
(***************************************************************************)
(* Remote procedure calls through the websocket server of the daemon.  A   *)
(* client registers a method ("reg"), another one calls it; the server     *)
(* forwards the call under an id of its own and routes the response back   *)
(* (WebSocketHandler.spin and remote_call, WebSocketServer.register_rpc,   *)
(* unregister_rpc, get_callback and ws_handler).  Methods of the daemon    *)
(* itself are called by a worker thread of the caller's handler.           *)
(*                                                                         *)
(* Every handler has a receiving thread of its own.  What a thread does    *)
(* under one lock is one step; between two locks other threads run.  A     *)
(* message that a client sends is a step of the receiving thread: what it  *)
(* may contain depends only on what this client was sent before.  The      *)
(* outgoing queue is the buffer that PQueue implements, for one priority.  *)
(***************************************************************************)
EXTENDS Naturals, Sequences, FiniteSets, SequencesExt

CONSTANTS
    Handlers,   \* connections; a client that connects again is another one
    Callers,    \* the handlers whose clients call methods
    Providers,  \* the handlers whose clients register methods
    Uris,       \* the names of methods
    LocalUris,  \* the methods of the daemon
    CallIds,    \* the ids that a client uses, each for one call
    QueueSize,  \* the limit of an outgoing queue
    NoHandler   \* nobody

ASSUME HandlersAssumption ==
    Callers \subseteq Handlers /\ Providers \subseteq Handlers /\ NoHandler \notin Handlers
ASSUME UrisAssumption == LocalUris \subseteq Uris
ASSUME QueueSizeAssumption == QueueSize \in Nat \ {0}

VARIABLES
    stage,     \* a connection is "new", "live", "closed", "ending", "gone"
    remote,    \* _remote_registrations of the server
    regs,      \* _registrations of each handler
    nextId,    \* _remote_calls_id of each handler
    calls,     \* _remote_calls_map of each handler, a set of entries
    step,      \* what the receiving thread of a handler is in the middle of
    jobs,      \* calls of local methods that worker threads execute
    out,       \* the outgoing queue of each handler
    client,    \* client[h][i]: the call i of the client is "idle", "asked" or "settled"
    todo,      \* forwarded calls that the client works on
    dropped,   \* history: questions that remote_call dropped without a reply
    overflown  \* history: questions of frames lost because a queue was full

serverVars == <<remote, regs>>
routeVars  == <<nextId, calls>>
clientVars == <<client, todo>>
vars == <<stage, remote, regs, nextId, calls, step, jobs, out, client, todo, dropped, overflown>>

(* A question is named by its caller and the id the caller gave it.  It     *)
(* stands for the parameters of the call and for the result they lead to.   *)
Question == Handlers \X CallIds

CallFrame  == [type : {"call"}, id : Nat, uri : Uris, question : Question]
ReplyFrame == [type : {"reply"}, id : CallIds, question : Question]
(* The reply to "reg" is of no interest to anybody else. *)
DoneFrame  == [type : {"done"}]

Frame == CallFrame \cup ReplyFrame \cup DoneFrame

Entry == [id : Nat, origin : CallIds, handler : Handlers]

Idle == [at |-> "idle"]

Step == {Idle}
    \cup [at : {"registering"}, uri : Uris]
    \cup [at : {"forwarding"}, uri : Uris, id : CallIds, callee : Handlers]
    \cup [at : {"unregistering"}, left : SUBSET Uris]

TypeOK ==
    /\ stage \in [Handlers -> {"new", "live", "closed", "ending", "gone"}]
    /\ remote \in [Uris -> Handlers \cup {NoHandler}]
    /\ regs \in [Handlers -> SUBSET Uris]
    /\ nextId \in [Handlers -> Nat]
    /\ calls \in [Handlers -> SUBSET Entry]
    /\ step \in [Handlers -> Step]
    /\ jobs \in [Handlers -> SUBSET CallIds]
    /\ out \in [Handlers -> Seq(Frame)]
    /\ client \in [Handlers -> [CallIds -> {"idle", "asked", "settled"}]]
    /\ todo \in [Handlers -> SUBSET CallFrame]
    /\ dropped \subseteq Question /\ overflown \subseteq Question

Init ==
    /\ stage = [h \in Handlers |-> "new"]
    /\ remote = [u \in Uris |-> NoHandler]
    /\ regs = [h \in Handlers |-> {}]
    /\ nextId = [h \in Handlers |-> 0]
    /\ calls = [h \in Handlers |-> {}]
    /\ step = [h \in Handlers |-> Idle]
    /\ jobs = [h \in Handlers |-> {}]
    /\ out = [h \in Handlers |-> <<>>]
    /\ client = [h \in Handlers |-> [i \in CallIds |-> "idle"]]
    /\ todo = [h \in Handlers |-> {}]
    /\ dropped = {}
    /\ overflown = {}

-----------------------------------------------------------------------------
(* Faulty variants of definitions below; the runs have to reject them. *)

(* unregister_rpc without the test that the entry belongs to the handler. *)
WithdrawAnybodys(h, us) == [u \in Uris |-> IF u \in us THEN NoHandler ELSE remote[u]]

(* Nothing is withdrawn when a client goes. *)
WithdrawNothing(h, us) == remote

(* The call is forwarded under the id of its caller. *)
IdOfOrigin(callee, origin) == origin

(* The reply keeps the id that the callee was given. *)
IdOfCallee(e, f) == f.id

(* The response does not remove the entry of the call. *)
KeepEntry(h, e) == calls[h]

(* A method that nobody registered is not answered. *)
IgnoreUnknown(h, i) == UNCHANGED <<out, overflown>>

(* "reg" forgets to note the method in the handler. *)
NoteNothing(h) == regs

-----------------------------------------------------------------------------
(* queue.put on the queue of h.  When it is full, the exception Full is     *)
(* logged and the frame is lost.                                            *)
Send(h, f) ==
    IF Len(out[h]) < QueueSize
    THEN out' = [out EXCEPT ![h] = Append(@, f)] /\ UNCHANGED overflown
    ELSE /\ UNCHANGED out
         /\ overflown' = overflown \cup (IF f.type = "done" THEN {} ELSE {f.question})

Receiving(h) == stage[h] \in {"live", "closed"} /\ step[h] = Idle

(* ws_handler: the connection gets a handler. *)
Connect(h) ==
    /\ stage[h] = "new"
    /\ stage' = [stage EXCEPT ![h] = "live"]
    /\ UNCHANGED <<serverVars, routeVars, step, jobs, out, clientVars, dropped, overflown>>

(* "reg", first part: WebSocketServer.register_rpc takes the method over    *)
(* from whoever had it.                                                     *)
RegisterRpc(h, u) ==
    /\ h \in Providers
    /\ Receiving(h)
    /\ remote' = [remote EXCEPT ![u] = h]
    /\ step' = [step EXCEPT ![h] = [at |-> "registering", uri |-> u]]
    /\ UNCHANGED <<stage, regs, routeVars, jobs, out, clientVars, dropped, overflown>>

(* "reg", second part: the handler notes the method and replies. *)
Noted(h) == [regs EXCEPT ![h] = @ \cup {step[h].uri}]

NoteRegistration(h) ==
    /\ step[h].at = "registering"
    /\ regs' = Noted(h)
    /\ Send(h, [type |-> "done"])
    /\ step' = [step EXCEPT ![h] = Idle]
    /\ UNCHANGED <<stage, remote, routeVars, jobs, clientVars, dropped>>

(* The error reply "no method registered". *)
ReplyUnknown(h, i) == Send(h, [type |-> "reply", id |-> i, question |-> <<h, i>>])

(* A client calls a method: spin looks it up with get_callback. *)
ReceiveCall(h, i, u) ==
    /\ h \in Callers
    /\ Receiving(h)
    /\ client[h][i] = "idle"
    /\ client' = [client EXCEPT ![h][i] = "asked"]
    /\ \/ /\ u \in LocalUris
          /\ jobs' = [jobs EXCEPT ![h] = @ \cup {i}]
          /\ UNCHANGED <<step, out, overflown>>
       \/ /\ u \notin LocalUris
          /\ remote[u] # NoHandler
          /\ step' = [step EXCEPT ![h] =
                [at |-> "forwarding", uri |-> u, id |-> i, callee |-> remote[u]]]
          /\ UNCHANGED <<jobs, out, overflown>>
       \/ /\ u \notin LocalUris
          /\ remote[u] = NoHandler
          /\ ReplyUnknown(h, i)
          /\ UNCHANGED <<step, jobs>>
    /\ UNCHANGED <<stage, serverVars, routeVars, todo, dropped>>

(* The id under which the callee's client gets a call. *)
RemoteId(callee, origin) == nextId[callee]

(* remote_call of the callee's handler, executed by the caller's thread     *)
(* under the callee's lock.  A method that the callee does not have (yet)   *)
(* is dropped without a reply.  The entry is made before the frame is put,  *)
(* and stays when the queue is full.                                        *)
ForwardCall(h) ==
    /\ step[h].at = "forwarding"
    /\ step' = [step EXCEPT ![h] = Idle]
    /\ LET c == step[h].callee
           n == RemoteId(c, step[h].id)
       IN IF step[h].uri \in regs[c]
          THEN /\ calls' = [calls EXCEPT ![c] =
                    {e \in @ : e.id # n} \cup {[id |-> n, origin |-> step[h].id, handler |-> h]}]
               /\ Send(c, [type |-> "call", id |-> n, uri |-> step[h].uri,
                                  question |-> <<h, step[h].id>>])
               /\ nextId' = [nextId EXCEPT ![c] = @ + 1]
               /\ UNCHANGED dropped
          ELSE /\ dropped' = dropped \cup {<<h, step[h].id>>}
               /\ UNCHANGED <<routeVars, out, overflown>>
    /\ UNCHANGED <<stage, serverVars, jobs, clientVars>>

(* A worker thread finishes the call of a local method, in any order. *)
FinishJob(h, i) ==
    /\ i \in jobs[h]
    /\ jobs' = [jobs EXCEPT ![h] = @ \ {i}]
    /\ Send(h, [type |-> "reply", id |-> i, question |-> <<h, i>>])
    /\ UNCHANGED <<stage, serverVars, routeVars, step, clientVars, dropped>>

(* The entry of a call that is answered is removed. *)
DropEntry(h, e) == calls[h] \ {e}

(* The id under which the caller gets the reply. *)
ReplyId(e, f) == e.origin

(* The client of h answers a forwarded call: spin finds the entry of the    *)
(* id, removes it and routes the result to the handler of the caller, which *)
(* may be gone by now.                                                      *)
ReceiveResponse(h, f) ==
    /\ Receiving(h)
    /\ f \in todo[h]
    /\ todo' = [todo EXCEPT ![h] = @ \ {f}]
    /\ \E e \in calls[h] :
        /\ e.id = f.id
        /\ calls' = [calls EXCEPT ![h] = DropEntry(h, e)]
        /\ Send(e.handler, [type |-> "reply", id |-> ReplyId(e, f), question |-> f.question])
    /\ UNCHANGED <<stage, serverVars, nextId, step, jobs, client, dropped>>

(* The sender thread delivers the oldest frame. *)
Deliver(h) ==
    /\ stage[h] = "live"
    /\ out[h] # <<>>
    /\ LET f == Head(out[h])
       IN /\ todo' = IF f.type = "call" THEN [todo EXCEPT ![h] = @ \cup {f}] ELSE todo
          /\ client' = IF f.type = "reply" THEN [client EXCEPT ![h][f.id] = "settled"] ELSE client
    /\ out' = [out EXCEPT ![h] = Tail(@)]
    /\ UNCHANGED <<stage, serverVars, routeVars, step, jobs, dropped, overflown>>

-----------------------------------------------------------------------------
(* The connection ends.  Messages that arrived before are still handled. *)
Disconnect(h) ==
    /\ stage[h] = "live"
    /\ stage' = [stage EXCEPT ![h] = "closed"]
    /\ UNCHANGED <<serverVars, routeVars, step, jobs, out, clientVars, dropped, overflown>>

(* The "finally" of spin copies the registrations ... *)
SpinEnds(h) ==
    /\ stage[h] = "closed"
    /\ step[h] = Idle
    /\ stage' = [stage EXCEPT ![h] = "ending"]
    /\ step' = [step EXCEPT ![h] = [at |-> "unregistering", left |-> regs[h]]]
    /\ UNCHANGED <<serverVars, routeVars, jobs, out, clientVars, dropped, overflown>>

(* Of the methods us, those that are still served by h are withdrawn. *)
Withdraw(h, us) ==
    [u \in Uris |-> IF u \in us /\ remote[u] = h THEN NoHandler ELSE remote[u]]

(* ... and unregisters one after the other. *)
UnregisterRpc(h, u) ==
    /\ step[h].at = "unregistering"
    /\ u \in step[h].left
    /\ remote' = Withdraw(h, {u})
    /\ step' = [step EXCEPT ![h].left = @ \ {u}]
    /\ UNCHANGED <<stage, regs, routeVars, jobs, out, clientVars, dropped, overflown>>

(* The "finally" of ws_handler removes the handler and what is left of its  *)
(* methods.                                                                 *)
RemoveHandler(h) ==
    /\ step[h].at = "unregistering"
    /\ step[h].left = {}
    /\ stage' = [stage EXCEPT ![h] = "gone"]
    /\ remote' = Withdraw(h, Uris)
    /\ step' = [step EXCEPT ![h] = Idle]
    /\ UNCHANGED <<regs, routeVars, jobs, out, clientVars, dropped, overflown>>

Spinning(h) ==
    \/ NoteRegistration(h) \/ ForwardCall(h)
    \/ SpinEnds(h) \/ RemoveHandler(h)
    \/ \E u \in Uris : UnregisterRpc(h, u)

Next == \E h \in Handlers :
    \/ Connect(h) \/ Deliver(h) \/ Disconnect(h) \/ Spinning(h)
    \/ \E u \in Uris : RegisterRpc(h, u) \/ \E i \in CallIds : ReceiveCall(h, i, u)
    \/ \E i \in CallIds : FinishJob(h, i)
    \/ \E f \in todo[h] : ReceiveResponse(h, f)

(* Threads that have something to do go on, a worker thread finishes its    *)
(* call, and a client that is connected reads what it is sent and answers   *)
(* the calls it gets, as the Python client of the suite does even when the  *)
(* method raises.  The messages of one client are read in order, so that no *)
(* other message of the client delays an answer for ever: this is a strong  *)
(* fairness.  Nobody has to call, to register or to disconnect.             *)
Fairness == \A h \in Handlers :
    /\ WF_vars(Spinning(h))
    /\ WF_vars(Deliver(h))
    /\ \A i \in CallIds : WF_vars(FinishJob(h, i))
    /\ SF_vars(\E f \in todo[h] : ReceiveResponse(h, f))

Spec == Init /\ [][Next]_vars /\ Fairness

-----------------------------------------------------------------------------
(* Properties *)

Replies(h) == {i \in DOMAIN out[h] : out[h][i].type = "reply"}

(* A client only gets replies that it waits for: every reply in its queue   *)
(* carries the id of a call that the client made and did not see settled,   *)
(* no two carry the same id, and the result is that of this very call, also *)
(* when several clients use the same ids for calls of the same method and   *)
(* the callee answers in another order.                                     *)
RepliesAwaited ==
    \A h \in Handlers : \A i \in Replies(h) :
        /\ out[h][i].question = <<h, out[h][i].id>>
        /\ client[h][out[h][i].id] = "asked"
        /\ \A j \in Replies(h) : out[h][j].id = out[h][i].id => j = i

Forwarded(h) == todo[h] \cup {f \in Range(out[h]) : f.type = "call"}

(* Every call that is on its way to a client or that the client works on    *)
(* can be routed back: the handler has exactly one entry with its id, and   *)
(* the entry names the caller.                                              *)
RoutesComplete ==
    \A h \in Handlers : \A f \in Forwarded(h) :
        /\ \E e \in calls[h] : e.id = f.id /\ <<e.handler, e.origin>> = f.question
        /\ \A e, d \in calls[h] : e.id = f.id /\ d.id = f.id => e = d

(* The map of forwarded calls holds nothing but calls the client did not    *)
(* answer yet, and calls that a full queue lost: it does not grow with the  *)
(* number of answered calls.                                                *)
EntriesPending ==
    \A h \in Handlers : \A e \in calls[h] :
        \/ \E f \in Forwarded(h) : f.id = e.id
        \/ <<e.handler, e.origin>> \in overflown

(* A method never leads to a handler that was removed from the server. *)
GoneServesNothing ==
    \A u \in Uris : remote[u] # NoHandler => stage[remote[u]] # "gone"

(* A method disappears only while the handler that serves it ends.  A       *)
(* client that registered it before and was replaced takes nothing away     *)
(* when it goes.                                                            *)
WithdrawnByOwner ==
    [][\A u \in Uris :
        remote[u] # NoHandler /\ remote'[u] = NoHandler => stage[remote[u]] = "ending"]_vars

(* remote_call drops a call without a reply in one window only: the method  *)
(* is in the table of the server, and the thread of the callee did not yet  *)
(* note it in the handler.                                                  *)
DroppedWhileRegistering ==
    [][\A h \in Handlers :
        dropped' # dropped /\ step'[h] # step[h] =>
            LET c == step[h].callee
            IN step[c].at = "registering" /\ step[c].uri = step[h].uri]_vars

(* Every call of a connected client is settled, unless remote_call dropped  *)
(* it, a full queue lost it or a client went away; then nothing but the     *)
(* timeout of the caller ends it.                                           *)
CallsSettle ==
    \A h \in Callers, i \in CallIds :
        client[h][i] = "asked" ~>
            \/ client[h][i] = "settled"
            \/ <<h, i>> \in dropped \cup overflown
            \/ \E c \in Handlers : stage[c] \in {"closed", "ending", "gone"}
=============================================================================
