----------------------------- MODULE WsRpcProofs ----------------------------
(***************************************************************************)
(* Proofs about WsRpc, for any connections, methods and ids of clients and *)
(* every limit of the outgoing queues.                                     *)
(*                                                                         *)
(* The argument: a question is in one place at a time.  It is in the hands *)
(* of the thread that forwards it, of a worker thread, of a client that    *)
(* works on it, or in one outgoing queue, as a call or as a reply.  So the *)
(* client is never answered twice, and the entry under which a call was    *)
(* forwarded is there as long as the call is.                              *)
(***************************************************************************)
EXTENDS WsRpc, SequenceTheorems, TLAPS

Kinds == {"step", "jobs", "out", "todo"}

(* The question q is in the place of kind k of the handler h. *)
At(k, h, q) ==
    \/ k = "step" /\ q[1] = h /\ step[h].at = "forwarding" /\ step[h].id = q[2]
    \/ k = "jobs" /\ q[1] = h /\ q[2] \in jobs[h]
    \/ k = "out"  /\ \E f \in Range(out[h]) : f.type # "done" /\ f.question = q
    \/ k = "todo" /\ \E f \in todo[h] : f.question = q

OnePlace ==
    \A k, l \in Kinds : \A g, h \in Handlers : \A q \in Question :
        At(k, g, q) /\ At(l, h, q) => k = l /\ g = h

Asked ==
    \A k \in Kinds : \A h \in Handlers : \A q \in Question :
        At(k, h, q) => client[q[1]][q[2]] = "asked"

(* No two frames of a queue carry the same question. *)
Once(s) ==
    \A i, j \in 1 .. Len(s) :
        s[i].type # "done" /\ s[j].type # "done" /\ s[i].question = s[j].question => i = j

QueuedOnce == \A h \in Handlers : Once(out[h])

WorkedOnce == \A h \in Handlers : \A f, g \in todo[h] : f.question = g.question => f = g

(* A reply is in the queue of the client that asked. *)
RepliesOwn ==
    \A h \in Handlers : \A f \in Range(out[h]) : f.type = "reply" => f.question = <<h, f.id>>

(* The ids of the entries of a handler are different and were given before. *)
EntriesNumbered ==
    \A h \in Handlers : \A e \in calls[h] :
        /\ e.id < nextId[h]
        /\ \A d \in calls[h] : d.id = e.id => d = e

(* A method that leads to a handler is noted there, or is about to be. *)
NotedOrRegistering(h, u) ==
    u \in regs[h] \/ (step[h].at = "registering" /\ step[h].uri = u)

RegistrationsNoted ==
    /\ \A u \in Uris : remote[u] # NoHandler => NotedOrRegistering(remote[u], u)
    /\ \A h \in Handlers :
        step[h].at = "forwarding" => NotedOrRegistering(step[h].callee, step[h].uri)

(* A handler unregisters its methods when it ends, and only then. *)
EndsUnregistering == \A h \in Handlers : step[h].at = "unregistering" <=> stage[h] = "ending"

(* The inductive invariants: of the questions, of the entries that lead the  *)
(* replies back, and, apart from them, of the registrations.                *)
OneQuestion == OnePlace /\ Asked /\ QueuedOnce /\ WorkedOnce /\ RepliesOwn

Routed == RoutesComplete /\ EntriesNumbered /\ EntriesPending

Registered == RegistrationsNoted /\ EndsUnregistering /\ GoneServesNothing

-----------------------------------------------------------------------------
(* Frames and queues. *)

LEMMA FrameKinds ==
    ASSUME NEW f \in Frame
    PROVE  /\ f.type \in {"call", "reply", "done"}
           /\ f.type = "call" => f \in CallFrame /\ f.question \in Question /\ f.id \in Nat
           /\ f.type = "reply" => f \in ReplyFrame /\ f.question \in Question /\ f.id \in CallIds
BY DEF Frame, CallFrame, ReplyFrame, DoneFrame

LEMMA RangeOfQueue ==
    ASSUME NEW s \in Seq(Frame)
    PROVE  /\ Range(s) \subseteq Frame
           /\ \A f : f \in Range(s) <=> \E i \in 1 .. Len(s) : f = s[i]
<1>1. DOMAIN s = 1 .. Len(s) /\ \A i \in 1 .. Len(s) : s[i] \in Frame
  OBVIOUS
<1> QED
  BY <1>1 DEF Range

(* A frame that is put at the end of a queue. *)
LEMMA Appended ==
    ASSUME NEW s \in Seq(Frame), NEW f \in Frame
    PROVE  /\ Append(s, f) \in Seq(Frame)
           /\ Range(Append(s, f)) = Range(s) \cup {f}
           /\ /\ Once(s)
              /\ f.type # "done" =>
                    \A g \in Range(s) : g.type # "done" => g.question # f.question
              => Once(Append(s, f))
<1> DEFINE t == Append(s, f)
<1>1. /\ t \in Seq(Frame)
      /\ Len(s) \in Nat
      /\ Len(t) = Len(s) + 1
      /\ \A i \in 1 .. Len(s) : t[i] = s[i]
      /\ t[Len(s) + 1] = f
  BY AppendProperties
<1>2. \A i \in 1 .. Len(t) : i \in 1 .. Len(s) \/ i = Len(s) + 1
  BY <1>1
<1>3. 1 .. Len(s) \subseteq 1 .. Len(t) /\ Len(s) + 1 \in 1 .. Len(t)
  BY <1>1
<1> HIDE DEF t
<1>4. Range(t) = Range(s) \cup {f}
  <2>1. ASSUME NEW g \in Range(t)
        PROVE  g \in Range(s) \cup {f}
    BY <1>1, <1>2, <2>1, RangeOfQueue
  <2>2. ASSUME NEW g \in Range(s) \cup {f}
        PROVE  g \in Range(t)
    <3>1. CASE g = f
      BY <1>1, <1>3, <3>1, RangeOfQueue
    <3>2. CASE g \in Range(s)
      <4>1. PICK i \in 1 .. Len(s) : g = s[i]
        BY <3>2, RangeOfQueue
      <4>2. i \in 1 .. Len(t) /\ t[i] = g
        BY <4>1, <1>1, <1>3
      <4> QED
        BY <4>2, <1>1, RangeOfQueue
    <3> QED
      BY <2>2, <3>1, <3>2
  <2> QED
    BY <2>1, <2>2
<1>5. ASSUME Once(s),
             f.type # "done" =>
                 \A g \in Range(s) : g.type # "done" => g.question # f.question
      PROVE  Once(t)
  <2>1. \A i \in 1 .. Len(s) : s[i] \in Range(s)
    BY RangeOfQueue
  <2>2. SUFFICES ASSUME NEW i \in 1 .. Len(t), NEW j \in 1 .. Len(t),
                        t[i].type # "done", t[j].type # "done",
                        t[i].question = t[j].question
                 PROVE  i = j
    BY DEF Once
  <2>3. CASE i \in 1 .. Len(s) /\ j \in 1 .. Len(s)
    BY <1>1, <1>5, <2>2, <2>3 DEF Once
  <2>4. CASE i \in 1 .. Len(s) /\ j = Len(s) + 1
    BY <1>1, <1>5, <2>1, <2>2, <2>4
  <2>5. CASE i = Len(s) + 1 /\ j \in 1 .. Len(s)
    BY <1>1, <1>5, <2>1, <2>2, <2>5
  <2> QED
    BY <1>2, <2>3, <2>4, <2>5
<1> QED
  BY <1>1, <1>4, <1>5 DEF t

(* The frame that is taken from the front of a queue. *)
LEMMA Taken ==
    ASSUME NEW s \in Seq(Frame), s # <<>>
    PROVE  /\ Head(s) \in Frame
           /\ Tail(s) \in Seq(Frame)
           /\ Range(s) = Range(Tail(s)) \cup {Head(s)}
           /\ Once(s) => Once(Tail(s))
           /\ Once(s) /\ Head(s).type # "done" =>
                \A g \in Range(Tail(s)) : g.type # "done" => g.question # Head(s).question
<1> DEFINE t == Tail(s)
<1>1. /\ Head(s) \in Frame
      /\ t \in Seq(Frame)
      /\ Len(t) = Len(s) - 1
      /\ \A i \in 1 .. Len(t) : t[i] = s[i + 1]
      /\ Head(s) = s[1]
      /\ Len(s) \in Nat \ {0}
  BY HeadTailProperties
<1>2. \A i \in 1 .. Len(t) : i + 1 \in 1 .. Len(s) /\ i + 1 # 1
  BY <1>1
<1>3. \A i \in 1 .. Len(s) : i = 1 \/ \E j \in 1 .. Len(t) : i = j + 1
  <2>1. ASSUME NEW i \in 1 .. Len(s), i # 1
        PROVE  i - 1 \in 1 .. Len(t) /\ i = (i - 1) + 1
    BY <2>1, <1>1
  <2> QED
    BY <2>1
<1>4. 1 \in 1 .. Len(s)
  BY <1>1
<1> HIDE DEF t
<1>5. Range(s) = Range(t) \cup {Head(s)}
  <2>1. ASSUME NEW g \in Range(s)
        PROVE  g \in Range(t) \cup {Head(s)}
    <3>1. PICK i \in 1 .. Len(s) : g = s[i]
      BY RangeOfQueue
    <3>2. CASE i = 1
      BY <3>1, <3>2, <1>1
    <3>3. CASE \E j \in 1 .. Len(t) : i = j + 1
      BY <3>1, <3>3, <1>1, RangeOfQueue
    <3> QED
      BY <3>2, <3>3, <1>3
  <2>2. ASSUME NEW g \in Range(t)
        PROVE  g \in Range(s)
    <3>1. PICK i \in 1 .. Len(t) : g = t[i]
      BY <1>1, RangeOfQueue
    <3>2. i + 1 \in 1 .. Len(s) /\ g = s[i + 1]
      BY <3>1, <1>1, <1>2
    <3> QED
      BY <3>2, RangeOfQueue
  <2>3. Head(s) \in Range(s)
    BY <1>1, <1>4, RangeOfQueue
  <2> QED
    BY <2>1, <2>2, <2>3
<1>6. ASSUME Once(s)
      PROVE  Once(t)
  <2>1. SUFFICES ASSUME NEW i \in 1 .. Len(t), NEW j \in 1 .. Len(t),
                        t[i].type # "done", t[j].type # "done",
                        t[i].question = t[j].question
                 PROVE  i = j
    BY DEF Once
  <2>2. i + 1 = j + 1
    BY <1>1, <1>2, <1>6, <2>1 DEF Once
  <2> QED
    BY <2>2
<1>7. ASSUME Once(s), Head(s).type # "done",
             NEW g \in Range(t), g.type # "done", g.question = Head(s).question
      PROVE  FALSE
  <2>1. PICK i \in 1 .. Len(t) : g = t[i]
    BY <1>1, RangeOfQueue
  <2>2. i + 1 = 1
    BY <2>1, <1>1, <1>2, <1>4, <1>7 DEF Once
  <2> QED
    BY <2>2, <1>2
<1> QED
  BY <1>1, <1>5, <1>6, <1>7 DEF t

(* What queue.put does to the queues and to the lost questions. *)
LEMMA Sent ==
    ASSUME TypeOK, NEW h \in Handlers, NEW f \in Frame, Send(h, f)
    PROVE  /\ out' \in [Handlers -> Seq(Frame)]
           /\ \A g \in Handlers \ {h} : out'[g] = out[g]
           /\ Range(out[h]) \subseteq Range(out'[h])
           /\ Range(out'[h]) \subseteq Range(out[h]) \cup {f}
           /\ f.type = "done" \/ f \in Range(out'[h]) \/ f.question \in overflown'
           /\ overflown \subseteq overflown'
           /\ overflown' \subseteq Question
           /\ /\ QueuedOnce
              /\ f.type # "done" =>
                    \A g \in Range(out[h]) : g.type # "done" => g.question # f.question
              => QueuedOnce'
<1>1. out[h] \in Seq(Frame) /\ out \in [Handlers -> Seq(Frame)] /\ overflown \subseteq Question
  BY DEF TypeOK
<1>2. CASE Len(out[h]) < QueueSize
  <2>1. out' = [out EXCEPT ![h] = Append(out[h], f)] /\ overflown' = overflown
    BY <1>2 DEF Send
  <2>2. /\ out'[h] = Append(out[h], f)
        /\ \A g \in Handlers \ {h} : out'[g] = out[g]
        /\ out' \in [Handlers -> Seq(Frame)]
    BY <2>1, <1>1, Appended
  <2>3. Range(out'[h]) = Range(out[h]) \cup {f}
    BY <2>2, <1>1, Appended
  <2>4. ASSUME QueuedOnce,
               f.type # "done" =>
                   \A g \in Range(out[h]) : g.type # "done" => g.question # f.question
        PROVE  QueuedOnce'
    <3>1. Once(out'[h])
      BY <2>2, <2>4, <1>1, Appended DEF QueuedOnce
    <3>2. \A g \in Handlers \ {h} : Once(out'[g])
      BY <2>2, <2>4 DEF QueuedOnce
    <3> QED
      BY <3>1, <3>2 DEF QueuedOnce
  <2> QED
    BY <1>1, <2>1, <2>2, <2>3, <2>4
<1>3. CASE ~(Len(out[h]) < QueueSize)
  <2>1. /\ out' = out
        /\ overflown' = overflown \cup (IF f.type = "done" THEN {} ELSE {f.question})
    BY <1>3 DEF Send
  <2>2. f.type # "done" => f.question \in Question
    BY FrameKinds
  <2>3. QueuedOnce => QueuedOnce'
    BY <2>1 DEF QueuedOnce
  <2> QED
    BY <1>1, <2>1, <2>2, <2>3
<1> QED
  BY <1>2, <1>3

-----------------------------------------------------------------------------
(* Types. *)

LEMMA StepIs ==
    ASSUME TypeOK, NEW h \in Handlers
    PROVE  /\ step[h].at = "registering" => step[h].uri \in Uris
           /\ step[h].at = "forwarding" =>
                step[h].uri \in Uris /\ step[h].id \in CallIds /\ step[h].callee \in Handlers
           /\ step[h].at = "unregistering" =>
                step[h] = [at |-> "unregistering", left |-> step[h].left]
                /\ step[h].left \subseteq Uris
           /\ step[h].at = "idle" => step[h] = Idle
BY DEF TypeOK, Step, Idle

(* The frames that the handlers send. *)
LEMMA FramesMade ==
    /\ [type |-> "done"] \in Frame
    /\ \A h \in Handlers : \A i \in CallIds :
        [type |-> "reply", id |-> i, question |-> <<h, i>>] \in Frame
    /\ \A q \in Question : \A i \in CallIds :
        [type |-> "reply", id |-> i, question |-> q] \in Frame
    /\ \A q \in Question : \A n \in Nat : \A u \in Uris :
        [type |-> "call", id |-> n, uri |-> u, question |-> q] \in CallFrame \cap Frame
BY DEF Frame, DoneFrame, ReplyFrame, CallFrame, Question

LEMMA TypeInit == Init => TypeOK
<1>1. ASSUME Init
      PROVE  out \in [Handlers -> Seq(Frame)] /\ step \in [Handlers -> Step]
  BY <1>1 DEF Init, Step
<1> QED
  BY <1>1 DEF Init, TypeOK

LEMMA TypeNext == TypeOK /\ [Next]_vars => TypeOK'
<1> SUFFICES ASSUME TypeOK, [Next]_vars
             PROVE  TypeOK'
  OBVIOUS
<1>1. ASSUME NEW h \in Handlers, Connect(h)
      PROVE  TypeOK'
  BY <1>1 DEF Connect, TypeOK, serverVars, routeVars, clientVars
<1>2. ASSUME NEW h \in Handlers, Disconnect(h)
      PROVE  TypeOK'
  BY <1>2 DEF Disconnect, TypeOK, serverVars, routeVars, clientVars
<1>3. ASSUME NEW h \in Handlers, NEW u \in Uris, RegisterRpc(h, u)
      PROVE  TypeOK'
  <2>1. [at |-> "registering", uri |-> u] \in Step
    BY DEF Step
  <2>2. step' \in [Handlers -> Step] /\ remote' \in [Uris -> Handlers \cup {NoHandler}]
    BY <1>3, <2>1 DEF RegisterRpc, TypeOK
  <2> QED
    BY <1>3, <2>2 DEF RegisterRpc, TypeOK, routeVars, clientVars
<1>4. ASSUME NEW h \in Handlers, NoteRegistration(h)
      PROVE  TypeOK'
  <2>1. out' \in [Handlers -> Seq(Frame)] /\ overflown' \subseteq Question
    BY <1>4, FramesMade, Sent DEF NoteRegistration
  <2>2. step' \in [Handlers -> Step]
    BY <1>4 DEF NoteRegistration, TypeOK, Step
  <2>3. regs' \in [Handlers -> SUBSET Uris]
    BY <1>4, StepIs DEF NoteRegistration, Noted, TypeOK
  <2> QED
    BY <1>4, <2>1, <2>2, <2>3 DEF NoteRegistration, TypeOK, routeVars, clientVars
<1>5. ASSUME NEW h \in Handlers, NEW i \in CallIds, NEW u \in Uris, ReceiveCall(h, i, u)
      PROVE  TypeOK'
  <2>1. client' \in [Handlers -> [CallIds -> {"idle", "asked", "settled"}]]
    <3>1. client' = [client EXCEPT ![h][i] = "asked"]
      BY <1>5 DEF ReceiveCall
    <3> QED
      BY <3>1 DEF TypeOK
  <2>2. /\ jobs' \in [Handlers -> SUBSET CallIds]
        /\ step' \in [Handlers -> Step]
        /\ out' \in [Handlers -> Seq(Frame)] /\ overflown' \subseteq Question
    <3>1. CASE u \in LocalUris
      <4>1. jobs' = [jobs EXCEPT ![h] = @ \cup {i}] /\ UNCHANGED <<step, out, overflown>>
        BY <1>5, <3>1 DEF ReceiveCall
      <4> QED
        BY <4>1 DEF TypeOK
    <3>2. CASE u \notin LocalUris /\ remote[u] # NoHandler
      <4>1. remote[u] \in Handlers
        BY <3>2 DEF TypeOK
      <4>2. [at |-> "forwarding", uri |-> u, id |-> i, callee |-> remote[u]] \in Step
        BY <4>1 DEF Step
      <4>3. /\ step' = [step EXCEPT ![h] =
                  [at |-> "forwarding", uri |-> u, id |-> i, callee |-> remote[u]]]
            /\ UNCHANGED <<jobs, out, overflown>>
        BY <1>5, <3>2 DEF ReceiveCall
      <4> QED
        BY <4>2, <4>3 DEF TypeOK
    <3>3. CASE u \notin LocalUris /\ remote[u] = NoHandler
      <4>1. ReplyUnknown(h, i) /\ step' = step /\ jobs' = jobs
        BY <1>5, <3>3 DEF ReceiveCall
      <4>2. out' \in [Handlers -> Seq(Frame)] /\ overflown' \subseteq Question
        BY <4>1, FramesMade, Sent DEF ReplyUnknown
      <4> QED
        BY <4>1, <4>2 DEF TypeOK
    <3> QED
      BY <3>1, <3>2, <3>3
  <2> QED
    BY <1>5, <2>1, <2>2 DEF ReceiveCall, TypeOK, serverVars, routeVars
<1>6. ASSUME NEW h \in Handlers, ForwardCall(h)
      PROVE  TypeOK'
  <2> DEFINE c == step[h].callee
             q == <<h, step[h].id>>
             n == nextId[c]
             f == [type |-> "call", id |-> n, uri |-> step[h].uri, question |-> q]
             e == [id |-> n, origin |-> step[h].id, handler |-> h]
  <2>1. /\ c \in Handlers /\ q \in Question /\ n \in Nat
        /\ f \in Frame /\ e \in Entry
    BY <1>6, StepIs, FramesMade DEF ForwardCall, TypeOK, Question, Entry
  <2>2. step' \in [Handlers -> Step]
    BY <1>6 DEF ForwardCall, TypeOK, Step
  <2>3. CASE step[h].uri \in regs[c]
    <3>1. /\ calls' = [calls EXCEPT ![c] = {d \in @ : d.id # n} \cup {e}]
          /\ Send(c, f)
          /\ nextId' = [nextId EXCEPT ![c] = @ + 1]
          /\ dropped' = dropped
      BY <1>6, <2>3 DEF ForwardCall, RemoteId
    <3>2. out' \in [Handlers -> Seq(Frame)] /\ overflown' \subseteq Question
      BY <2>1, <3>1, Sent
    <3>3. calls' \in [Handlers -> SUBSET Entry] /\ nextId' \in [Handlers -> Nat]
      BY <2>1, <3>1 DEF TypeOK
    <3> QED
      BY <1>6, <2>2, <3>1, <3>2, <3>3 DEF ForwardCall, TypeOK, serverVars, clientVars
  <2>4. CASE step[h].uri \notin regs[c]
    <3>1. dropped' = dropped \cup {q} /\ UNCHANGED <<routeVars, out, overflown>>
      BY <1>6, <2>4 DEF ForwardCall
    <3> QED
      BY <1>6, <2>1, <2>2, <3>1 DEF ForwardCall, TypeOK, serverVars, clientVars, routeVars
  <2> QED
    BY <2>3, <2>4
<1>7. ASSUME NEW h \in Handlers, NEW i \in CallIds, FinishJob(h, i)
      PROVE  TypeOK'
  <2>1. out' \in [Handlers -> Seq(Frame)] /\ overflown' \subseteq Question
    BY <1>7, FramesMade, Sent DEF FinishJob
  <2> QED
    BY <1>7, <2>1 DEF FinishJob, TypeOK, serverVars, routeVars, clientVars
<1>8. ASSUME NEW h \in Handlers, NEW f \in todo[h], ReceiveResponse(h, f)
      PROVE  TypeOK'
  <2>1. PICK e \in calls[h] :
            /\ calls' = [calls EXCEPT ![h] = calls[h] \ {e}]
            /\ Send(e.handler, [type |-> "reply", id |-> e.origin, question |-> f.question])
    BY <1>8 DEF ReceiveResponse, DropEntry, ReplyId
  <2>2. e \in Entry /\ f \in CallFrame
    BY DEF TypeOK
  <2>3. e.handler \in Handlers /\ e.origin \in CallIds /\ f.question \in Question
    BY <2>2 DEF Entry, CallFrame
  <2>4. out' \in [Handlers -> Seq(Frame)] /\ overflown' \subseteq Question
    BY <2>1, <2>3, FramesMade, Sent
  <2>5. calls' \in [Handlers -> SUBSET Entry]
    BY <2>1 DEF TypeOK
  <2>6. todo' \in [Handlers -> SUBSET CallFrame]
    BY <1>8 DEF ReceiveResponse, TypeOK
  <2> QED
    BY <1>8, <2>4, <2>5, <2>6 DEF ReceiveResponse, TypeOK, serverVars
<1>9. ASSUME NEW h \in Handlers, Deliver(h)
      PROVE  TypeOK'
  <2> DEFINE f == Head(out[h])
  <2>1. out[h] \in Seq(Frame) /\ out[h] # <<>> /\ out' = [out EXCEPT ![h] = Tail(out[h])]
    BY <1>9 DEF Deliver, TypeOK
  <2>2. f \in Frame /\ Tail(out[h]) \in Seq(Frame)
    BY <2>1, Taken
  <2>3. out' \in [Handlers -> Seq(Frame)]
    BY <2>1, <2>2 DEF TypeOK
  <2> HIDE DEF f
  <2>4. /\ todo' = IF f.type = "call" THEN [todo EXCEPT ![h] = @ \cup {f}] ELSE todo
        /\ client' = IF f.type = "reply" THEN [client EXCEPT ![h][f.id] = "settled"] ELSE client
    BY <1>9 DEF Deliver, f
  <2>5. todo' \in [Handlers -> SUBSET CallFrame]
    BY <2>2, <2>4, FrameKinds DEF TypeOK
  <2>6. client' \in [Handlers -> [CallIds -> {"idle", "asked", "settled"}]]
    BY <2>2, <2>4, FrameKinds DEF TypeOK
  <2> QED
    BY <1>9, <2>3, <2>5, <2>6 DEF Deliver, TypeOK, serverVars, routeVars
<1>10. ASSUME NEW h \in Handlers, SpinEnds(h)
       PROVE  TypeOK'
  <2>1. [at |-> "unregistering", left |-> regs[h]] \in Step
    BY DEF Step, TypeOK
  <2> QED
    BY <1>10, <2>1 DEF SpinEnds, TypeOK, serverVars, routeVars, clientVars
<1>11. ASSUME NEW h \in Handlers, NEW u \in Uris, UnregisterRpc(h, u)
       PROVE  TypeOK'
  <2>1. [at |-> "unregistering", left |-> step[h].left \ {u}] \in Step
    BY <1>11, StepIs DEF UnregisterRpc, Step
  <2>2. step' = [step EXCEPT ![h] = [at |-> "unregistering", left |-> step[h].left \ {u}]]
    <3>1. step[h] = [at |-> "unregistering", left |-> step[h].left]
      BY <1>11, StepIs DEF UnregisterRpc
    <3>2. [step[h] EXCEPT !.left = @ \ {u}] = [at |-> "unregistering", left |-> step[h].left \ {u}]
      BY <3>1
    <3>3. step' = [step EXCEPT ![h] = [step[h] EXCEPT !.left = @ \ {u}]]
      BY <1>11 DEF UnregisterRpc
    <3> QED
      BY <3>2, <3>3
  <2>3. step' \in [Handlers -> Step]
    BY <2>1, <2>2 DEF TypeOK
  <2>4. remote' \in [Uris -> Handlers \cup {NoHandler}]
    BY <1>11 DEF UnregisterRpc, Withdraw, TypeOK
  <2> QED
    BY <1>11, <2>3, <2>4 DEF UnregisterRpc, TypeOK, routeVars, clientVars
<1>12. ASSUME NEW h \in Handlers, RemoveHandler(h)
       PROVE  TypeOK'
  <2>1. step' \in [Handlers -> Step]
    BY <1>12 DEF RemoveHandler, TypeOK, Step
  <2>2. remote' \in [Uris -> Handlers \cup {NoHandler}]
    BY <1>12 DEF RemoveHandler, Withdraw, TypeOK
  <2> QED
    BY <1>12, <2>1, <2>2 DEF RemoveHandler, TypeOK, routeVars, clientVars
<1>13. CASE UNCHANGED vars
  BY <1>13 DEF TypeOK, vars
<1> QED
  BY <1>1, <1>2, <1>3, <1>4, <1>5, <1>6, <1>7, <1>8, <1>9, <1>10, <1>11, <1>12, <1>13
     DEF Next, Spinning

(* The server, its handlers, the queues and the clients keep their types,   *)
(* whatever the clients ask and in whatever order the threads run           *)
(* (WebSocketHandler.spin, remote_call and WebSocketServer of server.py).   *)
THEOREM TypeCorrect == Spec => []TypeOK
BY TypeInit, TypeNext, PTL DEF Spec

-----------------------------------------------------------------------------
(* Registrations. *)

(* The actions that leave the registrations and the threads alone. *)
LEMMA RegisteredQuiet ==
    ASSUME Registered, UNCHANGED <<remote, regs, step>>,
           \A h \in Handlers :
              /\ stage'[h] = "ending" <=> stage[h] = "ending"
              /\ stage'[h] = "gone" => stage[h] = "gone",
           TypeOK
    PROVE  Registered'
<1>1. \A h \in Handlers : \A u \in Uris :
        NotedOrRegistering(h, u) => NotedOrRegistering(h, u)'
  BY DEF NotedOrRegistering
<1>2. RegistrationsNoted'
  <2>1. ASSUME NEW u \in Uris, remote'[u] # NoHandler
        PROVE  NotedOrRegistering(remote[u], u)'
    BY <1>1, <2>1 DEF Registered, RegistrationsNoted, TypeOK
  <2>2. ASSUME NEW h \in Handlers, step'[h].at = "forwarding"
        PROVE  NotedOrRegistering(step[h].callee, step[h].uri)'
    BY <1>1, <2>2, StepIs DEF Registered, RegistrationsNoted
  <2> QED
    BY <2>1, <2>2 DEF RegistrationsNoted
<1>3. EndsUnregistering'
  BY DEF Registered, EndsUnregistering
<1>4. GoneServesNothing'
  BY DEF Registered, GoneServesNothing, TypeOK
<1> QED
  BY <1>2, <1>3, <1>4 DEF Registered

(* A thread that finishes, or begins to unregister, takes no method away    *)
(* from the handlers that serve methods.                                    *)
LEMMA ThreadMoves ==
    ASSUME TypeOK, TypeOK', RegistrationsNoted, NEW h \in Handlers,
           \A g \in Handlers : g # h => step'[g] = step[g],
           step'[h].at \in {"idle", "unregistering"},
           \A g \in Handlers : regs[g] \subseteq regs'[g],
           step[h].at = "registering" => step[h].uri \in regs'[h],
           \A u \in Uris : remote'[u] \in {remote[u], NoHandler}
    PROVE  RegistrationsNoted'
<1>1. ASSUME NEW g \in Handlers, NEW v \in Uris, NotedOrRegistering(g, v)
      PROVE  NotedOrRegistering(g, v)'
  BY <1>1 DEF NotedOrRegistering
<1>2. ASSUME NEW v \in Uris, remote'[v] # NoHandler
      PROVE  NotedOrRegistering(remote[v], v)' /\ remote'[v] = remote[v]
  BY <1>1, <1>2 DEF RegistrationsNoted, TypeOK
<1>3. ASSUME NEW g \in Handlers, step'[g].at = "forwarding"
      PROVE  step'[g] = step[g] /\ NotedOrRegistering(step[g].callee, step[g].uri)'
  BY <1>1, <1>3, StepIs DEF RegistrationsNoted
<1> QED
  BY <1>2, <1>3 DEF RegistrationsNoted, NotedOrRegistering

LEMMA RegisteredNext ==
    ASSUME TypeOK, TypeOK', Registered, [Next]_vars
    PROVE  Registered'
<1> USE DEF Registered
<1>1. ASSUME NEW h \in Handlers, Connect(h)
      PROVE  Registered'
  BY <1>1, RegisteredQuiet DEF Connect, TypeOK, serverVars
<1>2. ASSUME NEW h \in Handlers, Disconnect(h)
      PROVE  Registered'
  BY <1>2, RegisteredQuiet DEF Disconnect, TypeOK, serverVars
<1>3. ASSUME NEW h \in Handlers, NEW u \in Uris, RegisterRpc(h, u)
      PROVE  Registered'
  <2>1. /\ remote' = [remote EXCEPT ![u] = h]
        /\ step' = [step EXCEPT ![h] = [at |-> "registering", uri |-> u]]
        /\ stage' = stage /\ regs' = regs
        /\ stage[h] \in {"live", "closed"} /\ step[h] = Idle
    BY <1>3 DEF RegisterRpc, Receiving
  <2>2. step[h].at = "idle"
    BY <2>1 DEF Idle
  <2>3. \A g \in Handlers : g # h => step'[g] = step[g]
    BY <2>1 DEF TypeOK
  <2>4. step'[h] = [at |-> "registering", uri |-> u]
    BY <2>1 DEF TypeOK
  <2>5. RegistrationsNoted'
    <3>1. ASSUME NEW g \in Handlers, NEW v \in Uris, NotedOrRegistering(g, v)
          PROVE  NotedOrRegistering(g, v)'
      BY <2>1, <2>2, <2>3, <3>1 DEF NotedOrRegistering
    <3>2. ASSUME NEW v \in Uris, remote'[v] # NoHandler
          PROVE  NotedOrRegistering(remote[v], v)'
                 \/ (v = u /\ remote'[v] = h)
      BY <2>1, <3>1, <3>2 DEF RegistrationsNoted, TypeOK
    <3>3. ASSUME NEW v \in Uris, remote'[v] # NoHandler
          PROVE  \/ NotedOrRegistering(remote[v], v)' /\ remote'[v] = remote[v]
                 \/ v = u /\ remote'[v] = h
      BY <2>1, <3>2, <3>3 DEF TypeOK
    <3>4. ASSUME NEW g \in Handlers, step'[g].at = "forwarding"
          PROVE  NotedOrRegistering(step[g].callee, step[g].uri)'
      <4>1. g # h
        BY <2>4, <3>4
      <4>2. step'[g] = step[g]
        BY <2>3, <4>1
      <4> QED
        BY <3>1, <3>4, <4>2, StepIs DEF RegistrationsNoted
    <3> QED
      BY <2>4, <3>3, <3>4 DEF RegistrationsNoted, NotedOrRegistering
  <2>6. EndsUnregistering'
    BY <2>1, <2>2, <2>3, <2>4 DEF EndsUnregistering
  <2>7. GoneServesNothing'
    BY <2>1 DEF GoneServesNothing, TypeOK
  <2> QED
    BY <2>5, <2>6, <2>7
<1>4. ASSUME NEW h \in Handlers, NoteRegistration(h)
      PROVE  Registered'
  <2>1. /\ regs' = [regs EXCEPT ![h] = @ \cup {step[h].uri}]
        /\ step' = [step EXCEPT ![h] = Idle]
        /\ stage' = stage /\ remote' = remote
        /\ step[h].at = "registering"
    BY <1>4 DEF NoteRegistration, Noted
  <2>2. \A g \in Handlers : g # h => step'[g] = step[g]
    BY <2>1 DEF TypeOK
  <2>3. step'[h].at = "idle"
    BY <2>1 DEF TypeOK, Idle
  <2>5. RegistrationsNoted'
    BY <2>1, <2>2, <2>3, ThreadMoves DEF TypeOK
  <2>6. EndsUnregistering'
    BY <2>1, <2>2, <2>3 DEF EndsUnregistering
  <2> QED
    BY <2>1, <2>5, <2>6 DEF GoneServesNothing
<1>5. ASSUME NEW h \in Handlers, NEW i \in CallIds, NEW u \in Uris, ReceiveCall(h, i, u)
      PROVE  Registered'
  <2>1. UNCHANGED <<stage, remote, regs>> /\ step[h] = Idle
    BY <1>5 DEF ReceiveCall, Receiving, serverVars
  <2>2. CASE step' = step
    BY <2>1, <2>2, RegisteredQuiet
  <2>3. CASE /\ remote[u] # NoHandler
             /\ step' = [step EXCEPT ![h] =
                  [at |-> "forwarding", uri |-> u, id |-> i, callee |-> remote[u]]]
    <3>1. step[h].at = "idle"
      BY <2>1 DEF Idle
    <3>2. \A g \in Handlers : g # h => step'[g] = step[g]
      BY <2>3 DEF TypeOK
    <3>3. step'[h] = [at |-> "forwarding", uri |-> u, id |-> i, callee |-> remote[u]]
      BY <2>3 DEF TypeOK
    <3>4. ASSUME NEW g \in Handlers, NEW v \in Uris, NotedOrRegistering(g, v)
          PROVE  NotedOrRegistering(g, v)'
      BY <2>1, <3>1, <3>2, <3>4 DEF NotedOrRegistering
    <3>5. ASSUME NEW v \in Uris, remote'[v] # NoHandler
          PROVE  NotedOrRegistering(remote[v], v)' /\ remote'[v] = remote[v]
      BY <2>1, <3>4, <3>5 DEF RegistrationsNoted, TypeOK
    <3>6. ASSUME NEW g \in Handlers, step'[g].at = "forwarding"
          PROVE  NotedOrRegistering(step[g].callee, step[g].uri)'
      <4>1. CASE g = h
        <5>1. NotedOrRegistering(remote[u], u)'
          BY <2>1, <2>3, <3>5
        <5>2. step'[g].callee = remote'[u] /\ step'[g].uri = u
          BY <2>1, <3>3, <4>1
        <5> QED
          BY <5>1, <5>2
      <4>2. CASE g # h
        <5>1. step'[g] = step[g]
          BY <3>2, <4>2
        <5> QED
          BY <3>4, <3>6, <5>1, StepIs DEF RegistrationsNoted
      <4> QED
        BY <4>1, <4>2
    <3>7. RegistrationsNoted'
      BY <3>5, <3>6 DEF RegistrationsNoted
    <3>8. EndsUnregistering'
      BY <2>1, <3>1, <3>2, <3>3 DEF EndsUnregistering
    <3> QED
      BY <2>1, <3>7, <3>8 DEF GoneServesNothing
  <2> QED
    BY <1>5, <2>2, <2>3 DEF ReceiveCall
<1>6. ASSUME NEW h \in Handlers, ForwardCall(h)
      PROVE  Registered'
  <2>1. /\ step' = [step EXCEPT ![h] = Idle]
        /\ UNCHANGED <<stage, remote, regs>>
        /\ step[h].at = "forwarding"
    BY <1>6 DEF ForwardCall, serverVars
  <2>2. \A g \in Handlers : g # h => step'[g] = step[g]
    BY <2>1 DEF TypeOK
  <2>3. step'[h].at = "idle"
    BY <2>1 DEF TypeOK, Idle
  <2>5. RegistrationsNoted'
    BY <2>1, <2>2, <2>3, ThreadMoves DEF TypeOK
  <2>6. EndsUnregistering'
    BY <2>1, <2>2, <2>3 DEF EndsUnregistering
  <2> QED
    BY <2>1, <2>5, <2>6 DEF GoneServesNothing
<1>7. ASSUME NEW h \in Handlers, NEW i \in CallIds, FinishJob(h, i)
      PROVE  Registered'
  BY <1>7, RegisteredQuiet DEF FinishJob, serverVars
<1>8. ASSUME NEW h \in Handlers, NEW f \in todo[h], ReceiveResponse(h, f)
      PROVE  Registered'
  BY <1>8, RegisteredQuiet DEF ReceiveResponse, serverVars
<1>9. ASSUME NEW h \in Handlers, Deliver(h)
      PROVE  Registered'
  BY <1>9, RegisteredQuiet DEF Deliver, serverVars
<1>10. ASSUME NEW h \in Handlers, SpinEnds(h)
       PROVE  Registered'
  <2>1. /\ step' = [step EXCEPT ![h] = [at |-> "unregistering", left |-> regs[h]]]
        /\ stage' = [stage EXCEPT ![h] = "ending"]
        /\ UNCHANGED <<remote, regs>>
        /\ step[h] = Idle
    BY <1>10 DEF SpinEnds, serverVars
  <2>2. \A g \in Handlers : g # h => step'[g] = step[g] /\ stage'[g] = stage[g]
    BY <2>1 DEF TypeOK
  <2>3. step[h].at = "idle" /\ step'[h].at = "unregistering" /\ stage'[h] = "ending"
    BY <2>1 DEF TypeOK, Idle
  <2>4. RegistrationsNoted'
    BY <2>1, <2>2, <2>3, ThreadMoves DEF TypeOK
  <2>5. EndsUnregistering'
    BY <2>2, <2>3 DEF EndsUnregistering
  <2>6. GoneServesNothing'
    BY <2>1, <2>2, <2>3 DEF GoneServesNothing, TypeOK
  <2> QED
    BY <2>4, <2>5, <2>6
<1>11. ASSUME NEW h \in Handlers, NEW u \in Uris, UnregisterRpc(h, u)
       PROVE  Registered'
  <2>1. /\ step' = [step EXCEPT ![h].left = @ \ {u}]
        /\ \A v \in Uris : remote'[v] \in {remote[v], NoHandler}
        /\ UNCHANGED <<stage, regs>>
        /\ step[h].at = "unregistering"
    BY <1>11 DEF UnregisterRpc, Withdraw
  <2>2. \A g \in Handlers : g # h => step'[g] = step[g]
    BY <2>1 DEF TypeOK
  <2>3. step'[h].at = "unregistering"
    <3>1. step[h] = [at |-> "unregistering", left |-> step[h].left]
      BY <2>1, StepIs
    <3>2. [step[h] EXCEPT !.left = @ \ {u}].at = "unregistering"
      BY <3>1
    <3> QED
      BY <2>1, <3>2 DEF TypeOK
  <2>4. RegistrationsNoted'
    BY <2>1, <2>2, <2>3, ThreadMoves DEF TypeOK
  <2>5. EndsUnregistering'
    BY <2>1, <2>2, <2>3 DEF EndsUnregistering
  <2>6. GoneServesNothing'
    BY <2>1 DEF GoneServesNothing
  <2> QED
    BY <2>4, <2>5, <2>6
<1>12. ASSUME NEW h \in Handlers, RemoveHandler(h)
       PROVE  Registered'
  <2>1. /\ step' = [step EXCEPT ![h] = Idle]
        /\ stage' = [stage EXCEPT ![h] = "gone"]
        /\ \A v \in Uris : remote'[v] = IF remote[v] = h THEN NoHandler ELSE remote[v]
        /\ regs' = regs
        /\ step[h].at = "unregistering"
    BY <1>12 DEF RemoveHandler, Withdraw
  <2>2. \A g \in Handlers : g # h => step'[g] = step[g] /\ stage'[g] = stage[g]
    BY <2>1 DEF TypeOK
  <2>3. step'[h].at = "idle" /\ stage'[h] = "gone"
    BY <2>1 DEF TypeOK, Idle
  <2>4. RegistrationsNoted'
    BY <2>1, <2>2, <2>3, ThreadMoves DEF TypeOK
  <2>5. EndsUnregistering'
    BY <2>2, <2>3 DEF EndsUnregistering
  <2>6. GoneServesNothing'
    <3>1. ASSUME NEW v \in Uris, remote'[v] # NoHandler
          PROVE  remote'[v] = remote[v] /\ remote[v] # h /\ remote[v] \in Handlers
      BY <2>1, <3>1 DEF TypeOK
    <3> QED
      BY <2>2, <3>1 DEF GoneServesNothing
  <2> QED
    BY <2>4, <2>5, <2>6
<1>13. CASE UNCHANGED vars
  BY <1>13, RegisteredQuiet DEF vars
<1> QED
  BY <1>1, <1>2, <1>3, <1>4, <1>5, <1>6, <1>7, <1>8, <1>9, <1>10, <1>11, <1>12, <1>13
     DEF Next, Spinning

LEMMA RegisteredInit == Init => Registered
<1>1. ASSUME Init
      PROVE  /\ \A u \in Uris : remote[u] = NoHandler
             /\ \A h \in Handlers : step[h].at = "idle" /\ stage[h] = "new"
  BY <1>1 DEF Init, Idle
<1> QED
  BY <1>1 DEF Registered, RegistrationsNoted, EndsUnregistering, GoneServesNothing

LEMMA RegisteredAlways == Spec => [](TypeOK /\ Registered)
<1>1. Init => TypeOK /\ Registered
  BY TypeInit, RegisteredInit
<1>2. TypeOK /\ Registered /\ [Next]_vars => (TypeOK /\ Registered)'
  BY TypeNext, RegisteredNext
<1> QED
  BY <1>1, <1>2, PTL DEF Spec

(* A method never leads to a handler that was removed: the "finally" of     *)
(* ws_handler takes away what is left, and a handler that was removed       *)
(* registers nothing.                                                       *)
THEOREM GoneServeNothing == Spec => []GoneServesNothing
BY RegisteredAlways, PTL DEF Registered

(* A step that withdraws a method is a step of the ending handler that      *)
(* serves it.                                                               *)
LEMMA WithdrawnStep ==
    ASSUME TypeOK, Registered, [Next]_vars,
           NEW u \in Uris, remote[u] # NoHandler, remote'[u] = NoHandler
    PROVE  stage[remote[u]] = "ending"
<1>1. ASSUME NEW h \in Handlers, NEW v \in Uris, RegisterRpc(h, v)
      PROVE  FALSE
  BY <1>1, HandlersAssumption DEF RegisterRpc, TypeOK
<1>2. ASSUME NEW h \in Handlers, NEW v \in Uris, UnregisterRpc(h, v)
      PROVE  stage[remote[u]] = "ending"
  BY <1>2 DEF UnregisterRpc, Withdraw, Registered, EndsUnregistering
<1>3. ASSUME NEW h \in Handlers, RemoveHandler(h)
      PROVE  stage[remote[u]] = "ending"
  BY <1>3 DEF RemoveHandler, Withdraw, Registered, EndsUnregistering
<1>4. CASE UNCHANGED remote
  BY <1>4
<1> QED
  BY <1>1, <1>2, <1>3, <1>4
     DEF Next, Spinning, vars, serverVars, Connect, Deliver, Disconnect, NoteRegistration,
         ForwardCall, SpinEnds, ReceiveCall, FinishJob, ReceiveResponse

(* A client that registered a method and was replaced takes nothing away    *)
(* when it goes: a method disappears only while its own handler ends        *)
(* (WebSocketServer.unregister_rpc and ws_handler).                         *)
THEOREM Withdrawals == Spec => WithdrawnByOwner
<1>1. TypeOK /\ Registered /\ [Next]_vars =>
        [\A u \in Uris :
          remote[u] # NoHandler /\ remote'[u] = NoHandler => stage[remote[u]] = "ending"]_vars
  BY WithdrawnStep
<1> QED
  BY <1>1, RegisteredAlways, PTL DEF Spec, WithdrawnByOwner

(* A step that drops a call of the client of h is the step that forwards it. *)
LEMMA DroppedStep ==
    ASSUME TypeOK, Registered, [Next]_vars, dropped' # dropped,
           NEW h \in Handlers, step'[h] # step[h]
    PROVE  LET c == step[h].callee
           IN  step[c].at = "registering" /\ step[c].uri = step[h].uri
<1>1. ASSUME NEW g \in Handlers, ForwardCall(g)
      PROVE  /\ g = h /\ step[h].at = "forwarding"
             /\ step[h].uri \notin regs[step[h].callee]
  <2>1. step' = [step EXCEPT ![g] = Idle] /\ step[g].at = "forwarding"
    BY <1>1 DEF ForwardCall
  <2>2. g = h
    BY <2>1 DEF TypeOK
  <2>3. step[g].uri \notin regs[step[g].callee]
    BY <1>1 DEF ForwardCall
  <2> QED
    BY <2>1, <2>2, <2>3
<1>2. CASE \E g \in Handlers : ForwardCall(g)
  BY <1>1, <1>2 DEF Registered, RegistrationsNoted, NotedOrRegistering
<1>3. CASE UNCHANGED dropped
  BY <1>3
<1> QED
  BY <1>2, <1>3
     DEF Next, Spinning, vars, Connect, Deliver, Disconnect, NoteRegistration, SpinEnds,
         ReceiveCall, FinishJob, ReceiveResponse, RegisterRpc, UnregisterRpc, RemoveHandler

(* remote_call drops a call without a reply in one window only: the server  *)
(* knows the method, and the thread of the callee did not note it yet.      *)
THEOREM DropsWhileRegistering == Spec => DroppedWhileRegistering
<1>1. TypeOK /\ Registered /\ [Next]_vars =>
        [\A h \in Handlers :
          dropped' # dropped /\ step'[h] # step[h] =>
            LET c == step[h].callee
            IN step[c].at = "registering" /\ step[c].uri = step[h].uri]_vars
  BY DroppedStep
<1> QED
  BY <1>1, RegisteredAlways, PTL DEF Spec, DroppedWhileRegistering

-----------------------------------------------------------------------------
(* Questions: how they move from place to place.                            *)

LEMMA QuestionParts ==
    ASSUME NEW q \in Question
    PROVE  q = <<q[1], q[2]>> /\ q[1] \in Handlers /\ q[2] \in CallIds
BY DEF Question

(* Questions stay where they are, or disappear. *)
LEMMA QuestionsStay ==
    ASSUME OnePlace, Asked,
           \A k \in Kinds : \A h \in Handlers : \A q \in Question :
              At(k, h, q)' => At(k, h, q) /\ client'[q[1]][q[2]] = client[q[1]][q[2]]
    PROVE  OnePlace' /\ Asked'
BY DEF OnePlace, Asked

(* One question moves, or is asked. *)
LEMMA QuestionMoves ==
    ASSUME OnePlace, Asked,
           NEW k0 \in Kinds, NEW h0 \in Handlers, NEW q0 \in Question,
           client'[q0[1]][q0[2]] = "asked",
           \A k \in Kinds : \A h \in Handlers : \A q \in Question :
              At(k, h, q)' =>
                 \/ At(k, h, q) /\ q # q0 /\ client'[q[1]][q[2]] = client[q[1]][q[2]]
                 \/ k = k0 /\ h = h0 /\ q = q0
    PROVE  OnePlace' /\ Asked'
BY DEF OnePlace, Asked

(* The places of a question after a step, from the state they read. *)
LEMMA PlacesStay ==
    ASSUME NEW q \in Question, NEW k \in Kinds, NEW h \in Handlers,
           step'[h].at = "forwarding" /\ q[1] = h /\ step'[h].id = q[2] =>
              step[h].at = "forwarding" /\ step[h].id = q[2],
           q[1] = h /\ q[2] \in jobs'[h] => q[2] \in jobs[h],
           \A f \in Range(out'[h]) :
              f.type # "done" /\ f.question = q => f \in Range(out[h]),
           \A f \in todo'[h] : f.question = q => f \in todo[h]
    PROVE  At(k, h, q)' => At(k, h, q)
BY DEF At, Kinds

(* The routes do not care for a step that forwards and answers nothing. *)
LEMMA RoutesStay ==
    ASSUME Routed, UNCHANGED routeVars, overflown \subseteq overflown',
           \A h \in Handlers : Forwarded(h)' = Forwarded(h)
    PROVE  Routed'
<1>1. calls' = calls /\ nextId' = nextId
  BY DEF routeVars
<1>2. RoutesComplete'
  BY <1>1 DEF Routed, RoutesComplete
<1>3. EntriesNumbered'
  BY <1>1 DEF Routed, EntriesNumbered
<1>4. EntriesPending'
  BY <1>1 DEF Routed, EntriesPending
<1> QED
  BY <1>2, <1>3, <1>4 DEF Routed

(* A frame that is no call adds nothing to what was forwarded. *)
LEMMA ForwardedStays ==
    ASSUME NEW h \in Handlers, todo'[h] = todo[h],
           Range(out[h]) \subseteq Range(out'[h]),
           \A f \in Range(out'[h]) : f.type = "call" => f \in Range(out[h])
    PROVE  Forwarded(h)' = Forwarded(h)
BY DEF Forwarded

(* Steps of the handlers that concern no question. *)
LEMMA QuietSteps ==
    ASSUME TypeOK, OneQuestion, Routed,
           \A h \in Handlers : step'[h].at = "forwarding" => step'[h] = step[h],
           UNCHANGED <<routeVars, jobs, client, todo>>,
           overflown \subseteq overflown',
           \A h \in Handlers :
              /\ Range(out[h]) \subseteq Range(out'[h])
              /\ \A f \in Range(out'[h]) : f.type # "done" => f \in Range(out[h]),
           QueuedOnce'
    PROVE  OneQuestion' /\ Routed'
<1>1. OnePlace' /\ Asked'
  <2>1. ASSUME NEW k \in Kinds, NEW h \in Handlers, NEW q \in Question, At(k, h, q)'
        PROVE  At(k, h, q)
    BY <2>1, PlacesStay
  <2> QED
    BY <2>1, QuestionsStay DEF OneQuestion
<1>2. WorkedOnce'
  BY DEF OneQuestion, WorkedOnce
<1>3. RepliesOwn'
  BY DEF OneQuestion, RepliesOwn
<1>4. \A h \in Handlers : Forwarded(h)' = Forwarded(h)
  BY ForwardedStays
<1>5. Routed'
  BY <1>4, RoutesStay
<1> QED
  BY <1>1, <1>2, <1>3, <1>5 DEF OneQuestion

LEMMA NoteRegistrationQuiet ==
    ASSUME TypeOK, OneQuestion, Routed, NEW h \in Handlers, NoteRegistration(h)
    PROVE  OneQuestion' /\ Routed'
<1> DEFINE f == [type |-> "done"]
<1>1. /\ Send(h, f) /\ f \in Frame /\ f.type = "done"
      /\ step' = [step EXCEPT ![h] = Idle]
      /\ UNCHANGED <<routeVars, jobs, client, todo>>
  BY FramesMade DEF NoteRegistration, clientVars
<1> HIDE DEF f
<1>2. /\ overflown \subseteq overflown'
      /\ QueuedOnce'
      /\ \A g \in Handlers \ {h} : out'[g] = out[g]
      /\ Range(out[h]) \subseteq Range(out'[h])
      /\ Range(out'[h]) \subseteq Range(out[h]) \cup {f}
  BY <1>1, Sent DEF OneQuestion
<1>3. \A g \in Handlers : step'[g].at = "forwarding" => step'[g] = step[g]
  BY <1>1 DEF TypeOK, Idle
<1>4. \A g \in Handlers :
        /\ Range(out[g]) \subseteq Range(out'[g])
        /\ \A d \in Range(out'[g]) : d.type # "done" => d \in Range(out[g])
  BY <1>1, <1>2
<1> QED
  BY <1>1, <1>2, <1>3, <1>4, QuietSteps

(* A question that was in no queue is put in one, as a call or as a reply.  *)
LEMMA QuestionSent ==
    ASSUME TypeOK, OneQuestion,
           NEW h0 \in Handlers, NEW f \in Frame, f.type # "done", Send(h0, f),
           NEW q0 \in Question, f.question = q0,
           f.type = "reply" => q0 = <<h0, f.id>>,
           \A h \in Handlers : ~ At("out", h, q0),
           client'[q0[1]][q0[2]] = "asked",
           \A q \in Question : q # q0 => client'[q[1]][q[2]] = client[q[1]][q[2]],
           \A k \in Kinds \ {"out"} : \A h \in Handlers : \A q \in Question :
              At(k, h, q)' => At(k, h, q) /\ q # q0,
           WorkedOnce'
    PROVE  OneQuestion'
<1>1. \A g \in Range(out[h0]) : g.type # "done" => g.question # f.question
  BY DEF At
<1>2. /\ QueuedOnce'
      /\ \A g \in Handlers \ {h0} : out'[g] = out[g]
      /\ Range(out'[h0]) \subseteq Range(out[h0]) \cup {f}
  BY <1>1, Sent DEF OneQuestion
<1>3. \A h \in Handlers : \A g \in Range(out'[h]) : g \in Range(out[h]) \/ (h = h0 /\ g = f)
  BY <1>2
<1>4. ASSUME NEW k \in Kinds, NEW h \in Handlers, NEW q \in Question, At(k, h, q)'
      PROVE  \/ At(k, h, q) /\ q # q0 /\ client'[q[1]][q[2]] = client[q[1]][q[2]]
             \/ k = "out" /\ h = h0 /\ q = q0
  <2>1. CASE k # "out"
    BY <1>4, <2>1
  <2>2. CASE k = "out"
    <3>1. PICK g \in Range(out'[h]) : g.type # "done" /\ g.question = q
      BY <1>4, <2>2 DEF At
    <3>2. CASE g \in Range(out[h])
      <4>1. At(k, h, q)
        BY <2>2, <3>1, <3>2 DEF At
      <4>2. q # q0
        BY <2>2, <4>1
      <4> QED
        BY <4>1, <4>2
    <3>3. CASE h = h0 /\ g = f
      BY <2>2, <3>1, <3>3
    <3> QED
      BY <1>3, <3>2, <3>3
  <2> QED
    BY <2>1, <2>2
<1>5. OnePlace' /\ Asked'
  BY <1>4, QuestionMoves DEF OneQuestion, Kinds
<1>6. RepliesOwn'
  BY <1>3 DEF OneQuestion, RepliesOwn
<1> QED
  BY <1>2, <1>5, <1>6 DEF OneQuestion

(* A client asks: the question was nowhere before. *)
LEMMA ReceiveCallKeeps ==
    ASSUME TypeOK, OneQuestion, Routed,
           NEW h \in Handlers, NEW i \in CallIds, NEW u \in Uris, ReceiveCall(h, i, u)
    PROVE  OneQuestion' /\ Routed'
<1> DEFINE q0 == <<h, i>>
<1>1. q0 \in Question /\ q0[1] = h /\ q0[2] = i
  BY DEF Question
<1>2. /\ client[h][i] = "idle"
      /\ client' = [client EXCEPT ![h][i] = "asked"]
      /\ step[h] = Idle
      /\ UNCHANGED <<routeVars, todo>>
  BY DEF ReceiveCall, Receiving
<1>3. client'[h][i] = "asked"
  BY <1>2 DEF TypeOK
<1>4. \A q \in Question : q # q0 => client'[q[1]][q[2]] = client[q[1]][q[2]]
  <2>1. ASSUME NEW g \in Handlers, NEW j \in CallIds, <<g, j>> # <<h, i>>
        PROVE  client'[g][j] = client[g][j]
    BY <1>2, <2>1 DEF TypeOK
  <2> QED
    BY <2>1, QuestionParts
<1>5. \A k \in Kinds : \A g \in Handlers : ~ At(k, g, q0)
  BY <1>1, <1>2 DEF OneQuestion, Asked
<1> HIDE DEF q0
<1>6. WorkedOnce'
  BY <1>2 DEF OneQuestion, WorkedOnce
<1>7. CASE u \in LocalUris
  <2>1. jobs' = [jobs EXCEPT ![h] = @ \cup {i}] /\ UNCHANGED <<step, out, overflown>>
    BY <1>7 DEF ReceiveCall
  <2>2. \A g \in Handlers : \A j \in jobs'[g] : j \in jobs[g] \/ (g = h /\ j = i)
    BY <2>1 DEF TypeOK
  <2>3. ASSUME NEW k \in Kinds, NEW g \in Handlers, NEW q \in Question, At(k, g, q)', q # q0
        PROVE  At(k, g, q)
    <3>1. q # <<h, i>>
      BY <2>3 DEF q0
    <3>2. q[1] = g /\ q[2] \in jobs'[g] => q[2] \in jobs[g]
      BY <2>2, <3>1, QuestionParts
    <3> QED
      BY <1>2, <2>1, <2>3, <3>2, PlacesStay
  <2>4. ASSUME NEW k \in Kinds, NEW g \in Handlers, At(k, g, q0)'
        PROVE  k = "jobs" /\ g = h
    <3>1. ~ At(k, g, q0)
      BY <1>5
    <3> QED
      BY <1>1, <1>2, <2>1, <2>4, <3>1 DEF At
  <2>5. OnePlace' /\ Asked'
    <3>1. \A k \in Kinds : \A g \in Handlers : \A q \in Question :
            At(k, g, q)' =>
               \/ At(k, g, q) /\ q # q0 /\ client'[q[1]][q[2]] = client[q[1]][q[2]]
               \/ k = "jobs" /\ g = h /\ q = q0
      BY <1>4, <2>3, <2>4
    <3>2. "jobs" \in Kinds
      BY DEF Kinds
    <3> QED
      BY <1>1, <1>3, <3>1, <3>2, QuestionMoves DEF OneQuestion
  <2>6. QueuedOnce' /\ RepliesOwn'
    BY <2>1 DEF OneQuestion, QueuedOnce, RepliesOwn
  <2>7. \A g \in Handlers : Forwarded(g)' = Forwarded(g)
    BY <1>2, <2>1 DEF Forwarded
  <2>8. Routed'
    BY <1>2, <2>1, <2>7, RoutesStay
  <2> QED
    BY <1>6, <2>5, <2>6, <2>8 DEF OneQuestion
<1>8. CASE u \notin LocalUris /\ remote[u] # NoHandler
  <2>1. /\ step' = [step EXCEPT ![h] =
              [at |-> "forwarding", uri |-> u, id |-> i, callee |-> remote[u]]]
        /\ UNCHANGED <<jobs, out, overflown>>
    BY <1>8 DEF ReceiveCall
  <2>2. /\ \A g \in Handlers : g # h => step'[g] = step[g]
        /\ step'[h].id = i
    BY <2>1 DEF TypeOK
  <2>3. ASSUME NEW k \in Kinds, NEW g \in Handlers, NEW q \in Question, At(k, g, q)', q # q0
        PROVE  At(k, g, q)
    <3>1. q # <<h, i>>
      BY <2>3 DEF q0
    <3>2. q[1] = g /\ step'[g].id = q[2] => g # h
      BY <2>2, <3>1, QuestionParts
    <3>3. step'[g].at = "forwarding" /\ q[1] = g /\ step'[g].id = q[2] =>
            step[g].at = "forwarding" /\ step[g].id = q[2]
      BY <2>2, <3>2
    <3> QED
      BY <1>2, <2>1, <2>3, <3>3, PlacesStay
  <2>4. ASSUME NEW k \in Kinds, NEW g \in Handlers, At(k, g, q0)'
        PROVE  k = "step" /\ g = h
    <3>1. ~ At(k, g, q0)
      BY <1>5
    <3> QED
      BY <1>1, <1>2, <2>1, <2>2, <2>4, <3>1 DEF At
  <2>5. OnePlace' /\ Asked'
    <3>1. \A k \in Kinds : \A g \in Handlers : \A q \in Question :
            At(k, g, q)' =>
               \/ At(k, g, q) /\ q # q0 /\ client'[q[1]][q[2]] = client[q[1]][q[2]]
               \/ k = "step" /\ g = h /\ q = q0
      BY <1>4, <2>3, <2>4
    <3>2. "step" \in Kinds
      BY DEF Kinds
    <3> QED
      BY <1>1, <1>3, <3>1, <3>2, QuestionMoves DEF OneQuestion
  <2>6. QueuedOnce' /\ RepliesOwn'
    BY <2>1 DEF OneQuestion, QueuedOnce, RepliesOwn
  <2>7. \A g \in Handlers : Forwarded(g)' = Forwarded(g)
    BY <1>2, <2>1 DEF Forwarded
  <2>8. Routed'
    BY <1>2, <2>1, <2>7, RoutesStay
  <2> QED
    BY <1>6, <2>5, <2>6, <2>8 DEF OneQuestion
<1>9. CASE u \notin LocalUris /\ remote[u] = NoHandler
  <2> DEFINE f == [type |-> "reply", id |-> i, question |-> <<h, i>>]
  <2>1. Send(h, f) /\ f \in Frame /\ UNCHANGED <<step, jobs>>
    BY <1>9, FramesMade DEF ReceiveCall, ReplyUnknown
  <2>2. f.type = "reply" /\ f.id = i /\ f.question = q0
    BY DEF q0
  <2> HIDE DEF f
  <2>3. ASSUME NEW k \in Kinds \ {"out"}, NEW g \in Handlers, NEW q \in Question, At(k, g, q)'
        PROVE  At(k, g, q) /\ q # q0
    BY <1>2, <1>5, <2>1, <2>3 DEF At
  <2>4. OneQuestion'
    <3>1. \A g \in Handlers : ~ At("out", g, q0)
      BY <1>5 DEF Kinds
    <3>2. q0 = <<h, f.id>>
      BY <2>2 DEF q0
    <3> QED
      BY <1>1, <1>3, <1>4, <1>6, <2>1, <2>2, <2>3, <3>1, <3>2, QuestionSent
  <2>5. /\ overflown \subseteq overflown'
        /\ \A g \in Handlers \ {h} : out'[g] = out[g]
        /\ Range(out[h]) \subseteq Range(out'[h])
        /\ Range(out'[h]) \subseteq Range(out[h]) \cup {f}
    BY <2>1, Sent
  <2>6. \A g \in Handlers : Forwarded(g)' = Forwarded(g)
    BY <1>2, <2>2, <2>5, ForwardedStays
  <2>7. Routed'
    BY <1>2, <2>5, <2>6, RoutesStay
  <2> QED
    BY <2>4, <2>7
<1> QED
  BY <1>7, <1>8, <1>9

(* A worker thread answers. *)
LEMMA FinishJobKeeps ==
    ASSUME TypeOK, OneQuestion, Routed,
           NEW h \in Handlers, NEW i \in CallIds, FinishJob(h, i)
    PROVE  OneQuestion' /\ Routed'
<1> DEFINE q0 == <<h, i>>
           f == [type |-> "reply", id |-> i, question |-> <<h, i>>]
<1>1. q0 \in Question /\ q0[1] = h /\ q0[2] = i
  BY DEF Question
<1>2. /\ i \in jobs[h]
      /\ jobs' = [jobs EXCEPT ![h] = @ \ {i}]
      /\ Send(h, f) /\ f \in Frame
      /\ UNCHANGED <<routeVars, step, todo, client>>
  BY FramesMade DEF FinishJob, clientVars
<1>3. f.type = "reply" /\ f.id = i /\ f.question = q0
  OBVIOUS
<1>4. q0 = <<h, f.id>>
  OBVIOUS
<1> HIDE DEF q0, f
<1>5. At("jobs", h, q0)
  BY <1>1, <1>2 DEF At
<1>6. /\ client[h][i] = "asked"
      /\ \A k \in Kinds : \A g \in Handlers : At(k, g, q0) => k = "jobs" /\ g = h
  BY <1>1, <1>5 DEF OneQuestion, OnePlace, Asked, Kinds
<1>7. /\ \A g \in Handlers : jobs'[g] \subseteq jobs[g]
      /\ i \notin jobs'[h]
  BY <1>2 DEF TypeOK
<1>8. ASSUME NEW k \in Kinds \ {"out"}, NEW g \in Handlers, NEW q \in Question, At(k, g, q)'
      PROVE  At(k, g, q) /\ q # q0
  <2>1. At(k, g, q)
    BY <1>2, <1>7, <1>8 DEF At
  <2>2. ASSUME q = q0
        PROVE  FALSE
    <3>1. k = "jobs" /\ g = h
      BY <1>6, <2>1, <2>2
    <3> QED
      BY <1>1, <1>7, <1>8, <2>2, <3>1 DEF At
  <2> QED
    BY <2>1, <2>2
<1>9. \A g \in Handlers : ~ At("out", g, q0)
  BY <1>6 DEF Kinds
<1>10. WorkedOnce'
  BY <1>2 DEF OneQuestion, WorkedOnce
<1>11. OneQuestion'
  BY <1>1, <1>2, <1>3, <1>4, <1>6, <1>8, <1>9, <1>10, QuestionSent
<1>12. /\ overflown \subseteq overflown'
       /\ \A g \in Handlers \ {h} : out'[g] = out[g]
       /\ Range(out[h]) \subseteq Range(out'[h])
       /\ Range(out'[h]) \subseteq Range(out[h]) \cup {f}
  BY <1>2, Sent
<1>13. \A g \in Handlers : Forwarded(g)' = Forwarded(g)
  BY <1>2, <1>3, <1>12, ForwardedStays
<1>14. Routed'
  BY <1>2, <1>12, <1>13, RoutesStay
<1> QED
  BY <1>11, <1>14

(* The entries of two different calls differ, so a forwarded call has its   *)
(* own entry, and no other call of the handler is forwarded under its id.   *)
LEMMA ForwardedOnce ==
    ASSUME TypeOK, OneQuestion, Routed, NEW h \in Handlers,
           NEW f \in Forwarded(h), NEW g \in Forwarded(h), f.id = g.id
    PROVE  f = g
<1>1. PICK e \in calls[h] : e.id = f.id /\ <<e.handler, e.origin>> = f.question
  BY DEF Routed, RoutesComplete
<1>2. PICK d \in calls[h] : d.id = g.id /\ <<d.handler, d.origin>> = g.question
  BY DEF Routed, RoutesComplete
<1>3. e = d
  BY <1>1, <1>2 DEF Routed, EntriesNumbered
<1>4. f.question = g.question
  BY <1>1, <1>2, <1>3
<1>5. out[h] \in Seq(Frame) /\ todo[h] \subseteq CallFrame
  BY DEF TypeOK
<1>6. \A c \in Forwarded(h) : c \in CallFrame /\ c.type = "call" /\ c.question \in Question
  BY <1>5, RangeOfQueue, FrameKinds DEF Forwarded, CallFrame
<1>7. CASE f \in todo[h] /\ g \in todo[h]
  BY <1>4, <1>7 DEF OneQuestion, WorkedOnce
<1>8. CASE f \in Range(out[h]) /\ g \in Range(out[h])
  <2>1. PICK i \in 1 .. Len(out[h]) : f = out[h][i]
    BY <1>5, <1>8, RangeOfQueue
  <2>2. PICK j \in 1 .. Len(out[h]) : g = out[h][j]
    BY <1>5, <1>8, RangeOfQueue
  <2>3. f.type # "done" /\ g.type # "done"
    BY <1>6
  <2>4. i = j
    BY <1>4, <2>1, <2>2, <2>3 DEF OneQuestion, QueuedOnce, Once
  <2> QED
    BY <2>1, <2>2, <2>4
<1>9. ASSUME NEW a \in todo[h], NEW b \in Range(out[h]), b.type = "call",
             a.question = b.question, b.question \in Question
      PROVE  FALSE
  <2>1. At("todo", h, b.question) /\ At("out", h, b.question)
    BY <1>9 DEF At
  <2> QED
    BY <1>9, <2>1 DEF OneQuestion, OnePlace, Kinds
<1> QED
  BY <1>4, <1>6, <1>7, <1>8, <1>9 DEF Forwarded

(* The thread of the caller puts the call in the queue of the callee.       *)
LEMMA ForwardCallKeeps ==
    ASSUME TypeOK, OneQuestion, Routed, NEW h \in Handlers, ForwardCall(h)
    PROVE  OneQuestion' /\ Routed'
<1>0. PICK i \in CallIds, u \in Uris, c \in Handlers, n \in Nat :
         step[h].id = i /\ step[h].uri = u /\ step[h].callee = c /\ nextId[c] = n
  BY StepIs DEF ForwardCall, TypeOK
<1> DEFINE q0 == <<h, i>>
           f == [type |-> "call", id |-> n, uri |-> u, question |-> q0]
           e == [id |-> n, origin |-> i, handler |-> h]
<1>1. /\ q0 \in Question /\ q0[1] = h /\ q0[2] = i
      /\ f \in CallFrame /\ f \in Frame
  BY FramesMade DEF Question
<1>2. /\ step[h].at = "forwarding"
      /\ step' = [step EXCEPT ![h] = Idle]
      /\ UNCHANGED <<jobs, client, todo>>
  BY DEF ForwardCall, clientVars
<1>3. \A g \in Handlers :
        step'[g].at = "forwarding" => g # h /\ step'[g] = step[g]
  BY <1>2 DEF TypeOK, Idle
<1>4. CASE u \notin regs[c]
  <2>1. UNCHANGED <<routeVars, out, overflown>>
    BY <1>0, <1>4 DEF ForwardCall
  <2>2. QueuedOnce'
    BY <2>1 DEF OneQuestion, QueuedOnce
  <2> QED
    BY <1>2, <1>3, <2>1, <2>2, QuietSteps
<1>5. CASE u \in regs[c]
  <2>1. /\ calls' = [calls EXCEPT ![c] = {d \in @ : d.id # n} \cup {e}]
        /\ Send(c, f)
        /\ nextId' = [nextId EXCEPT ![c] = @ + 1]
    BY <1>0, <1>5 DEF ForwardCall, RemoteId
  <2>2. f.type = "call" /\ f.id = n /\ f.question = q0
    OBVIOUS
  <2>3. e.id = n /\ <<e.handler, e.origin>> = q0
    OBVIOUS
  <2> HIDE DEF q0, f, e
  <2>4. At("step", h, q0)
    BY <1>0, <1>1, <1>2 DEF At
  <2>5. /\ client[h][i] = "asked"
        /\ \A k \in Kinds : \A g \in Handlers : At(k, g, q0) => k = "step" /\ g = h
    BY <1>1, <2>4 DEF OneQuestion, OnePlace, Asked, Kinds
  <2>6. ASSUME NEW k \in Kinds \ {"out"}, NEW g \in Handlers, NEW q \in Question, At(k, g, q)'
        PROVE  At(k, g, q) /\ q # q0
    <3>1. At(k, g, q)
      BY <1>2, <1>3, <2>6 DEF At
    <3>2. ASSUME q = q0
          PROVE  FALSE
      <4>1. k = "step" /\ g = h
        BY <2>5, <3>1, <3>2
      <4> QED
        BY <1>3, <2>6, <4>1 DEF At
    <3> QED
      BY <3>1, <3>2
  <2>7. \A g \in Handlers : ~ At("out", g, q0)
    BY <2>5 DEF Kinds
  <2>8. WorkedOnce'
    BY <1>2 DEF OneQuestion, WorkedOnce
  <2>9. OneQuestion'
    BY <1>1, <1>2, <2>1, <2>2, <2>5, <2>6, <2>7, <2>8, QuestionSent
  <2>10. /\ overflown \subseteq overflown'
         /\ \A g \in Handlers \ {c} : out'[g] = out[g]
         /\ Range(out[c]) \subseteq Range(out'[c])
         /\ Range(out'[c]) \subseteq Range(out[c]) \cup {f}
         /\ f \in Range(out'[c]) \/ q0 \in overflown'
    BY <1>1, <2>1, <2>2, Sent
  <2>11. /\ calls'[c] = calls[c] \cup {e}
         /\ nextId'[c] = n + 1
         /\ \A g \in Handlers \ {c} : calls'[g] = calls[g] /\ nextId'[g] = nextId[g]
         /\ \A d \in calls[c] : d.id \in Nat /\ d.id < n
    <3>1. \A d \in calls[c] : d.id \in Nat /\ d.id < n
      BY <1>0 DEF Routed, EntriesNumbered, TypeOK, Entry
    <3>2. {d \in calls[c] : d.id # n} = calls[c]
      BY <1>1, <3>1
    <3> QED
      BY <1>0, <2>1, <3>1, <3>2 DEF TypeOK
  <2>12. /\ \A g \in Handlers \ {c} : Forwarded(g)' = Forwarded(g)
         /\ Forwarded(c) \subseteq Forwarded(c)'
         /\ \A d \in Forwarded(c)' : d \in Forwarded(c) \/ d = f
    BY <1>2, <2>10 DEF Forwarded
  <2>13. EntriesNumbered'
    <3>1. ASSUME NEW d \in calls'[c]
          PROVE  /\ d.id < nextId'[c]
                 /\ \A b \in calls'[c] : b.id = d.id => b = d
      <4>1. CASE d = e
        BY <1>1, <2>3, <2>11, <4>1
      <4>2. CASE d \in calls[c]
        <5>1. d.id < n /\ d.id \in Nat /\ n \in Nat
          BY <1>1, <2>11, <4>2
        <5>2. ASSUME NEW b \in calls'[c], b.id = d.id
              PROVE  b = d
          <6>1. b # e
            BY <2>3, <5>1, <5>2
          <6> QED
            BY <2>11, <4>2, <5>2, <6>1, <1>1 DEF Routed, EntriesNumbered
        <5> QED
          BY <2>11, <5>1, <5>2
      <4> QED
        BY <2>11, <4>1, <4>2
    <3>2. ASSUME NEW g \in Handlers \ {c}, NEW d \in calls'[g]
          PROVE  /\ d.id < nextId'[g]
                 /\ \A b \in calls'[g] : b.id = d.id => b = d
      BY <2>11, <3>2 DEF Routed, EntriesNumbered
    <3> QED
      BY <3>1, <3>2 DEF EntriesNumbered
  <2>14. RoutesComplete'
    <3>1. ASSUME NEW g \in Handlers, NEW d \in Forwarded(g)'
          PROVE  \E b \in calls'[g] : b.id = d.id /\ <<b.handler, b.origin>> = d.question
      <4>1. CASE d \in Forwarded(g)
        <5>1. PICK b \in calls[g] : b.id = d.id /\ <<b.handler, b.origin>> = d.question
          BY <4>1 DEF Routed, RoutesComplete
        <5>2. b \in calls'[g]
          BY <1>1, <2>11
        <5> QED
          BY <5>1, <5>2
      <4>2. CASE g = c /\ d = f
        <5>1. e \in calls'[g]
          BY <2>11, <4>2
        <5> QED
          BY <2>2, <2>3, <4>2, <5>1
      <4> QED
        BY <1>1, <2>12, <3>1, <4>1, <4>2
    <3> QED
      BY <2>13, <3>1 DEF RoutesComplete, EntriesNumbered
  <2>15. EntriesPending'
    <3>1. ASSUME NEW g \in Handlers, NEW d \in calls'[g]
          PROVE  \/ \E b \in Forwarded(g)' : b.id = d.id
                 \/ <<d.handler, d.origin>> \in overflown'
      <4>1. CASE d \in calls[g]
        <5>1. Forwarded(g) \subseteq Forwarded(g)'
          BY <2>12
        <5> QED
          BY <2>10, <4>1, <5>1 DEF Routed, EntriesPending
      <4>2. CASE g = c /\ d = e
        <5>1. CASE f \in Range(out'[c])
          <6>1. f \in Forwarded(c)'
            BY <2>2, <5>1 DEF Forwarded
          <6> QED
            BY <2>2, <2>3, <4>2, <6>1
        <5>2. CASE q0 \in overflown'
          BY <2>3, <4>2, <5>2
        <5> QED
          BY <2>10, <5>1, <5>2
      <4> QED
        BY <2>11, <3>1, <4>1, <4>2
    <3> QED
      BY <3>1 DEF EntriesPending
  <2> QED
    BY <2>9, <2>13, <2>14, <2>15 DEF Routed
<1> QED
  BY <1>4, <1>5

(* A client answers a forwarded call: the entry leads back to the question. *)
LEMMA ReceiveResponseKeeps ==
    ASSUME TypeOK, OneQuestion, Routed,
           NEW h \in Handlers, NEW f \in todo[h], ReceiveResponse(h, f)
    PROVE  OneQuestion' /\ Routed'
<1>1. PICK e \in calls[h] :
        /\ e.id = f.id
        /\ calls' = [calls EXCEPT ![h] = calls[h] \ {e}]
        /\ Send(e.handler, [type |-> "reply", id |-> e.origin, question |-> f.question])
  BY DEF ReceiveResponse, DropEntry, ReplyId
<1>2. /\ f \in CallFrame /\ f.type = "call" /\ f.question \in Question
      /\ e \in Entry /\ e.handler \in Handlers /\ e.origin \in CallIds
      /\ todo[h] \subseteq CallFrame
  BY DEF TypeOK, CallFrame, Entry
<1>3. /\ todo' = [todo EXCEPT ![h] = @ \ {f}]
      /\ UNCHANGED <<nextId, step, jobs, client>>
  BY DEF ReceiveResponse
<1>4. f \in Forwarded(h)
  BY DEF Forwarded
<1>5. <<e.handler, e.origin>> = f.question
  <2>1. PICK d \in calls[h] : d.id = f.id /\ <<d.handler, d.origin>> = f.question
    BY <1>4 DEF Routed, RoutesComplete
  <2>2. d = e
    BY <1>1, <2>1 DEF Routed, EntriesNumbered
  <2> QED
    BY <2>1, <2>2
<1>6. PICK q0 \in Question : q0 = f.question
  BY <1>2
<1>7. PICK r \in Frame :
        /\ r = [type |-> "reply", id |-> e.origin, question |-> f.question]
        /\ r.type = "reply" /\ r.id = e.origin /\ r.question = q0
  BY <1>2, <1>6, FramesMade
<1>8. At("todo", h, q0)
  BY <1>6 DEF At
<1>9. /\ client[q0[1]][q0[2]] = "asked"
      /\ \A k \in Kinds : \A g \in Handlers : At(k, g, q0) => k = "todo" /\ g = h
  BY <1>8 DEF OneQuestion, OnePlace, Asked, Kinds
<1>10. /\ \A g \in Handlers : todo'[g] \subseteq todo[g]
       /\ f \notin todo'[h]
       /\ \A d \in todo[h] : d # f => d \in todo'[h]
       /\ \A g \in Handlers \ {h} : todo'[g] = todo[g]
  BY <1>3 DEF TypeOK
<1>11. ASSUME NEW k \in Kinds \ {"out"}, NEW g \in Handlers, NEW q \in Question, At(k, g, q)'
       PROVE  At(k, g, q) /\ q # q0
  <2>1. At(k, g, q)
    BY <1>3, <1>10, <1>11 DEF At
  <2>2. ASSUME q = q0
        PROVE  FALSE
    <3>1. k = "todo" /\ g = h
      BY <1>9, <2>1, <2>2
    <3>2. PICK d \in todo'[h] : d.question = q0
      BY <1>11, <2>2, <3>1 DEF At
    <3>3. d = f
      BY <1>6, <1>10, <3>2 DEF OneQuestion, WorkedOnce
    <3> QED
      BY <1>10, <3>2, <3>3
  <2> QED
    BY <2>1, <2>2
<1>12. \A g \in Handlers : ~ At("out", g, q0)
  BY <1>9 DEF Kinds
<1>13. WorkedOnce'
  BY <1>10 DEF OneQuestion, WorkedOnce
<1>14. OneQuestion'
  BY <1>1, <1>2, <1>3, <1>5, <1>6, <1>7, <1>9, <1>11, <1>12, <1>13, QuestionSent
<1>15. /\ overflown \subseteq overflown'
       /\ \A g \in Handlers \ {e.handler} : out'[g] = out[g]
       /\ Range(out[e.handler]) \subseteq Range(out'[e.handler])
       /\ Range(out'[e.handler]) \subseteq Range(out[e.handler]) \cup {r}
  BY <1>1, <1>2, <1>7, Sent
<1>16. \A g \in Handlers : \A d : d.type = "call" =>
        (d \in Range(out'[g]) <=> d \in Range(out[g]))
  BY <1>7, <1>15
<1>17. f \notin Range(out[h])
  <2>1. ASSUME f \in Range(out[h])
        PROVE  At("out", h, q0)
    BY <1>2, <1>6, <2>1 DEF At
  <2> QED
    BY <1>12, <2>1
<1>18. \A g \in Handlers \ {h} : Forwarded(g)' = Forwarded(g)
  BY <1>10, <1>16 DEF Forwarded
<1>19. \A d : d \in Forwarded(h)' <=> d \in Forwarded(h) /\ d # f
  BY <1>10, <1>16, <1>17 DEF Forwarded
<1>20. /\ calls'[h] = calls[h] \ {e}
       /\ \A g \in Handlers \ {h} : calls'[g] = calls[g]
       /\ nextId' = nextId
  BY <1>1, <1>3 DEF TypeOK
<1>21. EntriesNumbered'
  BY <1>20 DEF Routed, EntriesNumbered
<1>22. RoutesComplete'
  <2>1. ASSUME NEW g \in Handlers, NEW d \in Forwarded(g)'
        PROVE  \E b \in calls'[g] : b.id = d.id /\ <<b.handler, b.origin>> = d.question
    <3>1. d \in Forwarded(g)
      BY <1>18, <1>19, <2>1
    <3>2. PICK b \in calls[g] : b.id = d.id /\ <<b.handler, b.origin>> = d.question
      BY <3>1 DEF Routed, RoutesComplete
    <3>3. CASE g = h
      <4>1. d # f
        BY <1>19, <2>1, <3>3
      <4>2. b.id # f.id
        BY <1>4, <3>1, <3>2, <3>3, <4>1, ForwardedOnce
      <4>3. b \in calls'[g]
        BY <1>1, <1>20, <3>3, <4>2
      <4> QED
        BY <3>2, <4>3
    <3>4. CASE g # h
      BY <1>20, <3>2, <3>4
    <3> QED
      BY <3>3, <3>4
  <2> QED
    BY <1>21, <2>1 DEF RoutesComplete, EntriesNumbered
<1>23. EntriesPending'
  <2>1. ASSUME NEW g \in Handlers, NEW d \in calls'[g]
        PROVE  \/ \E b \in Forwarded(g)' : b.id = d.id
               \/ <<d.handler, d.origin>> \in overflown'
    <3>1. d \in calls[g] /\ (g = h => d # e)
      BY <1>20, <2>1
    <3>2. CASE <<d.handler, d.origin>> \in overflown
      BY <1>15, <3>2
    <3>3. CASE \E b \in Forwarded(g) : b.id = d.id
      <4>1. PICK b \in Forwarded(g) : b.id = d.id
        BY <3>3
      <4>2. CASE g = h
        <5>1. b # f
          BY <1>1, <3>1, <4>1, <4>2 DEF Routed, EntriesNumbered
        <5>2. b \in Forwarded(g)'
          BY <1>19, <4>1, <4>2, <5>1
        <5> QED
          BY <4>1, <5>2
      <4>3. CASE g # h
        BY <1>18, <4>1, <4>3
      <4> QED
        BY <4>2, <4>3
    <3> QED
      BY <3>1, <3>2, <3>3 DEF Routed, EntriesPending
  <2> QED
    BY <2>1 DEF EntriesPending
<1> QED
  BY <1>14, <1>21, <1>22, <1>23 DEF Routed

(* The sender thread delivers a frame: a call goes to the client, a reply   *)
(* settles the question.                                                    *)
LEMMA DeliverKeeps ==
    ASSUME TypeOK, OneQuestion, Routed, NEW h \in Handlers, Deliver(h)
    PROVE  OneQuestion' /\ Routed'
<1>1. out[h] \in Seq(Frame) /\ out[h] # <<>> /\ out' = [out EXCEPT ![h] = Tail(out[h])]
  BY DEF Deliver, TypeOK
<1>2. PICK f \in Frame :
        /\ f = Head(out[h])
        /\ todo' = IF f.type = "call" THEN [todo EXCEPT ![h] = @ \cup {f}] ELSE todo
        /\ client' = IF f.type = "reply" THEN [client EXCEPT ![h][f.id] = "settled"] ELSE client
  BY <1>1, Taken DEF Deliver
<1>3. UNCHANGED <<routeVars, step, jobs, overflown>>
  BY DEF Deliver
<1>4. /\ out'[h] = Tail(out[h])
      /\ \A g \in Handlers \ {h} : out'[g] = out[g]
  BY <1>1 DEF TypeOK
<1>5. /\ Range(out[h]) = Range(out'[h]) \cup {f}
      /\ Once(out'[h])
      /\ f.type # "done" => \A g \in Range(out'[h]) : g.type # "done" => g.question # f.question
  BY <1>1, <1>2, <1>4, Taken DEF OneQuestion, QueuedOnce
<1>6. QueuedOnce' /\ RepliesOwn'
  BY <1>4, <1>5 DEF OneQuestion, QueuedOnce, RepliesOwn
<1>7. \A g \in Handlers : \A d \in Range(out'[g]) : d \in Range(out[g])
  BY <1>4, <1>5
<1>8. CASE f.type = "done"
  <2>1. UNCHANGED <<todo, client>>
    BY <1>2, <1>8
  <2>2. ASSUME NEW k \in Kinds, NEW g \in Handlers, NEW q \in Question, At(k, g, q)'
        PROVE  At(k, g, q)
    BY <1>3, <1>7, <2>1, <2>2, PlacesStay
  <2>3. OnePlace' /\ Asked'
    BY <2>1, <2>2, QuestionsStay DEF OneQuestion
  <2>4. WorkedOnce'
    BY <2>1 DEF OneQuestion, WorkedOnce
  <2>5. \A g \in Handlers : Forwarded(g)' = Forwarded(g)
    BY <1>4, <1>5, <1>8, <2>1 DEF Forwarded
  <2>6. Routed'
    BY <1>3, <2>5, RoutesStay
  <2> QED
    BY <1>6, <2>3, <2>4, <2>6 DEF OneQuestion
<1>9. CASE f.type # "done"
  <2>1. PICK q0 \in Question : q0 = f.question
    BY <1>9, FrameKinds
  <2>2. At("out", h, q0)
    BY <1>5, <1>9, <2>1 DEF At
  <2>3. /\ client[q0[1]][q0[2]] = "asked"
        /\ \A k \in Kinds : \A g \in Handlers : At(k, g, q0) => k = "out" /\ g = h
    BY <2>2 DEF OneQuestion, OnePlace, Asked, Kinds
  <2>4. \A g \in Handlers : ~ At("out", g, q0)'
    <3>1. ASSUME NEW g \in Handlers, At("out", g, q0)'
          PROVE  FALSE
      <4>1. PICK d \in Range(out'[g]) : d.type # "done" /\ d.question = q0
        BY <3>1 DEF At
      <4>2. At("out", g, q0)
        BY <1>7, <4>1 DEF At
      <4>3. g = h
        BY <2>3, <4>2 DEF Kinds
      <4> QED
        BY <1>5, <1>9, <2>1, <4>1, <4>3
    <3> QED
      BY <3>1
  <2>5. CASE f.type = "call"
    <3>1. /\ todo' = [todo EXCEPT ![h] = @ \cup {f}]
          /\ client' = client
      BY <1>2, <2>5
    <3>2. \A g \in Handlers : \A d \in todo'[g] : d \in todo[g] \/ (g = h /\ d = f)
      BY <3>1 DEF TypeOK
    <3>3. ASSUME NEW k \in Kinds, NEW g \in Handlers, NEW q \in Question, At(k, g, q)', q # q0
          PROVE  At(k, g, q)
      <4>1. \A d \in todo'[g] : d.question = q => d \in todo[g]
        BY <2>1, <3>2, <3>3
      <4> QED
        BY <1>3, <1>7, <3>3, <4>1, PlacesStay
    <3>4. ASSUME NEW k \in Kinds, NEW g \in Handlers, At(k, g, q0)'
          PROVE  k = "todo" /\ g = h
      <4>1. k # "out"
        BY <2>4, <3>4
      <4>2. ~ At(k, g, q0)
        BY <2>3, <4>1
      <4> QED
        BY <1>3, <3>2, <3>4, <4>1, <4>2 DEF At
    <3>5. OnePlace' /\ Asked'
      <4>1. \A k \in Kinds : \A g \in Handlers : \A q \in Question :
              At(k, g, q)' =>
                 \/ At(k, g, q) /\ q # q0 /\ client'[q[1]][q[2]] = client[q[1]][q[2]]
                 \/ k = "todo" /\ g = h /\ q = q0
        BY <3>1, <3>3, <3>4
      <4>2. "todo" \in Kinds /\ client'[q0[1]][q0[2]] = "asked"
        BY <2>3, <3>1 DEF Kinds
      <4> QED
        BY <4>1, <4>2, QuestionMoves DEF OneQuestion
    <3>6. WorkedOnce'
      <4>1. \A d \in todo[h] : d.question # q0
        <5>1. ~ At("todo", h, q0)
          BY <2>3 DEF Kinds
        <5> QED
          BY <5>1 DEF At
      <4> QED
        BY <2>1, <3>2, <4>1 DEF OneQuestion, WorkedOnce
    <3>7. \A g \in Handlers : Forwarded(g)' = Forwarded(g)
      <4>1. todo'[h] = todo[h] \cup {f} /\ \A g \in Handlers \ {h} : todo'[g] = todo[g]
        BY <3>1 DEF TypeOK
      <4> QED
        BY <1>4, <1>5, <2>5, <4>1 DEF Forwarded
    <3>8. Routed'
      BY <1>3, <3>7, RoutesStay
    <3> QED
      BY <1>6, <3>5, <3>6, <3>8 DEF OneQuestion
  <2>6. CASE f.type = "reply"
    <3>1. /\ todo' = todo
          /\ client' = [client EXCEPT ![h][f.id] = "settled"]
          /\ q0 = <<h, f.id>> /\ f.id \in CallIds
      BY <1>2, <1>5, <2>1, <2>6, FrameKinds DEF OneQuestion, RepliesOwn
    <3>2. \A q \in Question : q # q0 => client'[q[1]][q[2]] = client[q[1]][q[2]]
      <4>1. ASSUME NEW g \in Handlers, NEW j \in CallIds, <<g, j>> # <<h, f.id>>
            PROVE  client'[g][j] = client[g][j]
        BY <3>1, <4>1 DEF TypeOK
      <4> QED
        BY <3>1, <4>1, QuestionParts
    <3>3. ASSUME NEW k \in Kinds, NEW g \in Handlers, NEW q \in Question, At(k, g, q)'
          PROVE  At(k, g, q) /\ q # q0
      <4>1. At(k, g, q)
        BY <1>3, <1>7, <3>1, <3>3, PlacesStay
      <4>2. ASSUME q = q0
            PROVE  FALSE
        BY <2>3, <2>4, <3>3, <4>1, <4>2
      <4> QED
        BY <4>1, <4>2
    <3>4. OnePlace' /\ Asked'
      BY <3>2, <3>3, QuestionsStay DEF OneQuestion
    <3>5. WorkedOnce'
      BY <3>1 DEF OneQuestion, WorkedOnce
    <3>6. \A g \in Handlers : Forwarded(g)' = Forwarded(g)
      BY <1>4, <1>5, <2>6, <3>1 DEF Forwarded
    <3>7. Routed'
      BY <1>3, <3>6, RoutesStay
    <3> QED
      BY <1>6, <3>4, <3>5, <3>7 DEF OneQuestion
  <2> QED
    BY <1>9, <2>5, <2>6, FrameKinds
<1> QED
  BY <1>8, <1>9

-----------------------------------------------------------------------------
(* The invariants of the calls. *)

LEMMA CallsInit == Init => OneQuestion /\ Routed
<1> SUFFICES ASSUME Init
             PROVE  OneQuestion /\ Routed
  OBVIOUS
<1>1. /\ \A h \in Handlers :
            /\ step[h].at = "idle" /\ jobs[h] = {} /\ todo[h] = {} /\ calls[h] = {}
            /\ out[h] = <<>>
  BY DEF Init, Idle
<1>2. /\ Range(<<>>) = {}
      /\ Len(<<>>) = 0
  BY DEF Range
<1>3. \A k \in Kinds : \A h \in Handlers : \A q \in Question : ~ At(k, h, q)
  BY <1>1, <1>2 DEF At
<1>4. OnePlace /\ Asked
  BY <1>3 DEF OnePlace, Asked
<1>5. QueuedOnce /\ WorkedOnce /\ RepliesOwn
  <2>1. \A h \in Handlers : Once(out[h])
    <3>1. 1 .. 0 = {}
      OBVIOUS
    <3> QED
      BY <1>1, <1>2, <3>1 DEF Once
  <2> QED
    BY <1>1, <1>2, <2>1 DEF QueuedOnce, WorkedOnce, RepliesOwn
<1>6. Routed
  BY <1>1, <1>2 DEF Routed, RoutesComplete, EntriesNumbered, EntriesPending, Forwarded
<1> QED
  BY <1>4, <1>5, <1>6 DEF OneQuestion

LEMMA CallsNext ==
    ASSUME TypeOK, OneQuestion, Routed, [Next]_vars
    PROVE  OneQuestion' /\ Routed'
<1>1. ASSUME NEW h \in Handlers,
             \/ Connect(h) \/ Disconnect(h) \/ SpinEnds(h) \/ RemoveHandler(h)
             \/ \E u \in Uris : RegisterRpc(h, u) \/ UnregisterRpc(h, u)
      PROVE  OneQuestion' /\ Routed'
  <2>1. UNCHANGED <<routeVars, jobs, out, client, todo, overflown>>
    BY <1>1 DEF Connect, Disconnect, SpinEnds, RemoveHandler, RegisterRpc, UnregisterRpc,
                clientVars
  <2>2. \A g \in Handlers : g # h => step'[g] = step[g]
    BY <1>1 DEF Connect, Disconnect, SpinEnds, RemoveHandler, RegisterRpc, UnregisterRpc,
                TypeOK
  <2>3. step'[h].at = "forwarding" => step'[h] = step[h]
    <3>1. CASE Connect(h) \/ Disconnect(h)
      BY <3>1 DEF Connect, Disconnect
    <3>2. CASE SpinEnds(h)
      BY <3>2 DEF SpinEnds, TypeOK
    <3>3. CASE RemoveHandler(h)
      BY <3>3 DEF RemoveHandler, TypeOK, Idle
    <3>4. ASSUME NEW u \in Uris, RegisterRpc(h, u)
          PROVE  step'[h].at # "forwarding"
      BY <3>4 DEF RegisterRpc, TypeOK
    <3>5. ASSUME NEW u \in Uris, UnregisterRpc(h, u)
          PROVE  step'[h].at # "forwarding"
      <4>1. step[h] = [at |-> "unregistering", left |-> step[h].left]
        BY <3>5, StepIs DEF UnregisterRpc
      <4>2. [step[h] EXCEPT !.left = @ \ {u}].at = "unregistering"
        BY <4>1
      <4>3. step'[h] = [step[h] EXCEPT !.left = @ \ {u}]
        BY <3>5 DEF UnregisterRpc, TypeOK
      <4> QED
        BY <4>2, <4>3
    <3> QED
      BY <1>1, <3>1, <3>2, <3>3, <3>4, <3>5
  <2>4. QueuedOnce'
    BY <2>1 DEF OneQuestion, QueuedOnce
  <2> QED
    BY <2>1, <2>2, <2>3, <2>4, QuietSteps
<1>2. ASSUME NEW h \in Handlers, NoteRegistration(h)
      PROVE  OneQuestion' /\ Routed'
  BY <1>2, NoteRegistrationQuiet
<1>3. ASSUME NEW h \in Handlers, NEW i \in CallIds, NEW u \in Uris, ReceiveCall(h, i, u)
      PROVE  OneQuestion' /\ Routed'
  BY <1>3, ReceiveCallKeeps
<1>4. ASSUME NEW h \in Handlers, ForwardCall(h)
      PROVE  OneQuestion' /\ Routed'
  BY <1>4, ForwardCallKeeps
<1>5. ASSUME NEW h \in Handlers, NEW i \in CallIds, FinishJob(h, i)
      PROVE  OneQuestion' /\ Routed'
  BY <1>5, FinishJobKeeps
<1>6. ASSUME NEW h \in Handlers, NEW f \in todo[h], ReceiveResponse(h, f)
      PROVE  OneQuestion' /\ Routed'
  BY <1>6, ReceiveResponseKeeps
<1>7. ASSUME NEW h \in Handlers, Deliver(h)
      PROVE  OneQuestion' /\ Routed'
  BY <1>7, DeliverKeeps
<1>8. CASE UNCHANGED vars
  <2>1. UNCHANGED <<step, routeVars, jobs, out, client, todo, overflown>>
    BY <1>8 DEF vars, routeVars
  <2>2. QueuedOnce'
    BY <2>1 DEF OneQuestion, QueuedOnce
  <2> QED
    BY <2>1, <2>2, QuietSteps
<1> QED
  BY <1>1, <1>2, <1>3, <1>4, <1>5, <1>6, <1>7, <1>8 DEF Next, Spinning

LEMMA CallsAlways == Spec => [](TypeOK /\ OneQuestion /\ Routed)
<1>1. Init => TypeOK /\ OneQuestion /\ Routed
  BY TypeInit, CallsInit
<1>2. TypeOK /\ OneQuestion /\ Routed /\ [Next]_vars => (TypeOK /\ OneQuestion /\ Routed)'
  BY TypeNext, CallsNext
<1> QED
  BY <1>1, <1>2, PTL DEF Spec

LEMMA RepliesAreAwaited == TypeOK /\ OneQuestion => RepliesAwaited
<1> SUFFICES ASSUME TypeOK, OneQuestion, NEW h \in Handlers, NEW i \in Replies(h)
             PROVE  /\ out[h][i].question = <<h, out[h][i].id>>
                    /\ client[h][out[h][i].id] = "asked"
                    /\ \A j \in Replies(h) : out[h][j].id = out[h][i].id => j = i
  BY DEF RepliesAwaited
<1>1. /\ out[h] \in Seq(Frame)
      /\ DOMAIN out[h] = 1 .. Len(out[h])
  BY DEF TypeOK
<1>2. \A j \in Replies(h) :
        /\ j \in 1 .. Len(out[h])
        /\ out[h][j] \in Range(out[h])
        /\ out[h][j] \in Frame
        /\ out[h][j].type = "reply"
        /\ out[h][j].question = <<h, out[h][j].id>>
        /\ out[h][j].question \in Question
  <2> TAKE j \in Replies(h)
  <2>1. j \in 1 .. Len(out[h]) /\ out[h][j].type = "reply"
    BY <1>1 DEF Replies
  <2>2. out[h][j] \in Range(out[h]) /\ out[h][j] \in Frame
    BY <1>1, <2>1, RangeOfQueue
  <2> QED
    BY <2>1, <2>2, FrameKinds DEF OneQuestion, RepliesOwn
<1>3. At("out", h, out[h][i].question)
  BY <1>2 DEF At
<1>4. client[h][out[h][i].id] = "asked"
  <2>1. client[out[h][i].question[1]][out[h][i].question[2]] = "asked"
    BY <1>2, <1>3 DEF OneQuestion, Asked, Kinds
  <2> QED
    BY <1>2, <2>1
<1>5. ASSUME NEW j \in Replies(h), out[h][j].id = out[h][i].id
      PROVE  j = i
  BY <1>2, <1>5 DEF OneQuestion, QueuedOnce, Once
<1> QED
  BY <1>2, <1>4, <1>5

(* A client is only sent replies that it waits for, each once, and each     *)
(* with the result of its own call, for any clients that use any ids.       *)
THEOREM RepliesAreOwn == Spec => []RepliesAwaited
BY CallsAlways, RepliesAreAwaited, PTL

(* Every forwarded call can be routed back: remote_call makes one entry     *)
(* under an id that no other call of the callee has.                        *)
THEOREM CallsAreRouted == Spec => []RoutesComplete
BY CallsAlways, PTL DEF Routed

(* _remote_calls_map holds calls that the client did not answer yet and     *)
(* calls that a full queue lost, and nothing else.                          *)
THEOREM EntriesArePending == Spec => []EntriesPending
BY CallsAlways, PTL DEF Routed
=============================================================================
