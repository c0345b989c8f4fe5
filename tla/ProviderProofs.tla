----------------------------- MODULE ProviderProofs ----------------------------
(***************************************************************************)
(* Proofs about Provider, for every number of sockets, of changes on the   *)
(* host and of tasks: no request is sent twice over a socket, and no       *)
(* change of the nodes is missed, unless a late call took the lock away, a *)
(* pull failed or an event was lost.                                       *)
(***************************************************************************)
EXTENDS Provider, SequenceTheorems, TLAPS

Jobs == {"init", "list", "nodes", "register"}
TaskType ==
  [job : Jobs, req : Requests \cup {"unsub"}, pc : {"begin", "wait", "call"},
   socket : Nat, since : Nat]

(* A task that is about to begin. *)
Fresh(t) ==
  /\ t \in TaskType
  /\ t.pc = "begin" /\ t.socket = 0 /\ t.since = 0
  /\ t.req = "unsub" <=> t.job = "register"

-------------------------------------------------------------------------------
(* Sequences of tasks.                                                     *)

(* What is left of the tasks "old" in "new" without the k-th one: the others are *)
(* there, each once, and the new ones are about to begin.                        *)
Rest(old, new, k) ==
  /\ new \in Seq(TaskType)
  /\ \A i \in DOMAIN old \ {k} : \E j \in DOMAIN new : new[j] = old[i]
  /\ \A j \in DOMAIN new : ~Fresh(new[j]) =>
       \E i \in DOMAIN old \ {k} : new[j] = old[i]
  /\ \A i, j \in DOMAIN new :
       (i # j /\ ~Fresh(new[i]) /\ ~Fresh(new[j])) =>
         \E m, n \in DOMAIN old \ {k} : m # n /\ new[i] = old[m] /\ new[j] = old[n]

LEMMA RestSame ==
  ASSUME NEW s \in Seq(TaskType)
  PROVE  Rest(s, s, 0)
<1>1. DOMAIN s = 1 .. Len(s) /\ 0 \notin DOMAIN s
  OBVIOUS
<1> QED
  BY <1>1 DEF Rest

LEMMA RestReplaced ==
  ASSUME NEW s \in Seq(TaskType), NEW k \in DOMAIN s, NEW t \in TaskType,
         Fresh(t)
  PROVE  /\ Rest(s, [s EXCEPT ![k] = t], k)
         /\ k \in DOMAIN [s EXCEPT ![k] = t] /\ [s EXCEPT ![k] = t][k] = t
<1> DEFINE new == [s EXCEPT ![k] = t]
<1>1. /\ new \in Seq(TaskType)
      /\ DOMAIN new = DOMAIN s
      /\ \A j \in DOMAIN s : new[j] = IF j = k THEN t ELSE s[j]
  OBVIOUS
<1> HIDE DEF new
<1>2. Rest(s, new, k) /\ k \in DOMAIN new /\ new[k] = t
  BY <1>1 DEF Rest
<1> QED
  BY <1>2 DEF new

LEMMA RemoveAtIs ==
  ASSUME NEW s \in Seq(TaskType), NEW k \in DOMAIN s
  PROVE  /\ RemoveAt(s, k) \in Seq(TaskType)
         /\ Len(RemoveAt(s, k)) = Len(s) - 1
         /\ \A j \in 1 .. Len(s) - 1 :
              RemoveAt(s, k)[j] = IF j < k THEN s[j] ELSE s[j + 1]
<1> DEFINE a == SubSeq(s, 1, k - 1)
           b == SubSeq(s, k + 1, Len(s))
<1>1. k \in 1 .. Len(s) /\ Len(s) \in Nat
  OBVIOUS
<1>2. /\ a \in Seq(TaskType) /\ Len(a) = k - 1
      /\ \A j \in 1 .. k - 1 : a[j] = s[j]
  <2>1. \A i \in 1 .. k - 1 : s[i] \in TaskType
    BY <1>1
  <2> QED
    BY <1>1, <2>1, SubSeqProperties
<1>3. /\ b \in Seq(TaskType) /\ Len(b) = Len(s) - k
      /\ \A j \in 1 .. Len(s) - k : b[j] = s[j + k]
  <2>1. \A i \in k + 1 .. Len(s) : s[i] \in TaskType
    BY <1>1
  <2> QED
    BY <1>1, <2>1, SubSeqProperties
<1> HIDE DEF a, b
<1>4. /\ a \o b \in Seq(TaskType) /\ Len(a \o b) = Len(s) - 1
      /\ \A j \in 1 .. Len(s) - 1 : (a \o b)[j] = IF j <= k - 1 THEN a[j] ELSE b[j - (k - 1)]
  BY <1>1, <1>2, <1>3, ConcatProperties
<1>5. ASSUME NEW j \in 1 .. Len(s) - 1
      PROVE  (a \o b)[j] = IF j < k THEN s[j] ELSE s[j + 1]
  <2>1. CASE j < k
    <3>1. j <= k - 1 /\ j \in 1 .. k - 1
      BY <2>1, <1>1
    <3> QED
      BY <2>1, <3>1, <1>2, <1>4
  <2>2. CASE j >= k
    <3>1. ~(j <= k - 1) /\ ~(j < k)
      BY <2>2, <1>1
    <3>2. (a \o b)[j] = b[j - (k - 1)]
      BY <3>1, <1>4
    <3>3. j - (k - 1) \in 1 .. Len(s) - k /\ j - (k - 1) + k = j + 1
      BY <2>2, <1>1
    <3>4. b[j - (k - 1)] = s[j - (k - 1) + k]
      BY <3>3, <1>3
    <3> QED
      BY <3>1, <3>2, <3>3, <3>4
  <2>3. j < k \/ j >= k
    BY <1>1
  <2> QED
    BY <2>1, <2>2, <2>3
<1>6. RemoveAt(s, k) = a \o b
  BY DEF RemoveAt, a, b
<1> QED
  BY <1>4, <1>5, <1>6

LEMMA RestRemoved ==
  ASSUME NEW s \in Seq(TaskType), NEW k \in DOMAIN s
  PROVE  Rest(s, RemoveAt(s, k), k)
<1> DEFINE new == RemoveAt(s, k)
<1>1. /\ new \in Seq(TaskType) /\ Len(new) = Len(s) - 1
      /\ \A j \in 1 .. Len(s) - 1 : new[j] = IF j < k THEN s[j] ELSE s[j + 1]
  BY RemoveAtIs
<1> HIDE DEF new
<1>2. DOMAIN new = 1 .. Len(s) - 1 /\ DOMAIN s = 1 .. Len(s) /\ Len(s) \in Nat
  BY <1>1
<1>3. ASSUME NEW i \in DOMAIN s \ {k} PROVE \E j \in DOMAIN new : new[j] = s[i]
  <2>1. CASE i < k
    BY <2>1, <1>1, <1>2
  <2>2. CASE i > k
    <3>1. i - 1 \in DOMAIN new /\ new[i - 1] = s[i]
      BY <2>2, <1>1, <1>2
    <3> QED
      BY <3>1
  <2> QED
    BY <2>1, <2>2, <1>2
<1> DEFINE was(j) == IF j < k THEN j ELSE j + 1
<1>4. \A j \in DOMAIN new : was(j) \in DOMAIN s \ {k} /\ new[j] = s[was(j)]
  BY <1>1, <1>2
<1>5. \A i, j \in DOMAIN new : i # j => was(i) # was(j)
  BY <1>2
<1> HIDE DEF was
<1>6. Rest(s, new, k)
  BY <1>1, <1>3, <1>4, <1>5 DEF Rest
<1> QED
  BY <1>6 DEF new

LEMMA RestAppended ==
  ASSUME NEW s \in Seq(TaskType), NEW new, NEW k, Rest(s, new, k),
         NEW t \in TaskType, Fresh(t)
  PROVE  /\ Rest(s, Append(new, t), k)
         /\ \E j \in DOMAIN Append(new, t) : Append(new, t)[j] = t
<1> DEFINE more == Append(new, t)
<1>1. new \in Seq(TaskType)
  BY DEF Rest
<1>2. /\ more \in Seq(TaskType) /\ Len(new) \in Nat
      /\ DOMAIN new = 1 .. Len(new) /\ DOMAIN more = 1 .. Len(new) + 1
      /\ \A j \in DOMAIN new : more[j] = new[j]
      /\ more[Len(new) + 1] = t
  BY <1>1
<1> HIDE DEF more
<1>3. \A j \in DOMAIN more : ~Fresh(more[j]) => j \in DOMAIN new
  BY <1>2
<1>4. DOMAIN new \subseteq DOMAIN more
  BY <1>2
<1>5. Rest(s, more, k)
  <2>1. \A i \in DOMAIN s \ {k} : \E j \in DOMAIN more : more[j] = s[i]
    BY <1>2, <1>4 DEF Rest
  <2>2. \A j \in DOMAIN more : ~Fresh(more[j]) =>
          \E i \in DOMAIN s \ {k} : more[j] = s[i]
    BY <1>2, <1>3 DEF Rest
  <2>3. \A i, j \in DOMAIN more :
          (i # j /\ ~Fresh(more[i]) /\ ~Fresh(more[j])) =>
            \E m, n \in DOMAIN s \ {k} : m # n /\ more[i] = s[m] /\ more[j] = s[n]
    BY <1>2, <1>3 DEF Rest
  <2> QED
    BY <1>2, <2>1, <2>2, <2>3 DEF Rest
<1>6. \E j \in DOMAIN more : more[j] = t
  BY <1>2
<1> QED
  BY <1>5, <1>6 DEF more

-------------------------------------------------------------------------------
(* The inductive invariant.                                                *)

(* A call over the socket s. *)
Current(t, s) == t.pc = "call" /\ t.req \in Requests /\ t.socket = s

TypeInv ==
  /\ TypeOK
  /\ tasks \in Seq(TaskType)
  /\ \A k \in DOMAIN tasks : tasks[k].req = "unsub" <=> tasks[k].job = "register"

(* As long as the connection is not closed, a call over it holds its lock. *)
LockHeld ==
  ~unlockedBy =>
    \A k \in DOMAIN tasks :
      (Current(tasks[k], socket) /\ link # "down") => tasks[k].req \in locked

(* The callbacks are registered over a connection that is open. *)
SubscribedLate ==
  /\ link = "trying" => subscribed < socket
  /\ (link = "open" /\ state = "subscriptions registered") => subscribed = socket

(* A task that will pull the nodes, and one that pulls them. *)
ToPull(t) ==
  \/ t.job = "init" /\ t.req # "nodes"
  \/ t.req = "nodes" /\ t.pc # "call"
Pulling(t, s) == t.req = "nodes" /\ Current(t, s)

(* Every change is pulled: an event or a task that will pull is under way, the *)
(* pull under way began after the change, or the nodes are there and no pull   *)
(* that began earlier may put others in their place.                           *)
AllPulled ==
  \/ events > 0
  \/ missed = version
  \/ \E k \in DOMAIN tasks : ToPull(tasks[k])
  \/ \E k \in DOMAIN tasks : Pulling(tasks[k], socket) /\ tasks[k].since = version
  \/ /\ nodes = version
     /\ \A k \in DOMAIN tasks : Pulling(tasks[k], socket) => tasks[k].since = version
Listening == link = "open" /\ subscribed = socket /\ ~unlockedBy
PullComes == Listening => AllPulled

(* Only a request that may be locked waits for its lock. *)
WaitsForLock ==
  \A k \in DOMAIN tasks : tasks[k].pc = "wait" => tasks[k].req \in Requests

IInv ==
  /\ TypeInv /\ WaitsForLock /\ OneCallPerRequest /\ LockHeld /\ SubscribedLate
  /\ PullComes

LEMMA InitHolds == Init => IInv
<1> SUFFICES ASSUME Init PROVE IInv
  OBVIOUS
<1>1. tasks = <<>> /\ DOMAIN tasks = {} /\ tasks \in Seq(TaskType)
  BY DEF Init
<1>2. TypeOK
  <2>1. socket \in 0 .. MaxSockets /\ subscribed \in 0 .. socket
    BY BoundsAreNumbers DEF Init
  <2>2. /\ version \in 1 .. MaxChanges /\ events \in Nat
        /\ nodes \in 0 .. version /\ missed \in 0 .. version
    BY BoundsAreNumbers DEF Init
  <2>3. /\ state \in States /\ link \in {"down", "trying", "open", "closing"}
        /\ locked \subseteq Requests
        /\ daemon \in BOOLEAN /\ unlockedBy \in BOOLEAN
    BY DEF Init, States
  <2> QED
    BY <1>1, <2>1, <2>2, <2>3 DEF TypeOK
<1>3. OneCallPerRequest /\ LockHeld /\ WaitsForLock
  BY <1>1 DEF OneCallPerRequest, LockHeld, WaitsForLock
<1>4. SubscribedLate /\ PullComes
  BY DEF Init, SubscribedLate, PullComes, Listening
<1> QED
  BY <1>1, <1>2, <1>3, <1>4 DEF IInv, TypeInv

LEMMA TypesOfTasks ==
  ASSUME TypeInv, NEW k, Rest(tasks, tasks', k),
         socket' \in Nat, socket <= socket', version' \in Nat, version <= version'
  PROVE  /\ tasks' \in Seq(TaskType)
         /\ \A j \in DOMAIN tasks' :
              /\ tasks'[j].job \in Jobs
              /\ tasks'[j].req \in Requests \cup {"unsub"}
              /\ tasks'[j].pc \in {"begin", "wait", "call"}
              /\ tasks'[j].socket \in 0 .. socket'
              /\ tasks'[j].since \in 0 .. version'
              /\ tasks'[j].req = "unsub" <=> tasks'[j].job = "register"
<1>1. tasks' \in Seq(TaskType)
  BY DEF Rest
<1>2. socket \in Nat /\ version \in Nat
  BY BoundsAreNumbers DEF TypeInv, TypeOK
<1> SUFFICES ASSUME NEW j \in DOMAIN tasks'
             PROVE  /\ tasks'[j].job \in Jobs
                    /\ tasks'[j].req \in Requests \cup {"unsub"}
                    /\ tasks'[j].pc \in {"begin", "wait", "call"}
                    /\ tasks'[j].socket \in 0 .. socket'
                    /\ tasks'[j].since \in 0 .. version'
                    /\ tasks'[j].req = "unsub" <=> tasks'[j].job = "register"
  BY <1>1
<1>3. CASE Fresh(tasks'[j])
  BY <1>3, <1>2 DEF Fresh, TaskType
<1>4. CASE ~Fresh(tasks'[j])
  <2>1. PICK i \in DOMAIN tasks : tasks'[j] = tasks[i]
    BY <1>4 DEF Rest
  <2>2. tasks[i] \in TaskType
    BY DEF TypeInv
  <2>3. tasks[i].socket \in 0 .. socket /\ tasks[i].since \in 0 .. version
    BY DEF TypeInv, TypeOK
  <2>4. tasks[i].req = "unsub" <=> tasks[i].job = "register"
    BY DEF TypeInv
  <2>5. tasks[i].socket \in 0 .. socket' /\ tasks[i].since \in 0 .. version'
    BY <2>3, <1>2
  <2> QED
    BY <2>1, <2>2, <2>4, <2>5 DEF TaskType
<1> QED
  BY <1>3, <1>4

LEMMA WaitsKept ==
  ASSUME WaitsForLock, NEW k, Rest(tasks, tasks', k)
  PROVE  WaitsForLock'
<1> SUFFICES ASSUME NEW j \in DOMAIN tasks', tasks'[j].pc = "wait"
             PROVE  tasks'[j].req \in Requests
  BY DEF WaitsForLock
<1>1. ~Fresh(tasks'[j])
  BY DEF Fresh
<1>2. PICK i \in DOMAIN tasks : tasks'[j] = tasks[i]
  BY <1>1 DEF Rest
<1> QED
  BY <1>2 DEF WaitsForLock

(* The locks after a step that leaves the other tasks as they are. *)
LEMMA LocksKept ==
  ASSUME IInv, NEW k, Rest(tasks, tasks', k), socket' = socket,
         ~unlockedBy' => ~unlockedBy,
         ~unlockedBy' =>
           \A i \in DOMAIN tasks \ {k} :
             (Current(tasks[i], socket) /\ link' # "down") => tasks[i].req \in locked'
  PROVE  OneCallPerRequest' /\ LockHeld'
<1> SUFFICES ASSUME ~unlockedBy' PROVE OneCallPerRequest' /\ LockHeld'
  BY DEF OneCallPerRequest, LockHeld
<1>1. \A j \in DOMAIN tasks' : tasks'[j].pc = "call" => ~Fresh(tasks'[j])
  BY DEF Fresh
<1>2. OneCallPerRequest'
  <2> SUFFICES ASSUME NEW i \in DOMAIN tasks', NEW j \in DOMAIN tasks',
                      tasks'[i].pc = "call", tasks'[j].pc = "call",
                      tasks'[i].req = tasks'[j].req, tasks'[i].req \in Requests,
                      tasks'[i].socket = socket, tasks'[j].socket = socket, i # j
               PROVE  FALSE
    BY DEF OneCallPerRequest
  <2>1. PICK m \in DOMAIN tasks, n \in DOMAIN tasks :
          m # n /\ tasks'[i] = tasks[m] /\ tasks'[j] = tasks[n]
    BY <1>1 DEF Rest
  <2> QED
    BY <2>1 DEF IInv, OneCallPerRequest
<1>3. LockHeld'
  <2> SUFFICES ASSUME NEW j \in DOMAIN tasks', Current(tasks'[j], socket'), link' # "down"
               PROVE  tasks'[j].req \in locked'
    BY DEF LockHeld
  <2>1. PICK i \in DOMAIN tasks \ {k} : tasks'[j] = tasks[i]
    BY <1>1 DEF Rest, Current
  <2>2. Current(tasks[i], socket)
    BY <2>1 DEF Current
  <2> QED
    BY <2>1, <2>2
<1> QED
  BY <1>2, <1>3

(* A pull comes after a step that ends no pull and starts none. *)
LEMMA PullKept ==
  ASSUME IInv, NEW k, Rest(tasks, tasks', k),
         version' = version, socket' = socket,
         Listening' => Listening,
         events' = events, nodes' = nodes, missed' \in {missed, version},
         k \in DOMAIN tasks =>
           \/ missed' = version
           \/ \E j \in DOMAIN tasks' : ToPull(tasks'[j])
           \/ ~ToPull(tasks[k]) /\ ~Pulling(tasks[k], socket)
  PROVE  PullComes'
<1> SUFFICES ASSUME Listening, missed' # version,
                    ~ \E j \in DOMAIN tasks' : ToPull(tasks'[j]),
                    ~ events > 0
             PROVE  AllPulled'
  BY DEF PullComes, AllPulled, ToPull
<1>1. missed # version
  OBVIOUS
<1>2. ~ \E i \in DOMAIN tasks : ToPull(tasks[i])
  BY DEF Rest
<1>3. ASSUME NEW j \in DOMAIN tasks', Pulling(tasks'[j], socket')
      PROVE  \E i \in DOMAIN tasks : tasks'[j] = tasks[i] /\ Pulling(tasks[i], socket)
  <2>1. ~Fresh(tasks'[j])
    BY <1>3 DEF Fresh, Pulling, Current
  <2>2. PICK i \in DOMAIN tasks : tasks'[j] = tasks[i]
    BY <2>1 DEF Rest
  <2> QED
    BY <2>2, <1>3 DEF Pulling, Current
<1>4. CASE \E i \in DOMAIN tasks : Pulling(tasks[i], socket) /\ tasks[i].since = version
  <2>1. PICK i \in DOMAIN tasks : Pulling(tasks[i], socket) /\ tasks[i].since = version
    BY <1>4
  <2>2. i # k
    BY <2>1
  <2>3. PICK j \in DOMAIN tasks' : tasks'[j] = tasks[i]
    BY <2>2 DEF Rest
  <2>4. Pulling(tasks'[j], socket') /\ tasks'[j].since = version'
    BY <2>1, <2>3 DEF Pulling, Current
  <2> QED
    BY <2>4 DEF AllPulled
<1>5. CASE /\ nodes = version
           /\ \A i \in DOMAIN tasks : Pulling(tasks[i], socket) => tasks[i].since = version
  <2>1. nodes' = version'
    BY <1>5
  <2>2. \A j \in DOMAIN tasks' : Pulling(tasks'[j], socket') => tasks'[j].since = version'
    BY <1>3, <1>5
  <2> QED
    BY <2>1, <2>2 DEF AllPulled
<1> QED
  BY <1>1, <1>2, <1>4, <1>5 DEF IInv, PullComes, AllPulled

-------------------------------------------------------------------------------
(* The end of a request.                                                   *)

LEMMA FreshTask ==
  ASSUME NEW job \in Jobs, NEW req \in Requests \cup {"unsub"},
         req = "unsub" <=> job = "register"
  PROVE  /\ Fresh(Task(job, req, "begin"))
         /\ Task(job, req, "begin") \in TaskType
         /\ Task(job, req, "begin").job = job
         /\ Task(job, req, "begin").req = req
         /\ Task(job, req, "begin").pc = "begin"
BY DEF Fresh, Task, TaskType

LEMMA FreshDaemonInit == Fresh(DaemonInit) /\ DaemonInit \in TaskType /\ ToPull(DaemonInit)
<1>1. "init" \in Jobs /\ "version" \in Requests \cup {"unsub"}
  BY DEF Jobs, Requests
<1>2. "version" = "unsub" <=> "init" = "register"
  OBVIOUS
<1> QED
  BY <1>1, <1>2, FreshTask DEF DaemonInit, ToPull

LEMMA TaskKinds ==
  ASSUME TypeInv, NEW k \in DOMAIN tasks
  PROVE  /\ tasks \in Seq(TaskType) /\ tasks[k] \in TaskType
         /\ tasks[k].job \in Jobs
         /\ tasks[k].req \in {"version", "hosts", "nodes", "unsub"}
         /\ tasks[k].req = "unsub" <=> tasks[k].job = "register"
<1>1. tasks[k] \in TaskType
  BY DEF TypeInv
<1> QED
  BY <1>1 DEF TypeInv, TaskType, Requests

LEMMA GoneIs ==
  ASSUME TypeInv, NEW k \in DOMAIN tasks, tasks' = Gone(k)
  PROVE  Rest(tasks, tasks', k)
BY TaskKinds, RestRemoved DEF Gone

LEMMA GoesOnIs ==
  ASSUME TypeInv, NEW k \in DOMAIN tasks, NEW req \in Requests,
         tasks[k].req # "unsub", tasks' = GoesOn(k, req)
  PROVE  /\ Rest(tasks, tasks', k)
         /\ \E j \in DOMAIN tasks' : /\ tasks'[j].job = tasks[k].job
                                     /\ tasks'[j].req = req
                                     /\ tasks'[j].pc = "begin"
<1> DEFINE t == Task(tasks[k].job, req, "begin")
<1>1. /\ tasks[k].job \in Jobs /\ tasks[k].job # "register"
      /\ req \in Requests \cup {"unsub"} /\ req # "unsub"
  BY TaskKinds DEF Requests
<1>2. /\ Fresh(t) /\ t \in TaskType
      /\ t.job = tasks[k].job /\ t.req = req /\ t.pc = "begin"
  BY <1>1, FreshTask
<1> HIDE DEF t
<1>3. tasks' = [tasks EXCEPT ![k] = t]
  BY DEF GoesOn, t
<1>4. Rest(tasks, tasks', k) /\ k \in DOMAIN tasks' /\ tasks'[k] = t
  <2>1. tasks \in Seq(TaskType)
    BY TaskKinds
  <2>2. /\ Rest(tasks, [tasks EXCEPT ![k] = t], k)
        /\ k \in DOMAIN [tasks EXCEPT ![k] = t]
        /\ [tasks EXCEPT ![k] = t][k] = t
    BY <2>1, <1>2, RestReplaced
  <2> QED
    BY <2>2, <1>3
<1> QED
  BY <1>2, <1>4

LEMMA SubscribedIs ==
  ASSUME TypeInv
  PROVE  /\ socket \in Nat /\ subscribed \in 0 .. socket /\ socket \in 0 .. socket
         /\ version \in Nat /\ version \in 0 .. version /\ 0 \in 0 .. version
BY BoundsAreNumbers DEF TypeInv, TypeOK

(* What the end of a request leaves of the other tasks, and the types. *)
LEMMA EndsIs ==
  ASSUME IInv, NEW k \in DOMAIN tasks, NEW ok \in BOOLEAN, NEW data \in 0 .. version,
         Ends(k, ok, data), UNCHANGED <<link, socket, version, events>>
  PROVE  /\ Rest(tasks, tasks', k)
         /\ state' \in States /\ daemon' \in BOOLEAN
         /\ nodes' \in 0 .. version /\ missed' \in {missed, version}
         /\ subscribed' \in 0 .. socket
         /\ SubscribedLate'
<1>t. TypeInv /\ SubscribedLate
  BY DEF IInv
<1>o. state \in States /\ nodes \in 0 .. version /\ subscribed \in 0 .. socket
  BY <1>t DEF TypeInv, TypeOK
<1>1. CASE tasks[k].req = "version"
  <2>1. VersionEnds(k, ok)
    BY <1>1 DEF Ends
  <2>2. /\ daemon' \in BOOLEAN /\ missed' \in {missed, version}
        /\ nodes' = nodes /\ subscribed' = subscribed
        /\ state' \in {"errored", state}
    BY <2>1 DEF VersionEnds, SetState
  <2>3. Rest(tasks, tasks', k)
    <3>1. tasks' = Gone(k) \/ tasks' = GoesOn(k, "hosts")
      BY <2>1 DEF VersionEnds, SetState
    <3>2. "hosts" \in Requests /\ tasks[k].req # "unsub"
      BY <1>1 DEF Requests
    <3> QED
      BY <3>1, <3>2, <1>t, GoneIs, GoesOnIs
  <2>4. SubscribedLate'
    BY <2>2, <1>t DEF SubscribedLate
  <2> QED
    BY <2>2, <2>3, <2>4, <1>o DEF States
<1>2. CASE tasks[k].req = "hosts"
  <2>1. HostsEnd(k, ok)
    BY <1>2 DEF Ends
  <2>2. /\ daemon' = daemon /\ missed' = missed
        /\ nodes' = nodes /\ subscribed' = subscribed
        /\ state' \in {"errored", "connected"}
    BY <2>1 DEF HostsEnd, SetState
  <2>3. Rest(tasks, tasks', k)
    <3>1. tasks' = Gone(k) \/ tasks' = GoesOn(k, "nodes")
      BY <2>1 DEF HostsEnd, SetState
    <3>2. "nodes" \in Requests /\ tasks[k].req # "unsub"
      BY <1>2 DEF Requests
    <3> QED
      BY <3>1, <3>2, <1>t, GoneIs, GoesOnIs
  <2>4. SubscribedLate'
    BY <2>2, <1>t DEF SubscribedLate
  <2>5. daemon \in BOOLEAN
    BY <1>t DEF TypeInv, TypeOK
  <2> QED
    BY <2>2, <2>3, <2>4, <2>5, <1>o DEF States
<1>3. CASE tasks[k].req = "nodes"
  <2>1. NodesEnd(k, ok, data)
    BY <1>3 DEF Ends
  <2>2. /\ daemon' = daemon /\ missed' \in {missed, version}
        /\ nodes' \in {data, 0} /\ subscribed' = subscribed
        /\ state' = state /\ tasks' = Gone(k)
    BY <2>1 DEF NodesEnd, EmptyList
  <2>3. Rest(tasks, tasks', k)
    BY <2>2, <1>t, GoneIs
  <2>4. SubscribedLate'
    BY <2>2, <1>t DEF SubscribedLate
  <2>5. daemon \in BOOLEAN /\ nodes' \in 0 .. version
    BY <2>2, <1>t, SubscribedIs DEF TypeInv, TypeOK
  <2> QED
    BY <2>2, <2>3, <2>4, <2>5, <1>o
<1>4. CASE tasks[k].req = "unsub"
  <2>1. Registered(k)
    BY <1>4 DEF Ends
  <2>2. daemon' = daemon /\ missed' = missed /\ nodes' = nodes
    BY <2>1 DEF Registered
  <2>3. Rest(tasks, tasks', k)
    <3>1. tasks' = Gone(k) \/ tasks' = Append(Gone(k), DaemonInit)
      BY <2>1 DEF Registered, SetState
    <3>2. Rest(tasks, Gone(k), k)
      BY <1>t, TaskKinds, RestRemoved DEF Gone
    <3>3. Rest(tasks, Append(Gone(k), DaemonInit), k)
      BY <3>2, <1>t, TaskKinds, FreshDaemonInit, RestAppended
    <3> QED
      BY <3>1, <3>2, <3>3
  <2>4. \/ /\ link = "open" /\ subscribed' = socket
           /\ state' = "subscriptions registered"
        \/ link # "open" /\ subscribed' = subscribed /\ state' = state
    BY <2>1 DEF Registered, SetState, isAvailable
  <2>5. SubscribedLate'
    BY <2>4, <1>t DEF SubscribedLate
  <2>6. daemon \in BOOLEAN
    BY <1>t DEF TypeInv, TypeOK
  <2>7. subscribed' \in 0 .. socket
    BY <2>4, <1>t, SubscribedIs
  <2> QED
    BY <2>2, <2>3, <2>4, <2>5, <2>6, <2>7, <1>o DEF States
<1> QED
  BY <1>t, <1>1, <1>2, <1>3, <1>4, TaskKinds

(* The pull after the end of a request. *)
LEMMA EndsPull ==
  ASSUME IInv, NEW k \in DOMAIN tasks, NEW ok \in BOOLEAN, NEW data \in 0 .. version,
         Ends(k, ok, data), UNCHANGED <<link, socket, version, events>>,
         ~unlockedBy' => ~unlockedBy,
         (ok /\ tasks[k].req = "nodes") =>
           Pulling(tasks[k], socket) /\ data \in tasks[k].since .. version
  PROVE  PullComes'
<1>t. TypeInv
  BY DEF IInv
<1>e. Rest(tasks, tasks', k) /\ missed' \in {missed, version}
  BY EndsIs
<1> SUFFICES ASSUME Listening', missed' # version PROVE AllPulled'
  BY DEF PullComes, AllPulled
<1>a. isAvailable
  BY DEF Listening, isAvailable
<1>1. CASE tasks[k].req = "version"
  <2>1. VersionEnds(k, ok)
    BY <1>1 DEF Ends
  <2>2. /\ ok /\ tasks' = GoesOn(k, "hosts")
        /\ nodes' = nodes /\ subscribed' = subscribed
    BY <2>1, <1>a DEF VersionEnds
  <2>3. \E j \in DOMAIN tasks' : tasks'[j].job = tasks[k].job /\ tasks'[j].req = "hosts"
    BY <2>2, <1>1, <1>t, GoesOnIs DEF Requests
  <2>4. \/ \E j \in DOMAIN tasks' : ToPull(tasks'[j])
        \/ ~ToPull(tasks[k]) /\ ~Pulling(tasks[k], socket)
    BY <2>3, <1>1 DEF ToPull, Pulling
  <2>5. Listening' => Listening
    BY <2>2 DEF Listening
  <2>6. PullComes'
    BY <2>2, <2>4, <2>5, <1>e, PullKept
  <2> QED
    BY <2>6 DEF PullComes
<1>2. CASE tasks[k].req = "hosts"
  <2>1. HostsEnd(k, ok)
    BY <1>2 DEF Ends
  <2>2. /\ tasks[k].job = "init" => tasks' = GoesOn(k, "nodes")
        /\ nodes' = nodes /\ subscribed' = subscribed
    BY <2>1 DEF HostsEnd, SetState
  <2>3. tasks[k].job = "init" =>
          \E j \in DOMAIN tasks' : tasks'[j].req = "nodes" /\ tasks'[j].pc = "begin"
    BY <2>2, <1>2, <1>t, GoesOnIs DEF Requests
  <2>4. \/ \E j \in DOMAIN tasks' : ToPull(tasks'[j])
        \/ ~ToPull(tasks[k]) /\ ~Pulling(tasks[k], socket)
    BY <2>3, <1>2 DEF ToPull, Pulling
  <2>5. Listening' => Listening
    BY <2>2 DEF Listening
  <2>6. PullComes'
    BY <2>2, <2>4, <2>5, <1>e, PullKept
  <2> QED
    BY <2>6 DEF PullComes
<1>3. CASE tasks[k].req = "nodes"
  <2>1. NodesEnd(k, ok, data)
    BY <1>3 DEF Ends
  <2>2. ok /\ nodes' = data /\ missed' = missed /\ subscribed' = subscribed
    BY <2>1 DEF NodesEnd
  <2>3. Listening
    BY <2>2 DEF Listening
  <2>4. Pulling(tasks[k], socket) /\ data \in tasks[k].since .. version
    BY <2>2, <1>3
  <2>5. \A i \in DOMAIN tasks : Pulling(tasks[i], socket) => i = k
    BY <2>3, <2>4 DEF IInv, OneCallPerRequest, Listening, Pulling, Current
  <2>6. \A j \in DOMAIN tasks' : ~Pulling(tasks'[j], socket')
    <3> SUFFICES ASSUME NEW j \in DOMAIN tasks', Pulling(tasks'[j], socket')
                 PROVE  FALSE
      OBVIOUS
    <3>1. ~Fresh(tasks'[j])
      BY DEF Fresh, Pulling, Current
    <3>2. PICK i \in DOMAIN tasks \ {k} : tasks'[j] = tasks[i]
      BY <3>1, <1>e DEF Rest
    <3> QED
      BY <3>2, <2>5
  <2>7. CASE events > 0 \/ missed = version
    BY <2>2, <2>7 DEF AllPulled
  <2>8. CASE \E i \in DOMAIN tasks : ToPull(tasks[i])
    <3>1. PICK i \in DOMAIN tasks : ToPull(tasks[i])
      BY <2>8
    <3>2. i # k
      BY <3>1, <2>4 DEF ToPull, Pulling, Current
    <3>3. PICK j \in DOMAIN tasks' : tasks'[j] = tasks[i]
      BY <3>2, <1>e DEF Rest
    <3> QED
      BY <3>1, <3>3 DEF AllPulled
  <2>9. CASE tasks[k].since = version
    <3>1. nodes' = version'
      BY <2>2, <2>4, <2>9, <1>t, SubscribedIs
    <3> QED
      BY <3>1, <2>6 DEF AllPulled
  <2>10. AllPulled
    BY <2>3 DEF IInv, PullComes
  <2> QED
    BY <2>10, <2>4, <2>5, <2>7, <2>8, <2>9 DEF AllPulled
<1>4. CASE tasks[k].req = "unsub"
  <2>1. Registered(k)
    BY <1>4 DEF Ends
  <2>2. /\ subscribed' = socket /\ nodes' = nodes
        /\ SetState("subscriptions registered", Gone(k))
    BY <2>1, <1>a DEF Registered
  <2>3. CASE state = "subscriptions registered"
    <3>1. Listening
      BY <2>3, <1>a DEF IInv, SubscribedLate, Listening, isAvailable
    <3>2. ~ToPull(tasks[k]) /\ ~Pulling(tasks[k], socket)
      BY <1>4, <1>t, TaskKinds DEF ToPull, Pulling
    <3>3. PullComes'
      BY <3>1, <3>2, <2>2, <1>e, PullKept
    <3> QED
      BY <3>3 DEF PullComes
  <2>4. CASE state # "subscriptions registered"
    <3>1. tasks' = Append(Gone(k), DaemonInit)
      BY <2>2, <2>4 DEF SetState
    <3>2. Rest(tasks, Gone(k), k)
      BY <1>t, TaskKinds, RestRemoved DEF Gone
    <3>3. \E j \in DOMAIN tasks' : tasks'[j] = DaemonInit
      BY <3>1, <3>2, <1>t, TaskKinds, FreshDaemonInit, RestAppended
    <3> QED
      BY <3>3, FreshDaemonInit DEF AllPulled
  <2> QED
    BY <2>3, <2>4
<1> QED
  BY <1>t, <1>1, <1>2, <1>3, <1>4, TaskKinds

(* The end of a request keeps the invariant, provided that it frees no lock *)
(* that another call holds, and that a list of nodes is one since its call. *)
LEMMA EndsHolds ==
  ASSUME IInv, NEW k \in DOMAIN tasks, NEW ok \in BOOLEAN, NEW data \in 0 .. version,
         Ends(k, ok, data), UNCHANGED <<link, socket, version, events>>,
         unlockedBy' \in BOOLEAN, ~unlockedBy' => ~unlockedBy,
         locked' \subseteq locked,
         ~unlockedBy' =>
           \A i \in DOMAIN tasks \ {k} :
             (Current(tasks[i], socket) /\ link # "down") => tasks[i].req \in locked',
         (ok /\ tasks[k].req = "nodes") =>
           Pulling(tasks[k], socket) /\ data \in tasks[k].since .. version
  PROVE  IInv'
<1>t. TypeInv
  BY DEF IInv
<1>1. /\ Rest(tasks, tasks', k)
      /\ state' \in States /\ daemon' \in BOOLEAN
      /\ nodes' \in 0 .. version /\ missed' \in {missed, version}
      /\ subscribed' \in 0 .. socket
      /\ SubscribedLate'
  BY EndsIs
<1>2. PullComes'
  BY EndsPull
<1>3. OneCallPerRequest' /\ LockHeld'
  BY <1>1, LocksKept
<1>4. /\ tasks' \in Seq(TaskType)
      /\ \A j \in DOMAIN tasks' :
           /\ tasks'[j].job \in Jobs
           /\ tasks'[j].req \in Requests \cup {"unsub"}
           /\ tasks'[j].pc \in {"begin", "wait", "call"}
           /\ tasks'[j].socket \in 0 .. socket'
           /\ tasks'[j].since \in 0 .. version'
           /\ tasks'[j].req = "unsub" <=> tasks'[j].job = "register"
  BY <1>1, <1>t, SubscribedIs, TypesOfTasks
<1>5. missed' \in 0 .. version /\ locked' \subseteq Requests
  BY <1>1, <1>t, SubscribedIs DEF TypeInv, TypeOK
<1>6. TypeInv'
  BY <1>1, <1>4, <1>5, <1>t DEF TypeInv, TypeOK, Jobs
<1>7. WaitsForLock'
  BY <1>1, WaitsKept DEF IInv
<1> QED
  BY <1>2, <1>3, <1>1, <1>6, <1>7 DEF IInv

-------------------------------------------------------------------------------
(* A request under way.                                                    *)

(* Task k waits or calls; the others are as they were. *)
Goes(k, pc) ==
  /\ tasks' \in Seq(TaskType)
  /\ DOMAIN tasks' = DOMAIN tasks
  /\ \A j \in DOMAIN tasks \ {k} : tasks'[j] = tasks[j]
  /\ tasks'[k].job = tasks[k].job /\ tasks'[k].req = tasks[k].req
  /\ tasks'[k].pc = pc
  /\ tasks'[k].socket = IF pc = "call" THEN socket ELSE tasks[k].socket
  /\ tasks'[k].since = IF pc = "call" THEN version ELSE tasks[k].since

LEMMA CallingIs ==
  ASSUME TypeInv, NEW k \in DOMAIN tasks, Calling(k)
  PROVE  Goes(k, "call")
<1>1. /\ tasks \in Seq(TaskType) /\ tasks[k] \in TaskType
      /\ socket \in Nat /\ version \in Nat
  BY TaskKinds, SubscribedIs
<1>2. PICK t : t = [tasks[k] EXCEPT !.pc = "call", !.socket = socket, !.since = version]
  OBVIOUS
<1>3. /\ t \in TaskType
      /\ t.job = tasks[k].job /\ t.req = tasks[k].req /\ t.pc = "call"
      /\ t.socket = socket /\ t.since = version
  BY <1>1, <1>2 DEF TaskType
<1>4. tasks' = [tasks EXCEPT ![k] = t]
  BY <1>2 DEF Calling
<1>5. /\ tasks' \in Seq(TaskType) /\ DOMAIN tasks' = DOMAIN tasks
      /\ \A j \in DOMAIN tasks : tasks'[j] = IF j = k THEN t ELSE tasks[j]
  BY <1>1, <1>3, <1>4
<1> QED
  BY <1>3, <1>5 DEF Goes

LEMMA WaitingIs ==
  ASSUME TypeInv, NEW k \in DOMAIN tasks, tasks' = [tasks EXCEPT ![k].pc = "wait"]
  PROVE  Goes(k, "wait")
<1>1. tasks \in Seq(TaskType) /\ tasks[k] \in TaskType
  BY TaskKinds
<1>2. PICK t : t = [tasks[k] EXCEPT !.pc = "wait"]
  OBVIOUS
<1>3. /\ t \in TaskType
      /\ t.job = tasks[k].job /\ t.req = tasks[k].req /\ t.pc = "wait"
      /\ t.socket = tasks[k].socket /\ t.since = tasks[k].since
  BY <1>1, <1>2 DEF TaskType
<1>4. tasks' = [tasks EXCEPT ![k] = t]
  BY <1>2
<1>5. /\ tasks' \in Seq(TaskType) /\ DOMAIN tasks' = DOMAIN tasks
      /\ \A j \in DOMAIN tasks : tasks'[j] = IF j = k THEN t ELSE tasks[j]
  BY <1>1, <1>3, <1>4
<1> QED
  BY <1>3, <1>5 DEF Goes

(* A request that waits or is sent keeps the invariant, if its lock was free. *)
LEMMA GoesHolds ==
  ASSUME IInv, NEW k \in DOMAIN tasks, NEW pc \in {"wait", "call"}, Goes(k, pc),
         tasks[k].pc # "call", pc = "wait" => tasks[k].req \in Requests,
         UNCHANGED <<state, link, socket, daemon, subscribed, version, events, nodes,
                     missed, unlockedBy>>,
         locked \subseteq locked', locked' \subseteq Requests,
         (pc = "call" /\ tasks[k].req \in Requests) =>
           link = "open" /\ tasks[k].req \notin locked /\ tasks[k].req \in locked'
  PROVE  IInv'
<1>t. TypeInv
  BY DEF IInv
<1>s. socket \in Nat /\ version \in Nat /\ socket \in 0 .. socket /\ version \in 0 .. version
  BY <1>t, SubscribedIs
<1>g. \A j \in DOMAIN tasks' : j \in DOMAIN tasks /\ (j # k => tasks'[j] = tasks[j])
  BY DEF Goes
<1>1. TypeInv'
  <2>1. \A j \in DOMAIN tasks' :
          /\ tasks'[j].job \in Jobs
          /\ tasks'[j].req \in Requests \cup {"unsub"}
          /\ tasks'[j].pc \in {"begin", "wait", "call"}
          /\ tasks'[j].socket \in 0 .. socket
          /\ tasks'[j].since \in 0 .. version
          /\ tasks'[j].req = "unsub" <=> tasks'[j].job = "register"
    <3> SUFFICES ASSUME NEW j \in DOMAIN tasks'
                 PROVE  /\ tasks'[j].job \in Jobs
                        /\ tasks'[j].req \in Requests \cup {"unsub"}
                        /\ tasks'[j].pc \in {"begin", "wait", "call"}
                        /\ tasks'[j].socket \in 0 .. socket
                        /\ tasks'[j].since \in 0 .. version
                        /\ tasks'[j].req = "unsub" <=> tasks'[j].job = "register"
      OBVIOUS
    <3>1. /\ tasks[j].job \in Jobs
          /\ tasks[j].req \in Requests \cup {"unsub"}
          /\ tasks[j].pc \in {"begin", "wait", "call"}
          /\ tasks[j].socket \in 0 .. socket
          /\ tasks[j].since \in 0 .. version
          /\ tasks[j].req = "unsub" <=> tasks[j].job = "register"
      BY <1>g, <1>t DEF TypeInv, TypeOK, Jobs
    <3>2. CASE j # k
      BY <3>1, <3>2, <1>g
    <3>3. CASE j = k
      BY <3>1, <3>3, <1>s DEF Goes
    <3> QED
      BY <3>2, <3>3
  <2> QED
    BY <2>1, <1>t DEF TypeInv, TypeOK, Goes, Jobs
(* No other call over this socket has the request. *)
<1>2. ASSUME ~unlockedBy, pc = "call", NEW i \in DOMAIN tasks \ {k},
             Current(tasks[i], socket)
      PROVE  tasks[i].req # tasks[k].req
  BY <1>2 DEF IInv, LockHeld, Current
<1>3. OneCallPerRequest'
  <2> SUFFICES ASSUME ~unlockedBy, NEW i \in DOMAIN tasks', NEW j \in DOMAIN tasks',
                      tasks'[i].pc = "call", tasks'[j].pc = "call",
                      tasks'[i].req = tasks'[j].req, tasks'[i].req \in Requests,
                      tasks'[i].socket = socket, tasks'[j].socket = socket, i # j
               PROVE  FALSE
    BY DEF OneCallPerRequest
  <2>1. CASE i # k /\ j # k
    BY <2>1, <1>g DEF IInv, OneCallPerRequest
  <2>2. CASE i = k
    <3>1. /\ pc = "call" /\ tasks'[i].req = tasks[k].req
          /\ tasks'[j] = tasks[j] /\ j \in DOMAIN tasks \ {k}
      BY <2>2, <1>g DEF Goes
    <3> QED
      BY <3>1, <1>2 DEF Current
  <2>3. CASE j = k
    <3>1. /\ pc = "call" /\ tasks'[j].req = tasks[k].req
          /\ tasks'[i] = tasks[i] /\ i \in DOMAIN tasks \ {k}
      BY <2>3, <1>g DEF Goes
    <3> QED
      BY <3>1, <1>2 DEF Current
  <2> QED
    BY <2>1, <2>2, <2>3
<1>4. LockHeld'
  <2> SUFFICES ASSUME ~unlockedBy, NEW j \in DOMAIN tasks',
                      Current(tasks'[j], socket'), link' # "down"
               PROVE  tasks'[j].req \in locked'
    BY DEF LockHeld
  <2>1. CASE j # k
    BY <2>1, <1>g DEF IInv, LockHeld
  <2>2. CASE j = k
    BY <2>2 DEF Current, Goes
  <2> QED
    BY <2>1, <2>2
<1>5. SubscribedLate'
  BY DEF IInv, SubscribedLate
<1>6. PullComes'
  <2> SUFFICES ASSUME AllPulled PROVE AllPulled'
    BY DEF IInv, PullComes, Listening
  <2>1. CASE tasks[k].req = "nodes"
    <3>1. tasks'[k].req = "nodes" /\ k \in DOMAIN tasks'
      BY <2>1 DEF Goes
    <3>2. CASE pc = "wait"
      BY <3>1, <3>2 DEF AllPulled, ToPull, Goes
    <3>3. CASE pc = "call"
      BY <3>1, <3>3 DEF AllPulled, Pulling, Current, Goes, Requests
    <3> QED
      BY <3>2, <3>3
  <2>2. CASE tasks[k].req # "nodes"
    <3>1. \A j \in DOMAIN tasks : /\ ToPull(tasks'[j]) <=> ToPull(tasks[j])
                                  /\ Pulling(tasks'[j], socket') <=> Pulling(tasks[j], socket)
                                  /\ Pulling(tasks[j], socket) => tasks'[j] = tasks[j]
      BY <2>2 DEF Goes, ToPull, Pulling
    <3>2. DOMAIN tasks' = DOMAIN tasks
      BY DEF Goes
    <3> QED
      BY <3>1, <3>2 DEF AllPulled
  <2> QED
    BY <2>1, <2>2
<1>7. WaitsForLock'
  BY <1>g DEF IInv, WaitsForLock, Goes
<1> QED
  BY <1>1, <1>3, <1>4, <1>5, <1>6, <1>7 DEF IInv

-------------------------------------------------------------------------------
(* The steps of a task.                                                    *)

LEMMA BeginHolds ==
  ASSUME IInv, NEW k \in DOMAIN tasks, Begin(k)
  PROVE  IInv'
<1>t. TypeInv /\ LockHeld
  BY DEF IInv
<1>r. tasks[k].req \in Requests \cup {"unsub"}
  BY <1>t, TaskKinds DEF Requests
<1>z. 0 \in 0 .. version
  BY <1>t, SubscribedIs
<1>u. /\ UNCHANGED <<link, socket, version, events, unlockedBy>>
      /\ unlockedBy \in BOOLEAN /\ locked \subseteq Requests
      /\ tasks[k].pc # "call"
  <2>1. unlockedBy \in BOOLEAN /\ locked \subseteq Requests
    BY <1>t DEF TypeInv, TypeOK
  <2> QED
    BY <2>1 DEF Begin
<1>e. ASSUME NEW ok \in BOOLEAN, Ends(k, ok, 0), locked' = locked,
             ok => tasks[k].req = "unsub"
      PROVE  IInv'
  <2>1. ~unlockedBy' =>
          \A i \in DOMAIN tasks \ {k} :
            (Current(tasks[i], socket) /\ link # "down") => tasks[i].req \in locked'
    BY <1>e, <1>u, <1>t DEF LockHeld
  <2> QED
    BY <1>e, <1>z, <1>u, <2>1, EndsHolds
<1>1. CASE tasks[k].req # "unsub" /\ ~isAvailable
  BY <1>1, <1>e DEF Begin
<1>2. CASE tasks[k].req # "unsub" /\ isAvailable /\ Free(tasks[k].req)
  <2>1. TakesLock(k)
    BY <1>2 DEF Begin
  <2>2. Goes(k, "call")
    BY <2>1, <1>t, CallingIs DEF TakesLock
  <2>3. locked \subseteq locked' /\ locked' \subseteq Requests /\ tasks[k].req \in locked'
    BY <2>1, <1>2, <1>r, <1>u DEF TakesLock
  <2> QED
    BY <2>1, <2>2, <2>3, <1>2, <1>u, GoesHolds DEF TakesLock, Free, isAvailable
<1>3. CASE tasks[k].req # "unsub" /\ isAvailable /\ ~Free(tasks[k].req)
  <2>1. /\ tasks' = [tasks EXCEPT ![k].pc = "wait"]
        /\ UNCHANGED <<state, daemon, locked, subscribed, nodes, missed>>
    BY <1>3 DEF Begin
  <2>2. Goes(k, "wait")
    BY <2>1, <1>t, WaitingIs
  <2> QED
    BY <2>1, <2>2, <1>3, <1>r, <1>u, GoesHolds
<1>4. CASE tasks[k].req = "unsub" /\ subscribed = 0
  <2>0. ~(subscribed > 0)
    BY <1>4
  <2>1. Ends(k, TRUE, 0) /\ locked' = locked
    BY <1>4, <2>0, Zenon DEF Begin
  <2> QED
    BY <2>1, <1>4, <1>e
<1>5. CASE tasks[k].req = "unsub" /\ subscribed # 0
  <2>1. /\ Calling(k) /\ locked' = locked
        /\ UNCHANGED <<state, daemon, subscribed, nodes, missed>>
    BY <1>5 DEF Begin
  <2>2. Goes(k, "call")
    BY <2>1, <1>t, CallingIs
  <2>3. tasks[k].req \notin Requests
    BY <1>5 DEF Requests
  <2> QED
    BY <2>1, <2>2, <2>3, <1>u, GoesHolds
<1> QED
  BY <1>1, <1>2, <1>3, <1>4, <1>5

LEMMA WaitOverHolds ==
  ASSUME IInv, NEW k \in DOMAIN tasks, WaitOver(k)
  PROVE  IInv'
<1>t. TypeInv /\ LockHeld
  BY DEF IInv
<1>z. 0 \in 0 .. version
  BY <1>t, SubscribedIs
<1>u. /\ UNCHANGED <<link, socket, version, events, unlockedBy>>
      /\ unlockedBy \in BOOLEAN /\ locked \subseteq Requests
      /\ tasks[k].pc # "call"
  BY <1>t DEF WaitOver, TypeInv, TypeOK
<1>1. CASE Ends(k, FALSE, 0) /\ locked' = locked
  <2>1. ~unlockedBy' =>
          \A i \in DOMAIN tasks \ {k} :
            (Current(tasks[i], socket) /\ link # "down") => tasks[i].req \in locked'
    BY <1>1, <1>u, <1>t DEF LockHeld
  <2> QED
    BY <1>1, <1>z, <1>u, <2>1, EndsHolds
<1>2. CASE Free(tasks[k].req) /\ isAvailable /\ TakesLock(k)
  <2>1. Goes(k, "call")
    BY <1>2, <1>t, CallingIs DEF TakesLock
  <2>2. tasks[k].req \in Requests
    BY DEF WaitOver, IInv, WaitsForLock
  <2>3. locked \subseteq locked' /\ locked' \subseteq Requests /\ tasks[k].req \in locked'
    BY <1>2, <2>2, <1>u DEF TakesLock
  <2> QED
    BY <2>1, <2>3, <1>2, <1>u, GoesHolds DEF TakesLock, Free, isAvailable
<1> QED
  BY <1>1, <1>2 DEF WaitOver

LEMMA ReplyHolds ==
  ASSUME IInv, NEW k \in DOMAIN tasks, Reply(k)
  PROVE  IInv'
<1>t. TypeInv /\ LockHeld /\ OneCallPerRequest
  BY DEF IInv
<1>u. /\ UNCHANGED <<link, socket, version, events, unlockedBy>>
      /\ unlockedBy \in BOOLEAN
      /\ tasks[k].pc = "call" /\ tasks[k].socket = socket
      /\ locked' = locked \ {tasks[k].req}
  BY <1>t DEF Reply, TypeInv, TypeOK
<1>1. PICK data \in tasks[k].since .. version : Ends(k, TRUE, data)
  BY DEF Reply
<1>2. data \in 0 .. version
  <2>1. tasks[k].since \in 0 .. version /\ version \in Nat
    BY <1>t, SubscribedIs DEF TypeInv, TypeOK
  <2> QED
    BY <2>1
<1>3. tasks[k].req = "nodes" => Pulling(tasks[k], socket)
  BY <1>u DEF Pulling, Current, Requests
<1>4. ~unlockedBy' =>
        \A i \in DOMAIN tasks \ {k} :
          (Current(tasks[i], socket) /\ link # "down") => tasks[i].req \in locked'
  BY <1>u, <1>t DEF LockHeld, OneCallPerRequest, Current
<1> QED
  BY <1>u, <1>1, <1>2, <1>3, <1>4, EndsHolds

LEMMA TimeoutHolds ==
  ASSUME IInv, NEW k \in DOMAIN tasks, Timeout(k)
  PROVE  IInv'
<1>t. TypeInv /\ LockHeld /\ OneCallPerRequest
  BY DEF IInv
<1>u. /\ UNCHANGED <<link, socket, version, events>>
      /\ unlockedBy \in BOOLEAN
      /\ tasks[k].pc = "call"
      /\ locked' = locked \ {tasks[k].req}
      /\ unlockedBy' = (unlockedBy \/ (/\ tasks[k].socket # socket
                                       /\ tasks[k].req \in locked))
      /\ Ends(k, FALSE, 0)
  BY <1>t DEF Timeout, TypeInv, TypeOK
<1>1. unlockedBy' \in BOOLEAN /\ (~unlockedBy' => ~unlockedBy)
  BY <1>u
<1>2. 0 \in 0 .. version
  BY <1>t, SubscribedIs
<1>4. ~unlockedBy' =>
        \A i \in DOMAIN tasks \ {k} :
          (Current(tasks[i], socket) /\ link # "down") => tasks[i].req \in locked'
  <2> SUFFICES ASSUME ~unlockedBy', NEW i \in DOMAIN tasks \ {k},
                      Current(tasks[i], socket), link # "down"
               PROVE  tasks[i].req \in locked'
    OBVIOUS
  <2>1. tasks[i].req \in locked
    BY <1>1, <1>t DEF LockHeld
  <2>2. CASE tasks[k].socket = socket
    BY <2>1, <2>2, <1>1, <1>u, <1>t DEF OneCallPerRequest, Current
  <2>3. CASE tasks[k].socket # socket
    BY <2>1, <2>3, <1>u
  <2> QED
    BY <2>2, <2>3
<1> QED
  BY <1>u, <1>1, <1>2, <1>4, EndsHolds

-------------------------------------------------------------------------------
(* The other steps.                                                        *)

(* A step that adds a task, or none, and leaves the connection as it is. *)
LEMMA AddsHolds ==
  ASSUME IInv, Rest(tasks, tasks', 0),
         UNCHANGED <<state, socket, link, locked, subscribed, version, nodes, missed,
                     unlockedBy>>,
         daemon' \in BOOLEAN, events' \in Nat,
         events' = events \/ \E j \in DOMAIN tasks' : ToPull(tasks'[j])
  PROVE  IInv'
<1>t. TypeInv /\ LockHeld /\ WaitsForLock
  BY DEF IInv
<1>0. 0 \notin DOMAIN tasks
  BY <1>t DEF TypeInv
<1>1. /\ tasks' \in Seq(TaskType)
      /\ \A j \in DOMAIN tasks' :
           /\ tasks'[j].job \in Jobs
           /\ tasks'[j].req \in Requests \cup {"unsub"}
           /\ tasks'[j].pc \in {"begin", "wait", "call"}
           /\ tasks'[j].socket \in 0 .. socket'
           /\ tasks'[j].since \in 0 .. version'
           /\ tasks'[j].req = "unsub" <=> tasks'[j].job = "register"
  BY <1>t, SubscribedIs, TypesOfTasks
<1>2. TypeInv'
  BY <1>1, <1>t DEF TypeInv, TypeOK, Jobs
<1>3. OneCallPerRequest' /\ LockHeld'
  <2>1. \A i \in DOMAIN tasks \ {0} :
          (Current(tasks[i], socket) /\ link' # "down") => tasks[i].req \in locked' \/ unlockedBy
    BY <1>t DEF LockHeld
  <2> QED
    BY <2>1, LocksKept
<1>4. SubscribedLate'
  BY DEF IInv, SubscribedLate
<1>5. PullComes'
  <2>1. CASE events' = events
    BY <2>1, <1>0, PullKept DEF Listening
  <2>2. CASE \E j \in DOMAIN tasks' : ToPull(tasks'[j])
    BY <2>2 DEF PullComes, AllPulled
  <2> QED
    BY <2>1, <2>2
<1>6. WaitsForLock'
  BY <1>t, WaitsKept
<1> QED
  BY <1>2, <1>3, <1>4, <1>5, <1>6 DEF IInv

(* Appending a fresh task. *)
LEMMA AppendIs ==
  ASSUME TypeInv, NEW t \in TaskType, Fresh(t), tasks' = Append(tasks, t)
  PROVE  /\ Rest(tasks, tasks', 0)
         /\ \E j \in DOMAIN tasks' : tasks'[j] = t
<1>1. tasks \in Seq(TaskType)
  BY DEF TypeInv
<1>2. Rest(tasks, tasks, 0)
  BY <1>1, RestSame
<1> QED
  BY <1>1, <1>2, RestAppended

LEMMA FreshOthers ==
  /\ Fresh(ProviderList) /\ ProviderList \in TaskType
  /\ Fresh(RosNodes) /\ RosNodes \in TaskType /\ ToPull(RosNodes)
  /\ Fresh(Registration) /\ Registration \in TaskType
<1>1. /\ {"list", "nodes", "register"} \subseteq Jobs
      /\ {"hosts", "nodes", "unsub"} \subseteq Requests \cup {"unsub"}
  BY DEF Jobs, Requests
<1>2. Fresh(ProviderList) /\ ProviderList \in TaskType
  BY <1>1, FreshTask DEF ProviderList
<1>3. Fresh(RosNodes) /\ RosNodes \in TaskType /\ ToPull(RosNodes)
  BY <1>1, FreshTask DEF RosNodes, ToPull
<1>4. Fresh(Registration) /\ Registration \in TaskType
  BY <1>1, FreshTask DEF Registration
<1> QED
  BY <1>2, <1>3, <1>4

(* The connection opens, closes or fails; what is under way goes on. *)
LEMMA ConnectionHolds ==
  ASSUME IInv, Connecting \/ OnOpen \/ OnError \/ OnClose \/ Close
  PROVE  IInv'
<1>t. TypeInv /\ WaitsForLock /\ SubscribedLate
  BY DEF IInv
<1>s. socket \in Nat /\ version \in Nat /\ subscribed \in 0 .. socket
  BY <1>t, SubscribedIs
<1>r. Rest(tasks, tasks, 0)
  BY <1>t, RestSame DEF TypeInv
<1>1. CASE Connecting
  <2>1. /\ socket' = socket + 1 /\ link' = "trying" /\ state' = "connecting"
        /\ socket < MaxSockets
        /\ UNCHANGED <<daemon, locked, tasks, subscribed, version, events, nodes,
                       missed, unlockedBy>>
    BY <1>1 DEF Connecting
  <2>2. socket' \in 0 .. MaxSockets /\ subscribed' \in 0 .. socket'
    BY <2>1, <1>s, BoundsAreNumbers
  <2>3. \A j \in DOMAIN tasks' : tasks'[j].socket \in 0 .. socket'
    <3>1. \A j \in DOMAIN tasks : tasks[j].socket \in 0 .. socket
      BY <1>t DEF TypeInv, TypeOK
    <3> QED
      BY <3>1, <2>1, <1>s
  <2>4. TypeInv'
    BY <2>1, <2>2, <2>3, <1>t DEF TypeInv, TypeOK, States
  <2>5. \A j \in DOMAIN tasks' : tasks'[j].socket # socket'
    <3>1. \A j \in DOMAIN tasks : tasks[j].socket \in 0 .. socket
      BY <1>t DEF TypeInv, TypeOK
    <3> QED
      BY <3>1, <2>1, <1>s
  <2>6. OneCallPerRequest' /\ LockHeld'
    BY <2>5 DEF OneCallPerRequest, LockHeld, Current
  <2>7. SubscribedLate' /\ PullComes' /\ WaitsForLock'
    <3>1. subscribed' < socket'
      BY <2>1, <1>s
    <3>2. SubscribedLate'
      BY <2>1, <3>1 DEF SubscribedLate
    <3>3. PullComes'
      BY <2>1 DEF PullComes, Listening
    <3> QED
      BY <2>1, <3>2, <3>3, <1>t DEF WaitsForLock
  <2> QED
    BY <2>4, <2>6, <2>7 DEF IInv
<1>2. CASE OnOpen
  <2>1. /\ link = "trying" /\ link' = "open" /\ daemon' = FALSE
        /\ state' = "connected to server" /\ tasks' = Append(tasks, Registration)
        /\ UNCHANGED <<socket, locked, subscribed, version, events, nodes, missed,
                       unlockedBy>>
    BY <1>2 DEF OnOpen
  <2>2. Rest(tasks, tasks', 0)
    BY <2>1, <1>t, FreshOthers, AppendIs
  <2>3. /\ tasks' \in Seq(TaskType)
        /\ \A j \in DOMAIN tasks' :
             /\ tasks'[j].job \in Jobs
             /\ tasks'[j].req \in Requests \cup {"unsub"}
             /\ tasks'[j].pc \in {"begin", "wait", "call"}
             /\ tasks'[j].socket \in 0 .. socket'
             /\ tasks'[j].since \in 0 .. version'
             /\ tasks'[j].req = "unsub" <=> tasks'[j].job = "register"
    <3>1. /\ socket' \in Nat /\ socket <= socket'
          /\ version' \in Nat /\ version <= version'
      <4>1. socket' = socket /\ version' = version
        BY <2>1
      <4> QED
        BY <4>1, <1>s
    <3> QED
      BY <3>1, <2>2, <1>t, TypesOfTasks
  <2>4. TypeInv'
    BY <2>1, <2>3, <1>t DEF TypeInv, TypeOK, States, Jobs
  <2>5. ~unlockedBy' =>
          \A i \in DOMAIN tasks \ {0} :
            (Current(tasks[i], socket) /\ link' # "down") => tasks[i].req \in locked'
    BY <2>1 DEF IInv, LockHeld
  <2>6. OneCallPerRequest' /\ LockHeld'
    BY <2>1, <2>2, <2>5, LocksKept
  <2>7. SubscribedLate' /\ PullComes'
    <3>1. subscribed # socket
      <4>1. subscribed < socket
        BY <2>1, <1>t DEF SubscribedLate
      <4> QED
        BY <4>1, <1>s
    <3>2. PullComes'
      BY <2>1, <3>1 DEF PullComes, Listening
    <3>3. SubscribedLate'
      BY <2>1 DEF SubscribedLate
    <3> QED
      BY <3>2, <3>3
  <2>8. WaitsForLock'
    BY <2>2, <1>t, WaitsKept
  <2> QED
    BY <2>4, <2>6, <2>7, <2>8 DEF IInv
<1>3. CASE OnError \/ OnClose \/ Close
  <2>1. /\ link' \in {"down", "closing"} /\ state' \in {"errored", "closed"}
        /\ locked' \subseteq locked /\ events' \in Nat
        /\ link # "down"
        /\ link' # "down" => locked' = locked
        /\ UNCHANGED <<socket, daemon, tasks, subscribed, version, nodes, missed,
                       unlockedBy>>
    BY <1>3, <1>t DEF OnError, OnClose, Close, TypeInv, TypeOK
  <2>2. TypeInv'
    BY <2>1, <1>t DEF TypeInv, TypeOK, States
  <2>3. OneCallPerRequest' /\ LockHeld'
    BY <2>1 DEF IInv, OneCallPerRequest, LockHeld
  <2>4. SubscribedLate' /\ PullComes' /\ WaitsForLock'
    BY <2>1, <1>t DEF SubscribedLate, PullComes, Listening, WaitsForLock
  <2> QED
    BY <2>2, <2>3, <2>4 DEF IInv
<1> QED
  BY <1>1, <1>2, <1>3

LEMMA NodesChangeHolds ==
  ASSUME IInv, NodesChange
  PROVE  IInv'
<1>t. TypeInv /\ WaitsForLock /\ SubscribedLate
  BY DEF IInv
<1>s. version \in Nat /\ events \in Nat
  BY <1>t, SubscribedIs DEF TypeInv, TypeOK
<1>1. /\ version < MaxChanges /\ version' = version + 1
      /\ \/ events' = events + 1 /\ missed' = missed
         \/ events' = events /\ missed' = version'
         \/ /\ ~(link = "open" /\ subscribed = socket)
            /\ events' = events /\ missed' = missed
      /\ UNCHANGED <<state, link, socket, daemon, locked, tasks, subscribed, nodes,
                     unlockedBy>>
  BY DEF NodesChange
<1>2. /\ version' \in 1 .. MaxChanges /\ events' \in Nat
      /\ \A n \in 0 .. version : n \in 0 .. version'
  BY <1>1, <1>s, BoundsAreNumbers
<1>3. \A j \in DOMAIN tasks : tasks[j].since \in 0 .. version'
  BY <1>2, <1>t DEF TypeInv, TypeOK
<1>4. nodes' \in 0 .. version' /\ missed' \in 0 .. version'
  BY <1>1, <1>2, <1>t DEF TypeInv, TypeOK
<1>5. TypeInv'
  BY <1>1, <1>2, <1>3, <1>4, <1>t DEF TypeInv, TypeOK
<1>6. OneCallPerRequest' /\ LockHeld' /\ SubscribedLate' /\ WaitsForLock'
  BY <1>1 DEF IInv, OneCallPerRequest, LockHeld, SubscribedLate, WaitsForLock
<1>7. PullComes'
  BY <1>1, <1>s DEF PullComes, Listening, AllPulled
<1> QED
  BY <1>5, <1>6, <1>7 DEF IInv

LEMMA NextHolds == IInv /\ [Next]_vars => IInv'
<1> SUFFICES ASSUME IInv, [Next]_vars PROVE IInv'
  OBVIOUS
<1>t. TypeInv
  BY DEF IInv
<1>e. events \in Nat /\ daemon \in BOOLEAN
  BY <1>t DEF TypeInv, TypeOK
<1>r. Rest(tasks, tasks, 0)
  BY <1>t, RestSame DEF TypeInv
<1>1. CASE Connecting \/ OnOpen \/ OnError \/ OnClose \/ Close
  BY <1>1, ConnectionHolds
<1>2. CASE NodesChange
  BY <1>2, NodesChangeHolds
<1>3. CASE NodesChanged
  <2>1. /\ tasks' = Append(tasks, RosNodes) /\ events > 0 /\ events' = events - 1
        /\ UNCHANGED <<state, link, socket, daemon, locked, subscribed, version,
                       nodes, missed, unlockedBy>>
    BY <1>3 DEF NodesChanged
  <2>2. Rest(tasks, tasks', 0) /\ \E j \in DOMAIN tasks' : tasks'[j] = RosNodes
    BY <2>1, <1>t, FreshOthers, AppendIs
  <2>3. events' \in Nat
    BY <2>1, <1>e
  <2> QED
    BY <2>1, <2>2, <2>3, <1>e, FreshOthers, AddsHolds
<1>4. CASE DaemonReady
  <2>1. Rest(tasks, tasks', 0)
    BY <1>4, <1>t, FreshDaemonInit, AppendIs DEF DaemonReady
  <2> QED
    BY <2>1, <1>4, <1>e, AddsHolds DEF DaemonReady
<1>5. CASE DaemonEnds
  <2>1. Rest(tasks, tasks', 0)
    BY <1>5, <1>r DEF DaemonEnds
  <2> QED
    BY <2>1, <1>5, <1>e, AddsHolds DEF DaemonEnds
<1>6. CASE HostsChanged
  <2>1. Rest(tasks, tasks', 0)
    BY <1>6, <1>t, FreshOthers, AppendIs DEF HostsChanged
  <2> QED
    BY <2>1, <1>6, <1>e, AddsHolds DEF HostsChanged
<1>7. CASE Refresh
  <2>1. Rest(tasks, tasks', 0)
    BY <1>7, <1>t, FreshOthers, AppendIs DEF Refresh
  <2> QED
    BY <2>1, <1>7, <1>e, AddsHolds DEF Refresh
<1>8. ASSUME NEW k \in DOMAIN tasks, Step(k) PROVE IInv'
  BY <1>8, BeginHolds, WaitOverHolds, ReplyHolds, TimeoutHolds DEF Step
<1>9. CASE UNCHANGED vars
  BY <1>9 DEF vars, IInv, TypeInv, TypeOK, WaitsForLock, OneCallPerRequest, LockHeld,
     SubscribedLate, PullComes, Listening, AllPulled
<1> QED
  BY <1>1, <1>2, <1>3, <1>4, <1>5, <1>6, <1>7, <1>8, <1>9 DEF Next

LEMMA Invariance == Spec => []IInv
BY InitHolds, NextHolds, PTL DEF Spec

-------------------------------------------------------------------------------
(* The theorems.                                                           *)

(* The types of the provider's state (Provider.ts), and the ranges of its    *)
(* counters.                                                                 *)
THEOREM TypeCorrect == Spec => []TypeOK
<1>1. IInv => TypeOK
  BY DEF IInv, TypeInv
<1> QED
  BY <1>1, Invariance, PTL

(* lockRequest: whatever events, clicks and losses of the connection there    *)
(* are, no request is under way twice over one socket, unless a call of an    *)
(* earlier socket ended late and took the lock away.                          *)
THEOREM OneCall == Spec => []OneCallPerRequest
<1>1. IInv => OneCallPerRequest
  BY DEF IInv
<1> QED
  BY <1>1, Invariance, PTL

(* updateRosNodes: once nothing is under way the provider has the nodes of    *)
(* the host, or its last pull failed after their last change, or the event    *)
(* about that change was lost.                                                *)
THEOREM NodesArrive == Spec => []NodesConverge
<1>1. IInv => NodesConverge
  <2> SUFFICES ASSUME IInv, tasks = <<>>, events = 0, link = "open",
                      subscribed = socket, ~unlockedBy
               PROVE  nodes = version \/ missed = version
    BY DEF NodesConverge
  <2>1. DOMAIN tasks = {}
    OBVIOUS
  <2>2. AllPulled
    BY DEF IInv, PullComes, Listening
  <2> QED
    BY <2>1, <2>2 DEF AllPulled
<1> QED
  BY <1>1, Invariance, PTL

===============================================================================
