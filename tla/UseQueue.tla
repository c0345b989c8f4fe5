------------------------------- MODULE UseQueue -------------------------------
(***************************************************************************)
(* The hook useQueue (hooks/useQueue.ts): a list of items that is worked   *)
(* off one by one.  The hook keeps its data twice, in refs that change at  *)
(* once and in React state that a component sees at its next rendering.    *)
(* A record of this module holds the refs; the rendered index is a         *)
(* variable of the component that uses the hook (NodeQueue).               *)
(* Progress figures and the wording of a status are left out.              *)
(***************************************************************************)
EXTENDS Integers, Sequences

CONSTANT NoItem    \* what getAt returns outside of the list (null)

\* The refs queueRef, currentIndexRef (-1 while idle), statusForIndexRef, and
\* the items of resultStatus.
Idle == [items |-> <<>>, index |-> -1, statusFor |-> -1, results |-> <<>>]

\* update(): appends, and starts an idle queue.
Update(q, list) ==
  [q EXCEPT !.items = @ \o list,
            !.index = IF list # <<>> /\ @ = -1 THEN 0 ELSE @]

\* getAt(): items count from 0.
GetAt(q, i) == IF i \in 0 .. Len(q.items) - 1 THEN q.items[i + 1] ELSE NoItem

\* What has() looks at: the current item and all after it.
Pending(q) ==
  {q.items[k] : k \in {j \in 1 .. Len(q.items) : j > q.index}}

\* Only one status per index advances the queue, none while it is idle.
Advances(q) == q.index >= 0 /\ q.statusFor # q.index

\* addStatus(): the status counts for the item at the current index, whatever
\* item it was reported for.
AddStatus(q, item) ==
  IF Advances(q)
  THEN [q EXCEPT !.index = @ + 1, !.statusFor = q.index,
                 !.results = Append(@, item)]
  ELSE q

===============================================================================
