------------------------- MODULE WatchRegistryProofs -------------------------
(***************************************************************************)
(* Proofs about the registry of observed files, for any number of threads, *)
(* files and targets: its state keeps its types, references belong to the  *)
(* callers that were granted them, counts are the references of the files, *)
(* no watch is left behind, and a watch that the registry believes in is   *)
(* there, unless another thread had decided to take it before it was       *)
(* needed again.                                                           *)
(***************************************************************************)
EXTENDS WatchRegistry, FiniteSetTheorems, WellFoundedInduction, TLAPS

(* Thread t has to tell watchdog to schedule target x, or learned from     *)
(* watchdog and has to note it.                                            *)
Pending(t, x) ==
    \/ place[t] # "idle" /\ x \in work[t].make
    \/ place[t] \in {"scheduled", "refused"} /\ work[t].at = x

(* Thread t is about to undo the watch of target x, or to find out that it *)
(* has to.                                                                 *)
Undoing(t, o, x) ==
    place[t] \in {"free", "scheduled", "obsolete"} /\ work[t].via = o /\ work[t].at = x

(* A generation that is still worked on was given to one call.             *)
Generations ==
    /\ \A t \in Threads : \A x \in Targets : Pending(t, x) => work[t].gen <= generation
    /\ \A x \in Targets : entries[x] # NoEntry => entries[x].gen <= generation
    /\ \A t, u \in Threads : \A x, y \in Targets :
          Pending(t, x) /\ Pending(u, y) /\ work[t].gen = work[u].gen => t = u

(* The entries are empty while stop() runs and until an observer is made.  *)
EmptyWhileStopped ==
    /\ stopping \in {"clear", "join"} \/ stopped => \A x \in Targets : entries[x] = NoEntry
    /\ stopped => stopping = "done"

(* An entry without a watch is still worked on by the call that made it.   *)
EntryPending ==
    \A x \in Targets : entries[x] # NoEntry /\ ~entries[x].watch =>
        \E t \in Threads : Pending(t, x) /\ OwnEntry(t, x) /\ work[t].via = observer

(* If that call was refused, a watch there is one that is being undone.    *)
RefusedUnwatched ==
    \A t \in Threads :
        place[t] = "refused" /\ OwnEntry(t, work[t].at) /\ work[t].via = observer
            /\ work[t].at \in watched[observer]
        => \E u \in Threads : Undoing(u, observer, work[t].at)

(* NoOrphanWatch, with the watch noted in the entry.                       *)
NoOrphan ==
    \A o \in Observers : \A x \in watched[o] :
        \/ o = observer /\ entries[x] # NoEntry /\ entries[x].watch
        \/ o = observer /\ stopping = "clear"
        \/ \E t \in Threads : InHand(t, o, x)

(* No thread is about to unschedule a target with an entry, but for races. *)
NoThreat ==
    \A x \in Targets : entries[x] # NoEntry /\ ~entries[x].raced => ~AboutToUnschedule(observer, x)

(* What was scheduled for an entry is watched until it is noted.           *)
ScheduledWatched ==
    \A t \in Threads :
        LET x == work[t].at
        IN  place[t] = "scheduled" /\ work[t].via = observer /\ OwnEntry(t, x)
                /\ ~entries[x].raced
            => x \in watched[observer]

(* A watch that an entry has is watched.                                   *)
NotedWatched ==
    \A x \in Targets : entries[x] # NoEntry /\ entries[x].watch /\ ~entries[x].raced
        => x \in watched[observer]

IInv == /\ TypeOK /\ Generations /\ EmptyWhileStopped /\ EntryPending /\ RefusedUnwatched
        /\ NoOrphan /\ NoThreat /\ ScheduledWatched /\ NotedWatched
-----------------------------------------------------------------------------
(* Operators.                                                              *)

Table == [Targets -> Entry \cup {NoEntry}]

(* How many directories a target covers is a number.                       *)
LEMMA CoveredNat ==
    ASSUME NEW D \in SUBSET Dirs, NEW x
    PROVE  IsFiniteSet(Covered(D, x)) /\ Cardinality(Covered(D, x)) \in Nat
<1>1. IsFiniteSet(Covered(D, x))
    BY TargetsAssumption, FS_Subset DEF Covered
<1> QED BY <1>1, FS_CardinalityType

(* So is the number of references to them.                                 *)
LEMMA CoveredCount ==
    ASSUME NEW D \in SUBSET Dirs, NEW x, NEW n \in Nat
    PROVE  n * Cardinality(Covered(D, x)) \in Nat
BY CoveredNat

(* Reserving keeps every entry but for its count, and gives the new ones   *)
(* the next generation.                                                    *)
Reserves(es, new, o) ==
    /\ \A x \in Targets : es[x] # NoEntry =>
          /\ new[x] # NoEntry /\ new[x].gen = es[x].gen
          /\ new[x].watch = es[x].watch /\ new[x].raced = es[x].raced
    /\ \A x \in Targets : es[x] = NoEntry /\ new[x] # NoEntry =>
          /\ new[x].gen = generation + 1 /\ new[x].watch = FALSE
          /\ new[x].raced = AboutToUnschedule(o, x)

LEMMA Reserving ==
    ASSUME NEW es \in Table, NEW D \in SUBSET Dirs, NEW n \in Nat, NEW o,
           generation \in Nat
    PROVE  Reserve(es, D, n, o) \in Table /\ Reserves(es, Reserve(es, D, n, o), o)
<1> DEFINE r == Reserve(es, D, n, o)
<1>1. ASSUME NEW x \in Targets
      PROVE  /\ r[x] \in Entry \cup {NoEntry}
             /\ es[x] # NoEntry =>
                    r[x] # NoEntry /\ r[x].gen = es[x].gen /\ r[x].watch = es[x].watch
                    /\ r[x].raced = es[x].raced
             /\ es[x] = NoEntry /\ r[x] # NoEntry =>
                    r[x].gen = generation + 1 /\ r[x].watch = FALSE
                    /\ r[x].raced = AboutToUnschedule(o, x)
    <2> DEFINE k == n * Cardinality(Covered(D, x))
    <2>1. k \in Nat
        BY CoveredCount
    <2>2. r[x] = IF k = 0 THEN es[x]
                 ELSE IF es[x] # NoEntry THEN [es[x] EXCEPT !.count = @ + k]
                 ELSE [count |-> k, gen |-> generation + 1, watch |-> FALSE,
                       raced |-> AboutToUnschedule(o, x)]
        BY DEF Reserve
    <2> HIDE DEF k, r
    <2>3. CASE k = 0
        BY <2>2, <2>3 DEF Table
    <2>4. CASE k # 0 /\ es[x] # NoEntry
        <3>1. es[x] \in Entry
            BY <2>4 DEF Table
        <3>2. r[x] = [es[x] EXCEPT !.count = @ + k]
            BY <2>2, <2>4
        <3>3. r[x] \in Entry /\ r[x].gen = es[x].gen /\ r[x].watch = es[x].watch
              /\ r[x].raced = es[x].raced
            BY <2>1, <3>1, <3>2 DEF Entry
        <3> QED BY <2>4, <3>3, NoEntryAssumption
    <2>5. CASE k # 0 /\ es[x] = NoEntry
        <3>1. r[x] = [count |-> k, gen |-> generation + 1, watch |-> FALSE,
                      raced |-> AboutToUnschedule(o, x)]
            BY <2>2, <2>5
        <3>2. AboutToUnschedule(o, x) \in BOOLEAN
            BY DEF AboutToUnschedule
        <3>3. r[x] \in Entry
            BY <2>1, <2>5, <3>1, <3>2 DEF Entry
        <3>4. r[x].gen = generation + 1 /\ r[x].watch = FALSE
              /\ r[x].raced = AboutToUnschedule(o, x)
            BY <3>1
        <3> QED BY <2>5, <3>3, <3>4
    <2> QED BY <2>3, <2>4, <2>5
<1>2. r \in Table
    BY <1>1 DEF Table, Reserve
<1> QED BY <1>1, <1>2 DEF Reserves

(* Releasing adds no entry, and keeps what it leaves but for the count.    *)
Releases(es, new) ==
    \A x \in Targets : new[x] # NoEntry =>
        /\ es[x] # NoEntry /\ new[x].gen = es[x].gen
        /\ new[x].watch = es[x].watch /\ new[x].raced = es[x].raced

LEMMA Releasing ==
    ASSUME NEW es \in Table, NEW D \in SUBSET Dirs, NEW n \in Nat
    PROVE  Release(es, D, n) \in Table /\ Releases(es, Release(es, D, n))
<1> DEFINE r == Release(es, D, n)
<1>1. ASSUME NEW x \in Targets
      PROVE  /\ r[x] \in Entry \cup {NoEntry}
             /\ r[x] # NoEntry =>
                    es[x] # NoEntry /\ r[x].gen = es[x].gen /\ r[x].watch = es[x].watch
                    /\ r[x].raced = es[x].raced
    <2> DEFINE k == n * Cardinality(Covered(D, x))
    <2>1. k \in Nat
        BY CoveredCount
    <2>2. r[x] = IF es[x] = NoEntry \/ k = 0 THEN es[x]
                 ELSE IF es[x].count > k THEN [es[x] EXCEPT !.count = @ - k] ELSE NoEntry
        BY DEF Release
    <2> HIDE DEF k, r
    <2>3. CASE es[x] = NoEntry \/ k = 0
        BY <2>2, <2>3 DEF Table
    <2>4. CASE es[x] # NoEntry /\ k # 0 /\ es[x].count > k
        <3>1. es[x] \in Entry
            BY <2>4 DEF Table
        <3>2. r[x] = [es[x] EXCEPT !.count = @ - k]
            BY <2>2, <2>4
        <3>3. r[x] \in Entry /\ r[x].gen = es[x].gen /\ r[x].watch = es[x].watch
              /\ r[x].raced = es[x].raced
            BY <2>1, <2>4, <3>1, <3>2 DEF Entry
        <3> QED BY <2>4, <3>3
    <2>5. CASE es[x] # NoEntry /\ k # 0 /\ ~(es[x].count > k)
        BY <2>2, <2>5
    <2> QED BY <2>3, <2>4, <2>5
<1>2. r \in Table
    BY <1>1 DEF Table, Release
<1> QED BY <1>1, <1>2 DEF Releases
-----------------------------------------------------------------------------
(* Type correctness.                                                       *)

LEMMA WorkUpdates ==
    ASSUME NEW w \in Work, NEW D \in SUBSET Targets, NEW o \in Observers
    PROVE  /\ [w EXCEPT !.kind = "other", !.via = o, !.drop = D, !.make = {},
                        !.failed = FALSE] \in Work
           /\ [w EXCEPT !.kind = "other", !.via = o, !.drop = D] \in Work
BY DEF Work

LEMMA NoWorkIsWork == NoWork \in Work
BY TargetsAssumption DEF NoWork, Work, Observers

LEMMA FewerTyped ==
    ASSUME TypeOK, NEW f \in Files
    PROVE  FewerRefs(f) \in [Files -> Nat] /\ DirsOfFewer(f) \in [Files -> SUBSET Dirs]
BY DEF TypeOK, FewerRefs, DirsOfFewer

(* The state of the registry keeps its types: counts of entries stay       *)
(* positive, generations stay within their bound.                          *)
LEMMA TypeStep == TypeOK /\ [Next]_vars => TypeOK'
<1> SUFFICES ASSUME TypeOK, [Next]_vars PROVE TypeOK'
    OBVIOUS
<1> USE BoundsAssumption, TargetsAssumption DEF Places
<1>0. entries \in Table /\ generation \in Nat /\ observer \in Observers
      /\ \A t \in Threads : work[t] \in Work
    BY DEF TypeOK, Table
<1>p. PreparedObserver \in Observers
    BY <1>0 DEF PreparedObserver, Observers
<1>1. ASSUME NEW t \in Callers, NEW f \in Files, AddFile(t, f) PROVE TypeOK'
    <2> DEFINE D  == IF fileRefs[f] > 0 THEN pathDirs[f] ELSE disk[f]
               es == Reserve(entries, D, 1, PreparedObserver)
               ms == Made(entries, es)
    <2>1. D \in SUBSET Dirs /\ t \in Threads
        BY <1>1 DEF TypeOK, Threads
    <2>2. es \in Table /\ ms \in SUBSET Targets
        BY <1>0, <2>1, Reserving DEF Made
    <2>3. work' \in [Threads -> Work]
        <3> HIDE DEF D, ms
        <3>1. [work[t] EXCEPT !.kind = "add", !.file = f, !.dirs = D, !.via = PreparedObserver,
                        !.gen = generation + 1, !.drop = {}, !.make = ms,
                        !.failed = FALSE] \in Work
            <4>1. work[t] \in Work /\ generation + 1 \in Nat
                BY <1>0, <2>1
            <4> QED BY <4>1, <1>p, <2>1, <2>2 DEF Work
        <3>2. work' = [work EXCEPT ![t] =
                [work[t] EXCEPT !.kind = "add", !.file = f, !.dirs = D,
                        !.via = PreparedObserver, !.gen = generation + 1, !.drop = {},
                        !.make = ms, !.failed = FALSE]]
            BY <1>1 DEF AddFile, D, ms
        <3> QED BY <2>1, <3>1, <3>2 DEF TypeOK
    <2>4. entries' \in Table
        BY <1>1, <2>2 DEF AddFile
    <2>5. fileRefs' \in [Files -> Nat] /\ pathDirs' \in [Files -> SUBSET Dirs]
        BY <1>1, <2>1 DEF AddFile, TypeOK
    <2>6. generation' \in 0..MaxGen
        BY <1>1 DEF AddFile, TypeOK
    <2> QED BY <1>1, <1>p, <2>1, <2>3, <2>4, <2>5, <2>6
            DEF AddFile, TypeOK, Table, diskVars
<1>2. ASSUME NEW t \in Callers, NEW f \in Files, AddFileRaises(t, f) PROVE TypeOK'
    BY <1>2, <1>p DEF AddFileRaises, TypeOK, diskVars, fileVars
<1>3. ASSUME NEW t \in Callers, NEW f \in Files, RemoveFile(t, f) PROVE TypeOK'
    <2> DEFINE es == Release(entries, pathDirs[f], 1)
    <2>1. pathDirs[f] \in SUBSET Dirs /\ t \in Threads
        BY DEF TypeOK, Threads
    <2>2. es \in Table /\ Dropped(entries, es) \in SUBSET Targets
        BY <1>0, <2>1, Releasing DEF Dropped
    <2>3. work' \in [Threads -> Work]
        <3>1. [work[t] EXCEPT !.kind = "other", !.via = observer, !.drop = Dropped(entries, es),
                              !.make = {}, !.failed = FALSE] \in Work
            BY <1>0, <2>1, <2>2, WorkUpdates
        <3> HIDE DEF es
        <3> QED BY <1>3, <2>1, <3>1 DEF RemoveFile, TypeOK, es
    <2>4. entries' \in Table
        BY <1>3, <2>2 DEF RemoveFile
    <2>5. fileRefs' \in [Files -> Nat] /\ pathDirs' \in [Files -> SUBSET Dirs]
        BY <1>3, FewerTyped DEF RemoveFile
    <2>6. held' \in [Files -> Nat]
        BY <1>3 DEF RemoveFile, TypeOK
    <2> QED BY <1>3, <2>1, <2>3, <2>4, <2>5, <2>6
            DEF RemoveFile, TypeOK, Table, diskVars, stopVars
<1>4. ASSUME NEW f \in Files, Dispatch(f) PROVE TypeOK'
    <2> DEFINE es == Reserve(entries, disk[f] \ pathDirs[f], fileRefs[f], observer)
               fs == Release(es, pathDirs[f] \ disk[f], fileRefs[f])
               ms == Made(entries, es)
               ds == Dropped(es, fs)
    <2>1. /\ pathDirs[f] \in SUBSET Dirs /\ disk[f] \in SUBSET Dirs /\ fileRefs[f] \in Nat
          /\ Dispatcher \in Threads
        BY DEF TypeOK, Threads
    <2>2. es \in Table /\ ms \in SUBSET Targets
        BY <1>0, <2>1, Reserving DEF Made
    <2> HIDE DEF es
    <2>3. fs \in Table /\ ds \in SUBSET Targets
        BY <2>1, <2>2, Releasing DEF Dropped
    <2>4. work' \in [Threads -> Work]
        <3> HIDE DEF ms, ds
        <3>1. [work[Dispatcher] EXCEPT !.kind = "other", !.via = observer, !.gen = generation + 1,
                        !.drop = ds, !.make = ms, !.failed = FALSE] \in Work
            <4>1. work[Dispatcher] \in Work /\ generation + 1 \in Nat
                BY <1>0, <2>1
            <4> QED BY <4>1, <1>0, <2>2, <2>3 DEF Work
        <3>2. work' = [work EXCEPT ![Dispatcher] =
                [work[Dispatcher] EXCEPT !.kind = "other", !.via = observer,
                        !.gen = generation + 1, !.drop = ds, !.make = ms, !.failed = FALSE]]
            BY <1>4 DEF Dispatch, es, ms, ds
        <3> QED BY <2>1, <3>1, <3>2 DEF TypeOK
    <2>5. entries' \in Table
        BY <1>4, <2>3 DEF Dispatch, es
    <2>6. pathDirs' \in [Files -> SUBSET Dirs] /\ generation' \in 0..MaxGen
        BY <1>4, <2>1 DEF Dispatch, TypeOK
    <2> QED BY <1>4, <2>1, <2>4, <2>5, <2>6 DEF Dispatch, TypeOK, Table, diskVars, stopVars
<1>5. ASSUME NEW f \in Files, Move(f) PROVE TypeOK'
    BY <1>5 DEF Move, TypeOK, fileVars, stopVars
<1>6. ASSUME NEW t \in Threads, Flush(t) PROVE TypeOK'
    <2>0. work[t].at \in Targets /\ work[t].via \in Observers /\ work[t].file \in Files
          /\ work[t].dirs \in SUBSET Dirs /\ work[t].kind \in {"add", "other"}
          /\ work[t].drop \in SUBSET Targets /\ work[t].make \in SUBSET Targets
        BY <1>0 DEF Work
    <2>1. CASE CheckReferenced(t)
        <3> PICK x \in work[t].drop :
                work' = [work EXCEPT ![t] = [@ EXCEPT !.drop = work[t].drop \ {x}, !.at = x]]
            BY <2>1 DEF CheckReferenced
        <3>1. [work[t] EXCEPT !.drop = work[t].drop \ {x}, !.at = x] \in Work
            BY <1>0, <2>0 DEF Work
        <3>2. place' \in [Threads -> Places]
            BY <2>1 DEF CheckReferenced, TypeOK
        <3> QED BY <2>1, <3>1, <3>2 DEF CheckReferenced, TypeOK, diskVars, fileVars, stopVars
    <2>2. CASE Unschedule(t)
        <3>1. watched' \in [Observers -> SUBSET Targets]
            BY <2>2, <2>0 DEF Unschedule, TypeOK
        <3> QED BY <2>2, <3>1 DEF Unschedule, TypeOK, diskVars, fileVars, stopVars
    <2>3. CASE Schedule(t)
        <3> PICK x \in work[t].make :
                /\ work' = [work EXCEPT ![t] = [@ EXCEPT !.make = work[t].make \ {x}, !.at = x]]
                /\ \/ /\ watched' = [watched EXCEPT ![work[t].via] = @ \cup {x}]
                      /\ place' = [place EXCEPT ![t] = "scheduled"]
                   \/ place' = [place EXCEPT ![t] = "refused"] /\ UNCHANGED watched
            BY <2>3 DEF Schedule
        <3>1. [work[t] EXCEPT !.make = work[t].make \ {x}, !.at = x] \in Work
            BY <1>0, <2>0 DEF Work
        <3>2. watched' \in [Observers -> SUBSET Targets]
            BY <2>0 DEF TypeOK
        <3>3. place' \in [Threads -> Places]
            BY DEF TypeOK
        <3> QED BY <2>3, <3>1, <3>2, <3>3 DEF Schedule, TypeOK, diskVars, fileVars, stopVars
    <2>4. CASE NoteWatch(t)
        <3>1. entries' \in Table
            <4> DEFINE x == work[t].at
            <4>1. entries[x] # NoEntry =>
                    /\ [entries[x] EXCEPT !.watch = TRUE] \in Entry
                    /\ [entries[x] EXCEPT !.raced = TRUE] \in Entry
                BY <1>0, <2>0 DEF Table, Entry
            <4>2. OwnEntry(t, x) => entries[x] # NoEntry
                BY DEF OwnEntry
            <4>3. \/ entries' = entries
                  \/ entries[x] # NoEntry /\ entries' = [entries EXCEPT ![x].watch = TRUE]
                  \/ entries[x] # NoEntry /\ entries' = [entries EXCEPT ![x].raced = TRUE]
                BY <2>4, <4>2 DEF NoteWatch
            <4> QED BY <1>0, <2>0, <4>1, <4>3 DEF Table
        <3> QED BY <2>4, <3>1 DEF NoteWatch, TypeOK, Table, diskVars, fileVars, stopVars
    <2>5. CASE NoteFailure(t)
        <3>1. [work[t] EXCEPT !.failed = TRUE] \in Work
            BY <1>0 DEF Work
        <3>2. work' \in [Threads -> Work]
            BY <2>5, <3>1 DEF NoteFailure, TypeOK
        <3>3. entries' \in Table /\ unbalanced' \subseteq Targets
            BY <2>5, <1>0, <2>0 DEF NoteFailure, Table, TypeOK
        <3>4. place' \in [Threads -> Places]
            BY <2>5 DEF NoteFailure, TypeOK
        <3> QED BY <2>5, <3>2, <3>3, <3>4
                DEF NoteFailure, TypeOK, Table, diskVars, fileVars, stopVars
    <2>6. CASE Granted(t)
        BY <2>6, <2>0, NoWorkIsWork DEF Granted, TypeOK, diskVars, fileVars, stopVars
    <2>7. CASE Rollback(t)
        <3> DEFINE es == Release(entries, work[t].dirs, 1)
        <3>1. es \in Table /\ Dropped(entries, es) \in SUBSET Targets
            BY <1>0, <2>0, Releasing DEF Dropped
        <3>2. work' \in [Threads -> Work]
            <4>1. [work[t] EXCEPT !.kind = "other", !.via = observer,
                                  !.drop = Dropped(entries, es)] \in Work
                BY <1>0, <3>1, WorkUpdates
            <4> HIDE DEF es
            <4> QED BY <2>7, <4>1 DEF Rollback, TypeOK, es
        <3>3. entries' \in Table
            BY <2>7, <3>1 DEF Rollback
        <3>4. fileRefs' \in [Files -> Nat] /\ pathDirs' \in [Files -> SUBSET Dirs]
            BY <2>7, <2>0, FewerTyped DEF Rollback
        <3>5. unbalanced' \subseteq Targets
            <4>1. \A d \in SymDiff(work[t].dirs, pathDirs[work[t].file]) : Target[d] \in Targets
                BY <2>0 DEF SymDiff, TypeOK
            <4> QED BY <2>7, <4>1 DEF Rollback, TypeOK
        <3> QED BY <2>7, <3>2, <3>3, <3>4, <3>5 DEF Rollback, TypeOK, Table, diskVars, stopVars
    <2>8. CASE Return(t)
        BY <2>8, NoWorkIsWork DEF Return, TypeOK, diskVars, fileVars, stopVars
    <2> QED BY <1>6, <2>1, <2>2, <2>3, <2>4, <2>5, <2>6, <2>7, <2>8 DEF Flush
<1>7. CASE StopBegins
    BY <1>7 DEF StopBegins, TypeOK, diskVars
<1>8. CASE UnscheduleAll
    BY <1>8 DEF UnscheduleAll, TypeOK, diskVars, fileVars
<1>9. CASE StopEnds
    BY <1>9 DEF StopEnds, TypeOK, diskVars, fileVars
<1>10. CASE UNCHANGED vars
    BY <1>10 DEF vars, TypeOK
<1> QED BY <1>1, <1>2, <1>3, <1>4, <1>5, <1>6, <1>7, <1>8, <1>9, <1>10 DEF Next

LEMMA TypeInit == Init => TypeOK
<1> SUFFICES ASSUME Init PROVE TypeOK
    OBVIOUS
<1>1. work \in [Threads -> Work] /\ entries \in [Targets -> Entry \cup {NoEntry}]
    BY NoWorkIsWork DEF Init
<1>2. watched \in [Observers -> SUBSET Targets] /\ observer \in Observers
    BY DEF Init, Observers
<1>3. fileRefs \in [Files -> Nat] /\ held \in [Files -> Nat]
      /\ pathDirs \in [Files -> SUBSET Dirs]
    BY DEF Init
<1>4. moves \in 0..MaxMoves /\ generation \in 0..MaxGen
    BY BoundsAssumption DEF Init
<1> QED BY <1>1, <1>2, <1>3, <1>4 DEF Init, TypeOK, Places

THEOREM TypeCorrect == Spec => []TypeOK
<1> QED BY TypeInit, TypeStep, PTL DEF Spec
-----------------------------------------------------------------------------
(* The inductive invariant.                                                *)

(* A section of a call that holds the lock and leaves work for its flush:  *)
(* entries becomes es by reservations, and fs by releases.                 *)
LockedSection(t, es, fs) ==
    /\ place[t] = "idle" \/ Flushed(t)
    /\ place' = [place EXCEPT ![t] = "flush"]
    /\ \A u \in Threads : u # t => work'[u] = work[u]
    /\ work'[t].via = observer'
    /\ work'[t].drop = Dropped(es, fs)
    /\ work'[t].make = Made(entries, es)
    /\ Made(entries, es) # {} => work'[t].gen = generation + 1
    /\ Reserves(entries, es, observer')
    /\ Releases(es, fs)
    /\ entries' = fs
    /\ watched' = watched
    /\ stopping' = stopping
    /\ generation' = IF Made(entries, es) = {} THEN generation ELSE generation + 1
    /\ stopping \in {"clear", "join"} \/ stopped' => \A x \in Targets : fs[x] = NoEntry
    /\ stopped' => stopping = "done"
    /\ \/ observer' = observer
       \/ stopping # "clear" /\ \A x \in Targets : entries[x] = NoEntry

LEMMA Section ==
    ASSUME IInv, NEW t \in Threads, NEW es, NEW fs, TypeOK', LockedSection(t, es, fs)
    PROVE  IInv'
<1> SUFFICES ASSUME
           place[t] = "idle" \/ Flushed(t),
           place' = [place EXCEPT ![t] = "flush"],
           \A u \in Threads : u # t => work'[u] = work[u],
           work'[t].via = observer',
           work'[t].drop = Dropped(es, fs),
           work'[t].make = Made(entries, es),
           Made(entries, es) # {} => work'[t].gen = generation + 1,
           \A x \in Targets : entries[x] # NoEntry =>
                /\ es[x] # NoEntry /\ es[x].gen = entries[x].gen
                /\ es[x].watch = entries[x].watch /\ es[x].raced = entries[x].raced,
           \A x \in Targets : entries[x] = NoEntry /\ es[x] # NoEntry =>
                /\ es[x].gen = generation + 1 /\ es[x].watch = FALSE
                /\ es[x].raced = AboutToUnschedule(observer', x),
           \A x \in Targets : fs[x] # NoEntry =>
                /\ es[x] # NoEntry /\ fs[x].gen = es[x].gen
                /\ fs[x].watch = es[x].watch /\ fs[x].raced = es[x].raced,
           entries' = fs,
           watched' = watched,
           stopping' = stopping,
           generation' = IF Made(entries, es) = {} THEN generation ELSE generation + 1,
           stopping \in {"clear", "join"} \/ stopped' => \A x \in Targets : fs[x] = NoEntry,
           stopped' => stopping = "done",
           \/ observer' = observer
           \/ stopping # "clear" /\ \A x \in Targets : entries[x] = NoEntry
       PROVE  IInv'
    BY DEF LockedSection, Reserves, Releases
<1>0. TypeOK /\ generation \in Nat /\ place \in [Threads -> Places]
    BY BoundsAssumption DEF IInv, TypeOK
<1>1. \A x \in Targets : ~Pending(t, x)
    BY <1>0 DEF Pending, Flushed
<1>2. \A x \in Targets : Pending(t, x)' <=> x \in Made(entries, es)
    BY <1>0 DEF Pending
<1>3. \A u \in Threads, x \in Targets : u # t =>
        /\ Pending(u, x)' <=> Pending(u, x)
        /\ place'[u] = place[u] /\ work'[u] = work[u]
    BY <1>0 DEF Pending
<1>4. place'[t] = "flush"
    BY <1>0
<1>5. \A x \in Targets : fs[x] # NoEntry /\ fs[x].gen <= generation => entries[x] # NoEntry
    BY <1>0
<1>6. \A x \in Targets : entries[x] # NoEntry => observer' = observer
    OBVIOUS
<1>7. \A u \in Threads : \A x \in Targets : Pending(u, x) => work[u].gen <= generation
    BY DEF IInv, Generations
<1>8. \A u \in Threads : work[u].at \in Targets
    BY <1>0 DEF TypeOK, Work
<1>9. Generations'
    <2>1. \A u \in Threads : \A x \in Targets : Pending(u, x)' => work'[u].gen <= generation'
        <3> SUFFICES ASSUME NEW u \in Threads, NEW x \in Targets, Pending(u, x)'
                     PROVE  work'[u].gen <= generation'
            OBVIOUS
        <3>1. CASE u = t
            BY <3>1, <1>0, <1>2
        <3>2. CASE u # t
            <4>1. work'[u].gen <= generation
                BY <3>2, <1>3, <1>7
            <4>2. work'[u].gen \in Nat
                BY DEF TypeOK, Work
            <4> QED BY <4>1, <4>2, <1>0
        <3> QED BY <3>1, <3>2
    <2>2. \A x \in Targets : entries'[x] # NoEntry => entries'[x].gen <= generation'
        <3> SUFFICES ASSUME NEW x \in Targets, fs[x] # NoEntry PROVE fs[x].gen <= generation'
            OBVIOUS
        <3>1. CASE entries[x] = NoEntry
            <4>1. x \in Made(entries, es)
                BY <3>1 DEF Made
            <4> QED BY <3>1, <4>1, <1>0
        <3>2. CASE entries[x] # NoEntry
            <4>1. fs[x].gen = entries[x].gen /\ entries[x].gen <= generation
                BY <3>2 DEF IInv, Generations
            <4>2. entries[x].gen \in Nat
                BY <3>2, <1>0 DEF TypeOK, Entry
            <4> QED BY <4>1, <4>2, <1>0
        <3> QED BY <3>1, <3>2
    <2>3. ASSUME NEW u \in Threads, NEW v \in Threads, NEW x \in Targets, NEW y \in Targets,
                 Pending(u, x)', Pending(v, y)', work'[u].gen = work'[v].gen
          PROVE  u = v
        <3>1. \A w \in Threads, z \in Targets : w # t /\ Pending(w, z)' =>
                    work'[w].gen <= generation /\ work'[w].gen \in Nat
            BY <1>0, <1>3, <1>7 DEF TypeOK, Work
        <3>2. \A z \in Targets : Pending(t, z)' => work'[t].gen = generation + 1
            BY <1>2
        <3>3. CASE u # t /\ v # t
            BY <2>3, <3>3, <1>3 DEF IInv, Generations
        <3>4. CASE u = t /\ v # t
            BY <2>3, <3>4, <3>1, <3>2, <1>0
        <3>5. CASE u # t /\ v = t
            BY <2>3, <3>5, <3>1, <3>2, <1>0
        <3> QED BY <3>3, <3>4, <3>5
    <2> QED BY <2>1, <2>2, <2>3 DEF Generations
<1>10. EmptyWhileStopped'
    BY DEF EmptyWhileStopped
<1>11. EntryPending'
    <2> SUFFICES ASSUME NEW x \in Targets, fs[x] # NoEntry, ~fs[x].watch
                 PROVE  \E u \in Threads :
                            Pending(u, x)' /\ OwnEntry(u, x)' /\ work'[u].via = observer'
        BY DEF EntryPending
    <2>1. CASE entries[x] = NoEntry
        <3>1. x \in Made(entries, es)
            BY <2>1 DEF Made
        <3>2. Pending(t, x)' /\ OwnEntry(t, x)' /\ work'[t].via = observer'
            BY <2>1, <3>1, <1>2 DEF OwnEntry
        <3> QED BY <3>2
    <2>2. CASE entries[x] # NoEntry
        <3>1. PICK u \in Threads : Pending(u, x) /\ OwnEntry(u, x) /\ work[u].via = observer
            BY <2>2 DEF IInv, EntryPending
        <3>2. u # t
            BY <3>1, <1>1
        <3>3. Pending(u, x)' /\ OwnEntry(u, x)' /\ work'[u].via = observer'
            BY <2>2, <3>1, <3>2, <1>3, <1>6 DEF OwnEntry
        <3> QED BY <3>3
    <2> QED BY <2>1, <2>2
<1>12. RefusedUnwatched'
    <2> SUFFICES ASSUME NEW u \in Threads, place'[u] = "refused", OwnEntry(u, work[u].at)',
                        work'[u].via = observer', work'[u].at \in watched'[observer']
                 PROVE  \E v \in Threads : Undoing(v, observer, work[u].at)'
        <3>1. \A u \in Threads : place'[u] = "refused" => u # t
            BY <1>4
        <3> QED BY DEF RefusedUnwatched
    <2>1. u # t
        BY <1>4
    <2>2. Pending(u, work[u].at) /\ work'[u] = work[u] /\ place[u] = "refused"
        BY <2>1, <1>3, <1>8 DEF Pending
    <2>3. entries[work[u].at] # NoEntry /\ OwnEntry(u, work[u].at)
        BY <2>2, <1>5, <1>7, <1>8 DEF OwnEntry
    <2>4. PICK v \in Threads : Undoing(v, observer, work[u].at)
        BY <2>2, <2>3, <1>6, <1>8 DEF IInv, RefusedUnwatched
    <2>5. v # t
        BY <2>4 DEF Undoing, Flushed
    <2>6. Undoing(v, observer, work[u].at)'
        BY <2>2, <2>3, <2>4, <2>5, <1>3, <1>6, <1>8 DEF Undoing
    <2> QED BY <2>6
<1>13. NoOrphan'
    <2> SUFFICES ASSUME NEW o \in Observers, NEW x \in watched[o]
                 PROVE  \/ o = observer' /\ fs[x] # NoEntry /\ fs[x].watch
                        \/ o = observer' /\ stopping = "clear"
                        \/ \E u \in Threads : InHand(u, o, x)'
        BY DEF NoOrphan
    <2>0. x \in Targets
        BY <1>0 DEF TypeOK
    <2>1. CASE o = observer /\ entries[x] # NoEntry /\ entries[x].watch
        <3>1. observer' = observer /\ es[x] # NoEntry /\ es[x].watch
            BY <2>0, <2>1
        <3>2. CASE fs[x] = NoEntry
            <4>1. x \in work'[t].drop
                BY <2>0, <3>1, <3>2 DEF Dropped
            <4>2. InHand(t, o, x)'
                BY <4>1, <2>1, <3>1, <1>4 DEF InHand
            <4> QED BY <4>2
        <3> QED BY <2>0, <2>1, <3>1, <3>2
    <2>2. CASE o = observer /\ stopping = "clear"
        BY <2>2
    <2>3. CASE \E u \in Threads : InHand(u, o, x)
        <3>1. PICK u \in Threads : InHand(u, o, x)
            BY <2>3
        <3>2. u # t
            BY <3>1 DEF InHand, Flushed
        <3>3. InHand(u, o, x)'
            BY <2>0, <3>1, <3>2, <1>3 DEF InHand
        <3> QED BY <3>3
    <2> QED BY <2>1, <2>2, <2>3 DEF IInv, NoOrphan
<1>14. NoThreat'
    <2> SUFFICES ASSUME NEW x \in Targets, fs[x] # NoEntry, ~fs[x].raced,
                        AboutToUnschedule(observer, x)'
                 PROVE  FALSE
        BY DEF NoThreat
    <2>1. AboutToUnschedule(observer', x)
        BY <1>0, <1>3, <1>4 DEF AboutToUnschedule
    <2>2. CASE entries[x] = NoEntry
        BY <2>1, <2>2
    <2>3. CASE entries[x] # NoEntry
        BY <2>1, <2>3 DEF IInv, NoThreat
    <2> QED BY <2>2, <2>3
<1>15. ScheduledWatched'
    <2> SUFFICES ASSUME NEW u \in Threads, place'[u] = "scheduled", work'[u].via = observer',
                        OwnEntry(u, work[u].at)', ~fs[work'[u].at].raced
                 PROVE  work'[u].at \in watched'[observer']
        BY DEF ScheduledWatched
    <2>1. u # t
        BY <1>4
    <2>2. Pending(u, work[u].at) /\ work'[u] = work[u] /\ place[u] = "scheduled"
        BY <2>1, <1>3, <1>8 DEF Pending
    <2>3. entries[work[u].at] # NoEntry /\ OwnEntry(u, work[u].at)
        BY <2>2, <1>5, <1>7, <1>8 DEF OwnEntry
    <2> QED BY <2>2, <2>3, <1>6, <1>8 DEF IInv, ScheduledWatched, OwnEntry
<1>16. NotedWatched'
    BY <1>6 DEF IInv, NotedWatched
<1> QED BY <1>9, <1>10, <1>11, <1>12, <1>13, <1>14, <1>15, <1>16 DEF IInv

(* The steps of a flush.                                                   *)
LEMMA CheckReferencedKeeps ==
    ASSUME IInv, TypeOK', NEW t \in Threads, CheckReferenced(t)
    PROVE  IInv'
<1>0. TypeOK
    BY DEF IInv
<1>1. PICK x \in work[t].drop :
        /\ work' = [work EXCEPT ![t] = [@ EXCEPT !.drop = work[t].drop \ {x}, !.at = x]]
        /\ place' = [place EXCEPT ![t] = IF StillReferenced(t, x) THEN "flush" ELSE "free"]
    BY DEF CheckReferenced
<1>2. /\ place[t] = "flush" /\ place'[t] \in {"flush", "free"}
      /\ work'[t].drop = work[t].drop \ {x} /\ work'[t].at = x
      /\ work'[t].make = work[t].make /\ work'[t].via = work[t].via /\ work'[t].gen = work[t].gen
      /\ \A u \in Threads : u # t => work'[u] = work[u] /\ place'[u] = place[u]
    <2>1. place[t] = "flush"
        BY DEF CheckReferenced
    <2>2. work[t] \in Work /\ work'[t] = [work[t] EXCEPT !.drop = work[t].drop \ {x}, !.at = x]
        BY <1>0, <1>1 DEF TypeOK
    <2>3. place'[t] \in {"flush", "free"}
        BY <1>0, <1>1 DEF TypeOK
    <2>4. \A u \in Threads : u # t => work'[u] = work[u] /\ place'[u] = place[u]
        BY <1>0, <1>1 DEF TypeOK
    <2> QED BY <2>1, <2>2, <2>3, <2>4 DEF Work
<1>3. UNCHANGED <<entries, generation, observer, stopped, stopping, watched>>
    BY DEF CheckReferenced, stopVars
<1>4. \A u \in Threads : work'[u].gen = work[u].gen /\ work'[u].via = work[u].via
    BY <1>2
<1>5. \A u \in Threads, y \in Targets : Pending(u, y)' <=> Pending(u, y)
    BY <1>2 DEF Pending
<1>6. \A u \in Threads, y \in Targets : OwnEntry(u, y)' <=> OwnEntry(u, y)
    BY <1>3, <1>4 DEF OwnEntry
<1>7. \A u \in Threads : \A o, y : Undoing(u, o, y) => Undoing(u, o, y)'
    BY <1>2 DEF Undoing
<1>8. x \in Targets /\ \A u \in Threads : work[u].at \in Targets
    BY <1>0 DEF TypeOK, Work
<1>9. Generations' /\ EmptyWhileStopped'
    BY <1>3, <1>4, <1>5 DEF IInv, Generations, EmptyWhileStopped
<1>10. EntryPending'
    BY <1>3, <1>4, <1>5, <1>6 DEF IInv, EntryPending
<1>11. RefusedUnwatched'
    <2> SUFFICES ASSUME NEW u \in Threads, place'[u] = "refused", OwnEntry(u, work[u].at)',
                        work'[u].via = observer', work'[u].at \in watched'[observer']
                 PROVE  \E v \in Threads : Undoing(v, observer, work[u].at)'
        BY DEF RefusedUnwatched
    <2>1. u # t /\ work'[u] = work[u] /\ place[u] = "refused"
        BY <1>2
    <2>2. PICK v \in Threads : Undoing(v, observer, work[u].at)
        BY <2>1, <1>3, <1>6, <1>8 DEF IInv, RefusedUnwatched, OwnEntry
    <2>3. Undoing(v, observer, work[u].at)'
        BY <2>1, <2>2, <1>2, <1>3 DEF Undoing
    <2> QED BY <2>3
<1>12. NoOrphan'
    <2> SUFFICES ASSUME NEW o \in Observers, NEW y \in watched[o]
                 PROVE  \/ o = observer /\ entries[y] # NoEntry /\ entries[y].watch
                        \/ o = observer /\ stopping = "clear"
                        \/ \E u \in Threads : InHand(u, o, y)'
        BY <1>3 DEF NoOrphan
    <2>0. y \in Targets
        BY <1>0 DEF TypeOK
    <2>1. ASSUME NEW u \in Threads, InHand(u, o, y), u # t \/ y # x
          PROVE  InHand(u, o, y)'
        BY <2>1, <1>2 DEF InHand
    <2>2. CASE InHand(t, o, y) /\ y = x /\ ~StillReferenced(t, x)
        <3>1. place'[t] = "free"
            BY <2>2, <1>0, <1>1 DEF TypeOK
        <3>2. InHand(t, o, y)'
            BY <2>2, <3>1, <1>2 DEF InHand
        <3> QED BY <3>2
    <2>3. CASE InHand(t, o, y) /\ y = x /\ StillReferenced(t, x) /\ ~entries[x].watch
        <3>1. o = observer /\ entries[x] # NoEntry
            BY <2>3 DEF InHand, StillReferenced
        <3>2. PICK u \in Threads : Pending(u, x) /\ OwnEntry(u, x) /\ work[u].via = observer
            BY <2>3, <3>1, <1>8 DEF IInv, EntryPending
        <3>3. CASE place[u] # "idle" /\ x \in work[u].make
            <4>1. place'[u] # "idle" /\ x \in work'[u].make /\ work'[u].via = o
                BY <3>1, <3>2, <3>3, <1>2
            <4> QED BY <2>3, <4>1 DEF InHand
        <3>4. CASE place[u] = "scheduled" /\ work[u].at = x
            <4>1. u # t
                BY <3>4, <1>2
            <4>2. InHand(u, o, y)'
                BY <2>3, <3>1, <3>2, <3>4, <4>1, <1>2 DEF InHand
            <4> QED BY <4>2
        <3>5. CASE place[u] = "refused" /\ work[u].at = x
            <4>1. PICK v \in Threads : Undoing(v, observer, x)
                BY <2>3, <3>1, <3>2, <3>5 DEF IInv, RefusedUnwatched
            <4>2. v # t
                BY <4>1, <1>2 DEF Undoing
            <4>3. InHand(v, o, y)'
                BY <2>3, <3>1, <4>1, <4>2, <1>2 DEF Undoing, InHand
            <4> QED BY <4>3
        <3> QED BY <3>2, <3>3, <3>4, <3>5 DEF Pending
    <2>4. CASE InHand(t, o, y) /\ y = x /\ StillReferenced(t, x) /\ entries[x].watch
        BY <2>4 DEF InHand, StillReferenced
    <2> QED BY <2>1, <2>2, <2>3, <2>4 DEF IInv, NoOrphan
<1>13. NoThreat'
    <2> SUFFICES ASSUME NEW y \in Targets, entries[y] # NoEntry, ~entries[y].raced,
                        NEW u \in Threads, place'[u] \in {"free", "obsolete"},
                        work'[u].via = observer, work'[u].at = y
                 PROVE  FALSE
        BY <1>3 DEF NoThreat, AboutToUnschedule
    <2>1. CASE u = t
        BY <2>1, <1>0, <1>1, <1>2 DEF StillReferenced, TypeOK
    <2>2. CASE u # t
        BY <2>2, <1>2 DEF IInv, NoThreat, AboutToUnschedule
    <2> QED BY <2>1, <2>2
<1>14. ScheduledWatched' /\ NotedWatched'
    <2>1. \A u \in Threads : place'[u] = "scheduled" => work'[u] = work[u] /\ place[u] = "scheduled"
        BY <1>2
    <2> QED BY <2>1, <1>3, <1>6, <1>8 DEF IInv, ScheduledWatched, NotedWatched, OwnEntry
<1> QED BY <1>9, <1>10, <1>11, <1>12, <1>13, <1>14 DEF IInv

LEMMA UnscheduleKeeps ==
    ASSUME IInv, TypeOK', NEW t \in Threads, Unschedule(t)
    PROVE  IInv'
<1>0. TypeOK
    BY DEF IInv
<1>1. /\ place[t] \in {"free", "obsolete"} /\ place'[t] = "flush"
      /\ \A u \in Threads : u # t => place'[u] = place[u]
    BY <1>0 DEF Unschedule, TypeOK
<1>2. UNCHANGED <<work, entries, generation, observer, stopped, stopping>>
    BY DEF Unschedule, stopVars
<1>3. \A u \in Threads : work[u].via \in Observers /\ work[u].at \in Targets
    BY <1>0 DEF TypeOK, Work
<1>4. /\ \A o \in Observers : watched'[o] \subseteq watched[o]
      /\ \A o \in Observers : o # work[t].via => watched'[o] = watched[o]
      /\ watched'[work[t].via] = watched[work[t].via] \ {work[t].at}
    BY <1>0, <1>3 DEF Unschedule, TypeOK
<1>5. \A u \in Threads, y \in Targets :
        (Pending(u, y)' <=> Pending(u, y)) /\ (OwnEntry(u, y)' <=> OwnEntry(u, y))
    BY <1>1, <1>2 DEF Pending, OwnEntry
<1>6. Generations' /\ EmptyWhileStopped' /\ EntryPending'
    BY <1>2, <1>5 DEF IInv, Generations, EmptyWhileStopped, EntryPending
<1>7. observer \in Observers
    BY <1>0 DEF TypeOK
<1>8. RefusedUnwatched'
    <2> SUFFICES ASSUME NEW u \in Threads, place'[u] = "refused", OwnEntry(u, work[u].at)',
                        work'[u].via = observer', work'[u].at \in watched'[observer']
                 PROVE  \E v \in Threads : Undoing(v, observer, work[u].at)'
        BY DEF RefusedUnwatched
    <2>1. u # t /\ place[u] = "refused" /\ work[u].at \in watched'[observer]
        BY <1>1, <1>2
    <2>2. PICK v \in Threads : Undoing(v, observer, work[u].at)
        BY <2>1, <1>2, <1>3, <1>4, <1>5, <1>7 DEF IInv, RefusedUnwatched
    <2>3. v # t
        BY <2>1, <2>2, <1>4 DEF Undoing
    <2>4. Undoing(v, observer, work[u].at)'
        BY <2>2, <2>3, <1>1, <1>2 DEF Undoing
    <2> QED BY <2>4
<1>9. NoOrphan'
    <2> SUFFICES ASSUME NEW o \in Observers, NEW y \in watched'[o]
                 PROVE  \/ o = observer /\ entries[y] # NoEntry /\ entries[y].watch
                        \/ o = observer /\ stopping = "clear"
                        \/ \E u \in Threads : InHand(u, o, y)'
        BY <1>2 DEF NoOrphan
    <2>1. ASSUME NEW u \in Threads, InHand(u, o, y) PROVE InHand(u, o, y)'
        <3>1. CASE u # t
            BY <2>1, <3>1, <1>1, <1>2 DEF InHand
        <3>2. CASE u = t
            <4>1. ~(work[t].at = y /\ work[t].via = o)
                BY <1>4
            <4> QED BY <2>1, <3>2, <4>1, <1>1, <1>2 DEF InHand
        <3> QED BY <3>1, <3>2
    <2> QED BY <2>1, <1>4 DEF IInv, NoOrphan
<1>10. NoThreat'
    BY <1>1, <1>2 DEF IInv, NoThreat, AboutToUnschedule
<1>11. \A x \in watched[observer] : entries[x] # NoEntry /\ ~entries[x].raced
            => x \in watched'[observer]
    BY <1>0, <1>1, <1>4, <1>7 DEF IInv, NoThreat, AboutToUnschedule, TypeOK
<1>12. ScheduledWatched' /\ NotedWatched'
    <2>1. \A u \in Threads : place'[u] = "scheduled" => place[u] = "scheduled"
        BY <1>1
    <2>2. ScheduledWatched'
        BY <2>1, <1>2, <1>11 DEF IInv, ScheduledWatched, OwnEntry
    <2>3. NotedWatched'
        BY <1>2, <1>11 DEF IInv, NotedWatched
    <2> QED BY <2>2, <2>3
<1> QED BY <1>6, <1>8, <1>9, <1>10, <1>12 DEF IInv

LEMMA ScheduleKeeps ==
    ASSUME IInv, TypeOK', NEW t \in Threads, Schedule(t)
    PROVE  IInv'
<1>0. TypeOK
    BY DEF IInv
<1>1. PICK x \in work[t].make :
        /\ work' = [work EXCEPT ![t] = [@ EXCEPT !.make = work[t].make \ {x}, !.at = x]]
        /\ \/ /\ watched' = [watched EXCEPT ![work[t].via] = @ \cup {x}]
              /\ place' = [place EXCEPT ![t] = "scheduled"]
           \/ /\ x \in MayFail \ watched[work[t].via]
              /\ place' = [place EXCEPT ![t] = "refused"]
              /\ UNCHANGED watched
    BY DEF Schedule
<1>2. /\ place[t] = "flush" /\ work[t].drop = {}
      /\ work'[t].drop = {} /\ work'[t].at = x /\ work'[t].make = work[t].make \ {x}
      /\ work'[t].via = work[t].via /\ work'[t].gen = work[t].gen
      /\ \A u \in Threads : u # t => work'[u] = work[u] /\ place'[u] = place[u]
    <2>1. place[t] = "flush" /\ work[t].drop = {}
        BY DEF Schedule
    <2>2. work[t] \in Work /\ work'[t] = [work[t] EXCEPT !.make = work[t].make \ {x}, !.at = x]
        BY <1>0, <1>1 DEF TypeOK
    <2>3. \A u \in Threads : u # t => work'[u] = work[u] /\ place'[u] = place[u]
        BY <1>0, <1>1 DEF TypeOK
    <2> QED BY <2>1, <2>2, <2>3 DEF Work
<1>3. UNCHANGED <<entries, generation, observer, stopped, stopping>>
    BY DEF Schedule, stopVars
<1>4. /\ x \in Targets /\ observer \in Observers
      /\ \A u \in Threads : work[u].at \in Targets /\ work[u].via \in Observers
    BY <1>0 DEF TypeOK, Work
<1>5. \/ /\ place'[t] = "scheduled"
         /\ watched'[work[t].via] = watched[work[t].via] \cup {x}
         /\ \A o \in Observers : o # work[t].via => watched'[o] = watched[o]
      \/ place'[t] = "refused" /\ x \notin watched[work[t].via] /\ watched' = watched
    BY <1>0, <1>1, <1>4 DEF TypeOK
<1>6. \A u \in Threads : work'[u].gen = work[u].gen /\ work'[u].via = work[u].via
    BY <1>2
<1>7. \A u \in Threads, y \in Targets : Pending(u, y)' <=> Pending(u, y)
    BY <1>2, <1>5 DEF Pending
<1>8. \A u \in Threads, y \in Targets : OwnEntry(u, y)' <=> OwnEntry(u, y)
    BY <1>3, <1>6 DEF OwnEntry
<1>9. Generations' /\ EmptyWhileStopped' /\ EntryPending'
    BY <1>3, <1>6, <1>7, <1>8 DEF IInv, Generations, EmptyWhileStopped, EntryPending
<1>10. RefusedUnwatched'
    <2> SUFFICES ASSUME NEW u \in Threads, place'[u] = "refused", OwnEntry(u, work[u].at)',
                        work'[u].via = observer', work'[u].at \in watched'[observer']
                 PROVE  \E v \in Threads : Undoing(v, observer, work[u].at)'
        BY DEF RefusedUnwatched
    <2>1. u # t
        BY <1>2, <1>3, <1>5
    <2>2. work'[u] = work[u] /\ place[u] = "refused"
        BY <2>1, <1>2
    <2>3. CASE work[u].at \in watched[observer]
        <3>1. PICK v \in Threads : Undoing(v, observer, work[u].at)
            BY <2>2, <2>3, <1>3, <1>4, <1>8 DEF IInv, RefusedUnwatched, OwnEntry
        <3>2. Undoing(v, observer, work[u].at)'
            BY <2>2, <3>1, <1>2, <1>3 DEF Undoing
        <3> QED BY <3>2
    <2>4. CASE work[u].at \notin watched[observer]
        <3>1. work[u].at = x /\ work[t].via = observer /\ place'[t] = "scheduled"
            BY <2>2, <2>4, <1>3, <1>4, <1>5
        <3>2. Undoing(t, observer, work[u].at)'
            BY <2>2, <3>1, <1>2, <1>3 DEF Undoing
        <3> QED BY <3>2
    <2> QED BY <2>3, <2>4
<1>11. NoOrphan'
    <2> SUFFICES ASSUME NEW o \in Observers, NEW y \in watched'[o]
                 PROVE  \/ o = observer /\ entries[y] # NoEntry /\ entries[y].watch
                        \/ o = observer /\ stopping = "clear"
                        \/ \E u \in Threads : InHand(u, o, y)'
        BY <1>3 DEF NoOrphan
    <2>1. CASE y = x /\ o = work[t].via
        <3>1. place'[t] = "scheduled"
            BY <2>1, <1>5
        <3>2. InHand(t, o, y)'
            BY <2>1, <3>1, <1>2 DEF InHand
        <3> QED BY <3>2
    <2>2. CASE ~(y = x /\ o = work[t].via)
        <3>1. y \in watched[o]
            BY <2>2, <1>5
        <3>2. ASSUME NEW u \in Threads, InHand(u, o, y) PROVE InHand(u, o, y)'
            BY <2>2, <3>2, <1>2, <1>5 DEF InHand
        <3> QED BY <3>1, <3>2 DEF IInv, NoOrphan
    <2> QED BY <2>1, <2>2
<1>12. NoThreat'
    <2>1. \A u \in Threads : place'[u] \in {"free", "obsolete"} =>
            work'[u] = work[u] /\ place'[u] = place[u]
        BY <1>2, <1>5
    <2> QED BY <2>1, <1>3 DEF IInv, NoThreat, AboutToUnschedule
<1>13. \A o \in Observers : watched[o] \subseteq watched'[o]
    BY <1>5
<1>14. ScheduledWatched'
    <2> SUFFICES ASSUME NEW u \in Threads, place'[u] = "scheduled", work'[u].via = observer',
                        OwnEntry(u, work[u].at)', ~entries[work'[u].at].raced
                 PROVE  work'[u].at \in watched'[observer']
        BY <1>3 DEF ScheduledWatched
    <2>1. CASE u = t
        BY <2>1, <1>2, <1>3, <1>5
    <2>2. CASE u # t
        BY <2>2, <1>2, <1>3, <1>4, <1>8, <1>13 DEF IInv, ScheduledWatched, OwnEntry
    <2> QED BY <2>1, <2>2
<1>15. NotedWatched'
    BY <1>3, <1>4, <1>13 DEF IInv, NotedWatched
<1> QED BY <1>9, <1>10, <1>11, <1>12, <1>14, <1>15 DEF IInv

LEMMA NoteWatchKeeps ==
    ASSUME IInv, TypeOK', NEW t \in Threads, NoteWatch(t)
    PROVE  IInv'
<1> DEFINE x == work[t].at
           own == OwnEntry(t, x) /\ work[t].via = observer
<1>0. TypeOK
    BY DEF IInv
<1>1. /\ place[t] = "scheduled" /\ place'[t] \in {"flush", "obsolete"}
      /\ \A u \in Threads : u # t => place'[u] = place[u]
    BY <1>0 DEF NoteWatch, TypeOK
<1>2. UNCHANGED <<work, generation, observer, stopped, stopping, watched>>
    BY DEF NoteWatch, stopVars
<1>3. observer \in Observers /\ \A u \in Threads : work[u].at \in Targets
    BY <1>0 DEF TypeOK, Work
<1>4. \A y \in Targets : entries[y] # NoEntry => entries[y] \in Entry
    BY <1>0 DEF TypeOK
<1>5. \A y \in Targets :
        /\ entries'[y] = NoEntry <=> entries[y] = NoEntry
        /\ entries[y] # NoEntry => entries'[y].gen = entries[y].gen
        /\ entries[y] # NoEntry /\ ~(y = x /\ own) => entries'[y].watch = entries[y].watch
        /\ y = x /\ own => entries'[y].watch = TRUE
        /\ entries[y] # NoEntry /\ ~(y = x /\ ~own /\ work[t].via = observer)
              => entries'[y].raced = entries[y].raced
        /\ entries[y] # NoEntry /\ y = x /\ ~own /\ work[t].via = observer
              => entries'[y].raced = TRUE
    <2>0. x \in Targets /\ entries \in [Targets -> Entry \cup {NoEntry}]
        BY <1>0, <1>3 DEF TypeOK
    <2>1. CASE own
        <3> DEFINE e == [entries[x] EXCEPT !.watch = TRUE]
        <3>1. entries[x] # NoEntry /\ entries' = [entries EXCEPT ![x].watch = TRUE]
            BY <2>1 DEF NoteWatch, OwnEntry
        <3>2. e \in Entry /\ e.gen = entries[x].gen /\ e.watch = TRUE
              /\ e.raced = entries[x].raced
            BY <2>0, <3>1, <1>4 DEF Entry
        <3>3. e # NoEntry
            BY <3>2, NoEntryAssumption
        <3>4. entries'[x] = e /\ \A y \in Targets : y # x => entries'[y] = entries[y]
            BY <2>0, <3>1
        <3> HIDE DEF e, own, x
        <3> QED BY <2>1, <3>1, <3>2, <3>3, <3>4
    <2>2. CASE ~own /\ entries[x] # NoEntry /\ work[t].via = observer
        <3> DEFINE e == [entries[x] EXCEPT !.raced = TRUE]
        <3>1. entries' = [entries EXCEPT ![x].raced = TRUE]
            BY <2>2 DEF NoteWatch
        <3>2. e \in Entry /\ e.gen = entries[x].gen /\ e.raced = TRUE
              /\ e.watch = entries[x].watch
            BY <2>0, <2>2, <1>4 DEF Entry
        <3>3. e # NoEntry
            BY <3>2, NoEntryAssumption
        <3>4. entries'[x] = e /\ \A y \in Targets : y # x => entries'[y] = entries[y]
            BY <2>0, <3>1
        <3> HIDE DEF e, own, x
        <3> QED BY <2>2, <3>2, <3>3, <3>4
    <2>3. CASE ~own /\ ~(entries[x] # NoEntry /\ work[t].via = observer)
        <3>1. entries' = entries
            BY <2>3 DEF NoteWatch
        <3> HIDE DEF own, x
        <3> QED BY <2>3, <3>1
    <2> QED BY <2>1, <2>2, <2>3
<1>6. own => place'[t] = "flush"
    BY <1>0 DEF NoteWatch, TypeOK
<1>7. ~own => place'[t] = "obsolete"
    BY <1>0 DEF NoteWatch, TypeOK
<1> HIDE DEF own
<1>8. \A u \in Threads, y \in Targets :
        /\ Pending(u, y)' => Pending(u, y)
        /\ Pending(u, y) => Pending(u, y)' \/ (u = t /\ y = x)
        /\ OwnEntry(u, y)' <=> OwnEntry(u, y)
    <2>1. \A u \in Threads, y \in Targets : OwnEntry(u, y)' <=> OwnEntry(u, y)
        BY <1>2, <1>5 DEF OwnEntry
    <2> QED BY <2>1, <1>1, <1>2 DEF Pending
<1>9. Generations' /\ EmptyWhileStopped'
    BY <1>2, <1>5, <1>8 DEF IInv, Generations, EmptyWhileStopped
<1>10. EntryPending'
    <2> SUFFICES ASSUME NEW y \in Targets, entries'[y] # NoEntry, ~entries'[y].watch
                 PROVE  \E u \in Threads :
                            Pending(u, y)' /\ OwnEntry(u, y)' /\ work'[u].via = observer'
        BY DEF EntryPending
    <2>1. entries[y] # NoEntry /\ ~entries[y].watch /\ ~(y = x /\ own)
        BY <1>5
    <2>2. PICK u \in Threads : Pending(u, y) /\ OwnEntry(u, y) /\ work[u].via = observer
        BY <2>1 DEF IInv, EntryPending
    <2>3. ~(u = t /\ y = x)
        BY <2>1, <2>2 DEF own
    <2> QED BY <2>2, <2>3, <1>2, <1>8
<1>11. RefusedUnwatched'
    <2> SUFFICES ASSUME NEW u \in Threads, place'[u] = "refused", OwnEntry(u, work[u].at)',
                        work'[u].via = observer', work'[u].at \in watched'[observer']
                 PROVE  \E v \in Threads : Undoing(v, observer, work[u].at)'
        BY DEF RefusedUnwatched
    <2>1. u # t /\ place[u] = "refused"
        BY <1>1
    <2>2. OwnEntry(u, work[u].at) /\ work[u].via = observer /\ work[u].at \in watched[observer]
        BY <1>2, <1>3, <1>8
    <2>3. PICK v \in Threads : Undoing(v, observer, work[u].at)
        BY <2>1, <2>2 DEF IInv, RefusedUnwatched
    <2>4. CASE v # t
        BY <2>3, <2>4, <1>1, <1>2 DEF Undoing
    <2>5. CASE v = t
        <3>1. work[u].at = x /\ work[t].via = observer
            BY <2>3, <2>5 DEF Undoing
        <3>2. Pending(u, x) /\ Pending(t, x)
            BY <2>1, <3>1, <1>1 DEF Pending
        <3>3. ~own
            BY <2>1, <2>2, <3>1, <3>2, <1>3 DEF IInv, Generations, OwnEntry, own
        <3>4. Undoing(t, observer, work[u].at)'
            BY <3>1, <3>3, <1>2, <1>7 DEF Undoing
        <3> QED BY <3>4
    <2> QED BY <2>4, <2>5
<1>12. NoOrphan'
    <2> SUFFICES ASSUME NEW o \in Observers, NEW y \in watched[o]
                 PROVE  \/ o = observer /\ entries'[y] # NoEntry /\ entries'[y].watch
                        \/ o = observer /\ stopping = "clear"
                        \/ \E u \in Threads : InHand(u, o, y)'
        BY <1>2 DEF NoOrphan
    <2>0. y \in Targets
        BY <1>0 DEF TypeOK
    <2>1. CASE o = observer /\ entries[y] # NoEntry /\ entries[y].watch
        BY <2>0, <2>1, <1>5
    <2>2. CASE \E u \in Threads : InHand(u, o, y)
        <3>1. PICK u \in Threads : InHand(u, o, y)
            BY <2>2
        <3>2. CASE InHand(u, o, y)'
            BY <3>2
        <3>3. CASE ~InHand(u, o, y)'
            <4>1. u = t /\ y = x /\ own
                BY <3>1, <3>3, <1>1, <1>2, <1>7 DEF InHand
            <4>2. o = observer /\ entries[x] # NoEntry
                BY <3>1, <4>1 DEF InHand, own, OwnEntry
            <4> QED BY <2>0, <4>1, <4>2, <1>5
        <3> QED BY <3>2, <3>3
    <2> QED BY <2>1, <2>2 DEF IInv, NoOrphan
<1>13. NoThreat'
    <2> SUFFICES ASSUME NEW y \in Targets, entries'[y] # NoEntry, ~entries'[y].raced,
                        NEW u \in Threads, place'[u] \in {"free", "obsolete"},
                        work[u].via = observer, work[u].at = y
                 PROVE  FALSE
        BY <1>2 DEF NoThreat, AboutToUnschedule
    <2>1. entries[y] # NoEntry /\ ~entries[y].raced /\ ~(y = x /\ ~own /\ work[t].via = observer)
        BY <1>5
    <2>2. CASE u = t
        BY <2>1, <2>2, <1>6
    <2>3. CASE u # t
        BY <2>1, <2>3, <1>1 DEF IInv, NoThreat, AboutToUnschedule
    <2> QED BY <2>2, <2>3
<1>14. ScheduledWatched'
    <2>1. \A u \in Threads : place'[u] = "scheduled" => place[u] = "scheduled"
        BY <1>1
    <2> QED BY <2>1, <1>2, <1>3, <1>5, <1>8 DEF IInv, ScheduledWatched, OwnEntry
<1>15. NotedWatched'
    <2> SUFFICES ASSUME NEW y \in Targets, entries'[y] # NoEntry, entries'[y].watch,
                        ~entries'[y].raced
                 PROVE  y \in watched[observer]
        BY <1>2 DEF NotedWatched
    <2>1. entries[y] # NoEntry /\ ~entries[y].raced /\ (entries[y].watch \/ (y = x /\ own))
        BY <1>5
    <2>2. CASE entries[y].watch
        BY <2>1, <2>2 DEF IInv, NotedWatched
    <2>3. CASE y = x /\ own
        BY <2>1, <2>3, <1>1 DEF IInv, ScheduledWatched, own
    <2> QED BY <2>1, <2>2, <2>3
<1> QED BY <1>9, <1>10, <1>11, <1>12, <1>13, <1>14, <1>15 DEF IInv

LEMMA NoteFailureKeeps ==
    ASSUME IInv, TypeOK', NEW t \in Threads, NoteFailure(t)
    PROVE  IInv'
<1> DEFINE x == work[t].at
           gone == OwnEntry(t, x) /\ ~entries[x].watch
<1>0. TypeOK
    BY DEF IInv
<1>1. /\ place[t] = "refused" /\ place'[t] = "flush"
      /\ \A u \in Threads : u # t => place'[u] = place[u]
    BY <1>0 DEF NoteFailure, TypeOK
<1>2. \A u \in Threads : /\ work'[u].via = work[u].via /\ work'[u].gen = work[u].gen
                         /\ work'[u].drop = work[u].drop /\ work'[u].make = work[u].make
                         /\ work'[u].at = work[u].at
    BY <1>0 DEF NoteFailure, TypeOK, Work
<1>3. UNCHANGED <<generation, observer, stopped, stopping, watched>>
    BY DEF NoteFailure, stopVars
<1>4. \A u \in Threads : work[u].at \in Targets
    BY <1>0 DEF TypeOK, Work
<1>5. \A y \in Targets : entries'[y] = IF y = x /\ gone THEN NoEntry ELSE entries[y]
    BY <1>0, <1>4 DEF NoteFailure, TypeOK
<1>6. gone => entries[x] # NoEntry /\ ~entries[x].watch
    BY DEF OwnEntry
<1>7. \A u \in Threads, y \in Targets :
        /\ Pending(u, y)' => Pending(u, y)
        /\ Pending(u, y) => Pending(u, y)' \/ (u = t /\ y = x)
        /\ OwnEntry(u, y)' => OwnEntry(u, y)
        /\ OwnEntry(u, y) => OwnEntry(u, y)' \/ (y = x /\ gone)
    <2> HIDE DEF gone
    <2>1. \A u \in Threads, y \in Targets :
            /\ OwnEntry(u, y)' => OwnEntry(u, y)
            /\ OwnEntry(u, y) => OwnEntry(u, y)' \/ (y = x /\ gone)
        BY <1>2, <1>5 DEF OwnEntry
    <2> QED BY <2>1, <1>1, <1>2 DEF Pending
<1> HIDE DEF gone
<1>8. Generations' /\ EmptyWhileStopped'
    BY <1>2, <1>3, <1>5, <1>7 DEF IInv, Generations, EmptyWhileStopped
<1>9. EntryPending'
    <2> SUFFICES ASSUME NEW y \in Targets, entries'[y] # NoEntry, ~entries'[y].watch
                 PROVE  \E u \in Threads :
                            Pending(u, y)' /\ OwnEntry(u, y)' /\ work'[u].via = observer'
        BY DEF EntryPending
    <2>1. entries[y] # NoEntry /\ ~entries[y].watch /\ ~(y = x /\ gone)
        BY <1>5
    <2>2. PICK u \in Threads : Pending(u, y) /\ OwnEntry(u, y) /\ work[u].via = observer
        BY <2>1 DEF IInv, EntryPending
    <2>3. ~(u = t /\ y = x)
        BY <2>1, <2>2 DEF gone
    <2> QED BY <2>1, <2>2, <2>3, <1>2, <1>3, <1>7
<1>10. RefusedUnwatched'
    <2> SUFFICES ASSUME NEW u \in Threads, place'[u] = "refused", OwnEntry(u, work[u].at)',
                        work'[u].via = observer', work'[u].at \in watched'[observer']
                 PROVE  \E v \in Threads : Undoing(v, observer, work[u].at)'
        BY DEF RefusedUnwatched
    <2>1. place[u] = "refused" /\ OwnEntry(u, work[u].at) /\ work[u].via = observer
          /\ work[u].at \in watched[observer]
        BY <1>1, <1>2, <1>3, <1>4, <1>7 DEF OwnEntry
    <2>2. PICK v \in Threads : Undoing(v, observer, work[u].at)
        BY <2>1 DEF IInv, RefusedUnwatched
    <2>3. Undoing(v, observer, work[u].at)'
        BY <2>2, <1>1, <1>2, <1>3 DEF Undoing
    <2> QED BY <2>3
<1>11. NoOrphan'
    <2> SUFFICES ASSUME NEW o \in Observers, NEW y \in watched[o]
                 PROVE  \/ o = observer /\ entries'[y] # NoEntry /\ entries'[y].watch
                        \/ o = observer /\ stopping = "clear"
                        \/ \E u \in Threads : InHand(u, o, y)'
        BY <1>3 DEF NoOrphan
    <2>0. y \in Targets
        BY <1>0 DEF TypeOK
    <2>1. \A u \in Threads : InHand(u, o, y) => InHand(u, o, y)'
        BY <1>1, <1>2 DEF InHand
    <2> QED BY <2>0, <2>1, <1>5, <1>6 DEF IInv, NoOrphan
<1>12. NoThreat'
    BY <1>1, <1>2, <1>3, <1>5 DEF IInv, NoThreat, AboutToUnschedule
<1>13. ScheduledWatched'
    <2>1. \A u \in Threads : place'[u] = "scheduled" => place[u] = "scheduled"
        BY <1>1
    <2> QED BY <2>1, <1>2, <1>3, <1>4, <1>5, <1>7 DEF IInv, ScheduledWatched, OwnEntry
<1>14. NotedWatched'
    BY <1>3, <1>5 DEF IInv, NotedWatched
<1> QED BY <1>8, <1>9, <1>10, <1>11, <1>12, <1>13, <1>14 DEF IInv

(* A call that returns had nothing left to do.                             *)
LEMMA ReturnKeeps ==
    ASSUME IInv, TypeOK', NEW t \in Threads, Granted(t) \/ Return(t)
    PROVE  IInv'
<1>0. TypeOK
    BY DEF IInv
<1>1. /\ Flushed(t) /\ place'[t] = "idle"
      /\ \A u \in Threads : u # t => work'[u] = work[u] /\ place'[u] = place[u]
    BY <1>0 DEF Granted, Return, TypeOK
<1>2. UNCHANGED <<entries, generation, observer, stopped, stopping, watched>>
    BY DEF Granted, Return, stopVars
<1>3. \A u \in Threads : work[u].at \in Targets
    BY <1>0 DEF TypeOK, Work
<1>4. \A y : ~Pending(t, y) /\ ~Pending(t, y)'
    BY <1>1 DEF Pending, Flushed
<1>5. \A u \in Threads, y \in Targets : u # t =>
        (Pending(u, y)' <=> Pending(u, y)) /\ (OwnEntry(u, y)' <=> OwnEntry(u, y))
    BY <1>1, <1>2 DEF Pending, OwnEntry
<1>6. \A u \in Threads : \A o, y : Undoing(u, o, y) => Undoing(u, o, y)'
    BY <1>1 DEF Undoing, Flushed
<1>7. \A u \in Threads : \A o, y : InHand(u, o, y) => InHand(u, o, y)'
    BY <1>1 DEF InHand, Flushed
<1>8. \A u \in Threads, y \in Targets :
        Pending(u, y)' => Pending(u, y) /\ work'[u] = work[u]
    BY <1>1, <1>4, <1>5
<1>9. Generations' /\ EmptyWhileStopped'
    BY <1>2, <1>8 DEF IInv, Generations, EmptyWhileStopped
<1>10. EntryPending'
    <2> SUFFICES ASSUME NEW y \in Targets, entries[y] # NoEntry, ~entries[y].watch
                 PROVE  \E u \in Threads :
                            Pending(u, y)' /\ OwnEntry(u, y)' /\ work'[u].via = observer'
        BY <1>2 DEF EntryPending
    <2>1. PICK u \in Threads : Pending(u, y) /\ OwnEntry(u, y) /\ work[u].via = observer
        BY DEF IInv, EntryPending
    <2>2. u # t
        BY <2>1, <1>4
    <2> QED BY <2>1, <2>2, <1>1, <1>2, <1>5
<1>11. RefusedUnwatched'
    <2> SUFFICES ASSUME NEW u \in Threads, place'[u] = "refused", OwnEntry(u, work[u].at)',
                        work'[u].via = observer', work'[u].at \in watched'[observer']
                 PROVE  \E v \in Threads : Undoing(v, observer, work[u].at)'
        BY DEF RefusedUnwatched
    <2>1. u # t
        BY <1>1
    <2>2. place[u] = "refused" /\ OwnEntry(u, work[u].at) /\ work[u].via = observer
          /\ work[u].at \in watched[observer] /\ work'[u] = work[u]
        BY <2>1, <1>1, <1>2, <1>3, <1>5
    <2>3. PICK v \in Threads : Undoing(v, observer, work[u].at)
        BY <2>2 DEF IInv, RefusedUnwatched
    <2>4. Undoing(v, observer, work[u].at)'
        BY <2>2, <2>3, <1>1, <1>2 DEF Undoing, Flushed
    <2> QED BY <2>4
<1>12. NoOrphan'
    BY <1>2, <1>7 DEF IInv, NoOrphan
<1>13. NoThreat' /\ ScheduledWatched'
    <2>1. \A u \in Threads : place'[u] \in {"free", "obsolete", "scheduled"} =>
            u # t /\ work'[u] = work[u] /\ place'[u] = place[u]
        BY <1>1
    <2>2. NoThreat'
        BY <2>1, <1>2 DEF IInv, NoThreat, AboutToUnschedule
    <2>3. ScheduledWatched'
        BY <2>1, <1>2, <1>3, <1>5 DEF IInv, ScheduledWatched
    <2> QED BY <2>2, <2>3
<1>14. NotedWatched'
    BY <1>2 DEF IInv, NotedWatched
<1> QED BY <1>9, <1>10, <1>11, <1>12, <1>13, <1>14 DEF IInv

(* The locked sections are instances of Section.                           *)
LEMMA AddFileKeeps ==
    ASSUME IInv, TypeOK', NEW t \in Callers, NEW f \in Files, AddFile(t, f)
    PROVE  IInv'
<1>0. /\ TypeOK /\ t \in Threads /\ entries \in Table /\ generation \in Nat
      /\ (stopped => \A x \in Targets : entries[x] = NoEntry) /\ (stopped => stopping = "done")
      /\ work[t] \in Work /\ place \in [Threads -> Places] /\ work \in [Threads -> Work]
    BY BoundsAssumption DEF IInv, TypeOK, Threads, Table, EmptyWhileStopped
<1> DEFINE D  == IF fileRefs[f] > 0 THEN pathDirs[f] ELSE disk[f]
           es == Reserve(entries, D, 1, PreparedObserver)
           ms == Made(entries, es)
<1>1. D \in SUBSET Dirs
    BY <1>0 DEF TypeOK
<1>2. Reserves(entries, es, PreparedObserver)
    BY <1>0, <1>1, Reserving
<1>3. /\ place[t] = "idle" /\ stopping \notin {"clear", "join"}
      /\ observer' = PreparedObserver /\ stopped' = FALSE
      /\ entries' = es /\ watched' = watched /\ stopping' = stopping
      /\ generation' = IF ms = {} THEN generation ELSE generation + 1
      /\ place' = [place EXCEPT ![t] = "flush"]
      /\ work' = [work EXCEPT ![t] =
            [work[t] EXCEPT !.kind = "add", !.file = f, !.dirs = D, !.via = PreparedObserver,
                      !.gen = generation + 1, !.drop = {}, !.make = ms, !.failed = FALSE]]
    BY DEF AddFile
<1>4. Dropped(es, es) = {} /\ Releases(es, es)
    BY DEF Dropped, Releases
<1>5. observer' = observer \/ (stopping # "clear" /\ \A x \in Targets : entries[x] = NoEntry)
    BY <1>0, <1>3 DEF PreparedObserver
<1> HIDE DEF D, es, ms
<1>6. /\ work'[t].via = observer' /\ work'[t].drop = {} /\ work'[t].make = ms
      /\ work'[t].gen = generation + 1
    BY <1>0, <1>3 DEF Work
<1>7. \A u \in Threads : u # t => work'[u] = work[u]
    BY <1>0, <1>3
<1>8. ms = Made(entries, es)
    BY DEF ms
<1>9. LockedSection(t, es, es)
    BY <1>2, <1>3, <1>4, <1>5, <1>6, <1>7, <1>8 DEF LockedSection
<1> QED BY <1>0, <1>9, Section

LEMMA DispatchKeeps ==
    ASSUME IInv, TypeOK', NEW f \in Files, Dispatch(f)
    PROVE  IInv'
<1> DEFINE t  == Dispatcher
           es == Reserve(entries, disk[f] \ pathDirs[f], fileRefs[f], observer)
           fs == Release(es, pathDirs[f] \ disk[f], fileRefs[f])
           ms == Made(entries, es)
           ds == Dropped(es, fs)
<1>0. /\ TypeOK /\ t \in Threads /\ entries \in Table /\ generation \in Nat
      /\ stopping = "no" /\ ~stopped
      /\ work[t] \in Work /\ place \in [Threads -> Places] /\ work \in [Threads -> Work]
      /\ pathDirs[f] \ disk[f] \in SUBSET Dirs /\ disk[f] \ pathDirs[f] \in SUBSET Dirs
      /\ fileRefs[f] \in Nat
    BY BoundsAssumption
       DEF IInv, TypeOK, Threads, Table, EmptyWhileStopped, Dispatch, Running
<1>1. es \in Table /\ Reserves(entries, es, observer)
    BY <1>0, Reserving
<1>2. /\ place[t] = "idle"
      /\ observer' = observer /\ stopped' = stopped
      /\ entries' = fs /\ watched' = watched /\ stopping' = stopping
      /\ generation' = IF ms = {} THEN generation ELSE generation + 1
      /\ place' = [place EXCEPT ![t] = "flush"]
      /\ work' = [work EXCEPT ![t] =
            [work[t] EXCEPT !.kind = "other", !.via = observer, !.gen = generation + 1,
                      !.drop = ds, !.make = ms, !.failed = FALSE]]
    BY DEF Dispatch, stopVars
<1> HIDE DEF es
<1>3. Releases(es, fs)
    BY <1>0, <1>1, Releasing
<1> HIDE DEF t, fs, ms, ds
<1>4. /\ work'[t].via = observer' /\ work'[t].drop = ds /\ work'[t].make = ms
      /\ work'[t].gen = generation + 1
    BY <1>0, <1>2 DEF Work
<1>5. \A u \in Threads : u # t => work'[u] = work[u]
    BY <1>0, <1>2
<1>6. ms = Made(entries, es) /\ ds = Dropped(es, fs)
    BY DEF ms, ds
<1>7. LockedSection(t, es, fs)
    BY <1>0, <1>1, <1>2, <1>3, <1>4, <1>5, <1>6 DEF LockedSection
<1> QED BY <1>0, <1>7, Section

LEMMA RemoveFileKeeps ==
    ASSUME IInv, TypeOK', NEW t \in Callers, NEW f \in Files, RemoveFile(t, f)
    PROVE  IInv'
<1>0. /\ TypeOK /\ t \in Threads /\ entries \in Table /\ work[t] \in Work
      /\ pathDirs[f] \in SUBSET Dirs /\ work \in [Threads -> Work]
    BY DEF IInv, TypeOK, Threads, Table
<1> DEFINE fs == Release(entries, pathDirs[f], 1)
           ds == Dropped(entries, fs)
<1>1. Releases(entries, fs)
    BY <1>0, Releasing
<1>2. /\ place[t] = "idle" /\ entries' = fs /\ watched' = watched
      /\ UNCHANGED <<generation, observer, stopped, stopping>>
      /\ place' = [place EXCEPT ![t] = "flush"]
      /\ work' = [work EXCEPT ![t] =
            [work[t] EXCEPT !.kind = "other", !.via = observer, !.drop = ds,
                      !.make = {}, !.failed = FALSE]]
    BY DEF RemoveFile, stopVars
<1> HIDE DEF fs, ds
<1>3. work'[t].via = observer' /\ work'[t].drop = ds /\ work'[t].make = {}
    BY <1>0, <1>2 DEF Work
<1>4. \A u \in Threads : u # t => work'[u] = work[u]
    BY <1>0, <1>2
<1>5. Made(entries, entries) = {} /\ Reserves(entries, entries, observer')
    BY DEF Made, Reserves
<1>6. /\ stopping \in {"clear", "join"} \/ stopped' => \A x \in Targets : fs[x] = NoEntry
      /\ stopped' => stopping = "done"
    BY <1>1, <1>2 DEF IInv, EmptyWhileStopped, Releases
<1>7. ds = Dropped(entries, fs)
    BY DEF ds
<1>8. LockedSection(t, entries, fs)
    BY <1>1, <1>2, <1>3, <1>4, <1>5, <1>6, <1>7 DEF LockedSection
<1> QED BY <1>0, <1>8, Section

LEMMA RollbackKeeps ==
    ASSUME IInv, TypeOK', NEW t \in Threads, Rollback(t)
    PROVE  IInv'
<1>0. /\ TypeOK /\ entries \in Table /\ work[t] \in Work /\ work[t].dirs \in SUBSET Dirs
      /\ work \in [Threads -> Work]
    BY DEF IInv, TypeOK, Table, Work
<1> DEFINE fs == Release(entries, work[t].dirs, 1)
           ds == Dropped(entries, fs)
<1>1. Releases(entries, fs)
    BY <1>0, Releasing
<1>2. /\ Flushed(t) /\ entries' = fs /\ watched' = watched
      /\ UNCHANGED <<generation, observer, stopped, stopping>>
      /\ work' = [work EXCEPT ![t] =
            [work[t] EXCEPT !.kind = "other", !.via = observer, !.drop = ds]]
    BY DEF Rollback, stopVars
<1> HIDE DEF fs, ds
<1>3. place' = [place EXCEPT ![t] = "flush"]
    BY <1>0 DEF Rollback, Flushed, TypeOK
<1>4. work'[t].via = observer' /\ work'[t].drop = ds /\ work'[t].make = {}
    BY <1>0, <1>2 DEF Work, Flushed
<1>5. \A u \in Threads : u # t => work'[u] = work[u]
    BY <1>0, <1>2
<1>6. Made(entries, entries) = {} /\ Reserves(entries, entries, observer')
    BY DEF Made, Reserves
<1>7. /\ stopping \in {"clear", "join"} \/ stopped' => \A x \in Targets : fs[x] = NoEntry
      /\ stopped' => stopping = "done"
    BY <1>1, <1>2 DEF IInv, EmptyWhileStopped, Releases
<1>8. ds = Dropped(entries, fs)
    BY DEF ds
<1>9. LockedSection(t, entries, fs)
    BY <1>1, <1>2, <1>3, <1>4, <1>5, <1>6, <1>7, <1>8 DEF LockedSection
<1> QED BY <1>0, <1>9, Section

(* Steps in which no thread works on a watch.                              *)
LEMMA OthersKeep ==
    ASSUME IInv, TypeOK',
           \/ \E t \in Callers, f \in Files : AddFileRaises(t, f)
           \/ \E f \in Files : Move(f)
           \/ StopBegins \/ UnscheduleAll \/ StopEnds \/ UNCHANGED vars
    PROVE  IInv'
<1>0. TypeOK /\ \A u \in Threads : work[u].at \in Targets
    BY DEF IInv, TypeOK, Work
<1>1. UNCHANGED <<place, work, generation>>
    BY DEF AddFileRaises, Move, StopBegins, UnscheduleAll, StopEnds, vars
<1>2. /\ \A u, y : Pending(u, y)' <=> Pending(u, y)
      /\ \A u, o, y : Undoing(u, o, y)' <=> Undoing(u, o, y)
      /\ \A u, o, y : InHand(u, o, y)' <=> InHand(u, o, y)
      /\ \A o, y : AboutToUnschedule(o, y)' <=> AboutToUnschedule(o, y)
    BY <1>1 DEF Pending, Undoing, InHand, AboutToUnschedule
<1>3. CASE UNCHANGED <<entries, observer, stopped, stopping, watched>>
    BY <1>1, <1>2, <1>3 DEF IInv, Generations, EmptyWhileStopped, EntryPending, RefusedUnwatched,
       NoOrphan, NoThreat, ScheduledWatched, NotedWatched, OwnEntry, Undoing
<1>4. ASSUME NEW o \in Observers, \A x \in Targets : entries'[x] = NoEntry,
             stopped' => stopping' = "done",
             \A p \in Observers : \A x \in watched'[p] : x \in watched[p] /\
                (\/ p = observer' /\ stopping' = "clear"
                 \/ \E t \in Threads : InHand(t, p, x))
      PROVE  IInv'
    <2>1. Generations' /\ EmptyWhileStopped' /\ EntryPending'
        BY <1>1, <1>2, <1>4 DEF IInv, Generations, EmptyWhileStopped, EntryPending
    <2>2. RefusedUnwatched' /\ ScheduledWatched'
        BY <1>0, <1>1, <1>4 DEF RefusedUnwatched, ScheduledWatched, OwnEntry
    <2>3. NoOrphan'
        BY <1>2, <1>4 DEF NoOrphan
    <2>4. NoThreat' /\ NotedWatched'
        BY <1>4 DEF NoThreat, NotedWatched
    <2> QED BY <2>1, <2>2, <2>3, <2>4 DEF IInv
<1>5. ASSUME NEW t \in Callers, NEW f \in Files, AddFileRaises(t, f) PROVE IInv'
    <2>1. CASE ~stopped
        <3>1. UNCHANGED <<entries, observer, stopped, stopping, watched>>
            BY <1>0, <1>5, <2>1 DEF AddFileRaises, PreparedObserver, TypeOK
        <3> QED BY <3>1, <1>3
    <2>2. CASE stopped
        <3>1. stopping = "done" /\ \A x \in Targets : entries[x] = NoEntry
            BY <2>2 DEF IInv, EmptyWhileStopped
        <3>2. \A p \in Observers : \A x \in watched[p] : \E u \in Threads : InHand(u, p, x)
            BY <1>0, <3>1 DEF IInv, NoOrphan, TypeOK
        <3>3. entries' = entries /\ watched' = watched /\ stopped' = FALSE
            BY <1>5 DEF AddFileRaises
        <3> QED BY <3>1, <3>2, <3>3, <1>4 DEF Observers
    <2> QED BY <2>1, <2>2, <1>0 DEF TypeOK
<1>6. CASE StopBegins
    <2>1. \A x \in Targets : entries'[x] = NoEntry
        BY <1>6 DEF StopBegins
    <2>2. ~stopped /\ stopped' = stopped /\ watched' = watched /\ stopping' = "clear"
          /\ observer' = observer
        BY <1>0, <1>6 DEF StopBegins, IInv, EmptyWhileStopped, TypeOK
    <2>3. \A p \in Observers : \A x \in watched[p] :
            p = observer \/ \E u \in Threads : InHand(u, p, x)
        BY DEF IInv, NoOrphan
    <2> QED BY <2>1, <2>2, <2>3, <1>4 DEF Observers
<1>7. CASE UnscheduleAll
    <2>1. /\ \A x \in Targets : entries[x] = NoEntry
          /\ ~stopped
        BY <1>0, <1>7 DEF UnscheduleAll, IInv, EmptyWhileStopped, TypeOK
    <2>2. /\ entries' = entries /\ stopped' = stopped
          /\ observer' = observer /\ watched' = [watched EXCEPT ![observer] = {}]
        BY <1>7 DEF UnscheduleAll
    <2>3. \A p \in Observers : \A x \in watched'[p] :
            p # observer /\ x \in watched[p]
        BY <1>0, <2>2 DEF TypeOK
    <2>4. \A p \in Observers : \A x \in watched'[p] :
            x \in watched[p] /\ \E u \in Threads : InHand(u, p, x)
        BY <2>3 DEF IInv, NoOrphan
    <2> QED BY <2>1, <2>2, <2>4, <1>4 DEF Observers
<1>8. CASE StopEnds
    <2>1. /\ \A x \in Targets : entries[x] = NoEntry
          /\ stopping = "join" /\ stopping' = "done"
          /\ entries' = entries /\ watched' = watched
        BY <1>8 DEF StopEnds, IInv, EmptyWhileStopped
    <2>2. \A p \in Observers : \A x \in watched[p] : \E u \in Threads : InHand(u, p, x)
        BY <1>0, <2>1 DEF IInv, NoOrphan, TypeOK
    <2> QED BY <2>1, <2>2, <1>4 DEF Observers
<1>9. ASSUME NEW f \in Files, Move(f) PROVE IInv'
    BY <1>9, <1>3 DEF Move, stopVars
<1>10. CASE UNCHANGED vars
    BY <1>10, <1>3 DEF vars
<1> QED BY <1>5, <1>6, <1>7, <1>8, <1>9, <1>10

LEMMA Invariance == IInv /\ [Next]_vars => IInv'
<1> SUFFICES ASSUME IInv, [Next]_vars PROVE IInv'
    OBVIOUS
<1>1. TypeOK'
    BY TypeStep DEF IInv
<1>2. ASSUME NEW t \in Threads, Flush(t) PROVE IInv'
    BY <1>1, <1>2, CheckReferencedKeeps, UnscheduleKeeps, ScheduleKeeps, NoteWatchKeeps,
       NoteFailureKeeps, ReturnKeeps, RollbackKeeps DEF Flush
<1> QED BY <1>1, <1>2, AddFileKeeps, RemoveFileKeeps, DispatchKeeps, OthersKeep DEF Next

LEMMA InvInit == Init => IInv
<1> SUFFICES ASSUME Init PROVE IInv
    OBVIOUS
<1>1. TypeOK
    BY TypeInit
<1>2. /\ \A t \in Threads : place[t] = "idle"
      /\ \A x \in Targets : entries[x] = NoEntry
      /\ \A o \in Observers : watched[o] = {}
      /\ stopped = FALSE
    BY DEF Init
<1>3. \A t \in Threads, x \in Targets : ~Pending(t, x)
    BY <1>2 DEF Pending
<1> QED BY <1>1, <1>2, <1>3 DEF Init, IInv, Generations, EmptyWhileStopped, EntryPending,
        RefusedUnwatched, NoOrphan, NoThreat, ScheduledWatched, NotedWatched

LEMMA Inductive == Spec => []IInv
<1> QED BY InvInit, Invariance, PTL DEF Spec
-----------------------------------------------------------------------------
(* No watch is left behind, for any number of threads, files and targets,  *)
(* whatever is refused and whenever stop() comes.                          *)
THEOREM NothingLeftBehind == Spec => []NoOrphanWatch
<1>1. IInv => NoOrphanWatch
    BY DEF IInv, NoOrphan, NoOrphanWatch
<1> QED BY <1>1, Inductive, PTL

(* A watch that the registry has noted for a referenced target is there,   *)
(* unless another thread had decided to unschedule the target before.      *)
THEOREM NotedIsWatched == Spec => []NotedWatched
<1>1. IInv => NotedWatched
    BY DEF IInv
<1> QED BY <1>1, Inductive, PTL
-----------------------------------------------------------------------------
(* Sums over a finite set.                                                 *)

(* Induction over the subsets of a finite set, with a set of subsets in    *)
(* place of a predicate.                                                   *)
LEMMA SubsetInduction ==
    ASSUME NEW S, IsFiniteSet(S), NEW G,
           \A T \in SUBSET S : (\A U \in SUBSET T : U # T => U \in G) => T \in G
    PROVE  S \in G
<1> SUFFICES ASSUME S \notin G PROVE FALSE
    OBVIOUS
<1> DEFINE B == {T \in SUBSET S : T \notin G}
<1>1. B \subseteq FiniteSubsetsOf(S) /\ B # {}
    BY FS_Subset DEF FiniteSubsetsOf
<1>2. IsWellFoundedOn(StrictSubsetOrdering(S), FiniteSubsetsOf(S))
    BY FS_StrictSubsetOrderingWellFounded
<1>3. PICK T \in B : \A U \in B : <<U, T>> \notin StrictSubsetOrdering(S)
    <2> HIDE DEF B
    <2> QED BY <1>1, <1>2, WFMin
<1>4. ASSUME NEW U \in SUBSET T, U # T PROVE U \in G
    BY <1>3, <1>4 DEF StrictSubsetOrdering
<1> QED BY <1>3, <1>4

(* SumFunctionOnSet takes an element and adds the sum of the others.       *)
AnyOf(s) == CHOOSE x \in s : TRUE
SumBody(f, g, s) == IF s = {} THEN 0 ELSE f[AnyOf(s)] + g[s \ {AnyOf(s)}]

(* The element that is taken is one of the set.                            *)
LEMMA AnyOfIn ==
    ASSUME NEW s, s # {}
    PROVE  AnyOf(s) \in s
BY DEF AnyOf

(* The function by which a sum is defined exists: what satisfies the       *)
(* equation for small sets can be continued to larger ones.                *)
LEMMA SumFcnExists ==
    ASSUME NEW S, IsFiniteSet(S), NEW f
    PROVE  \E g : g = [s \in SUBSET S |-> SumBody(f, g, s)]
<1> DEFINE Upto(g, n) == /\ g = [s \in SUBSET S |-> g[s]]
                         /\ \A s \in SUBSET S :
                                Cardinality(s) <= n => g[s] = SumBody(f, g, s)
           G == {T \in SUBSET S : \E g : Upto(g, Cardinality(T))}
<1>1. ASSUME NEW T \in SUBSET S, \A U \in SUBSET T : U # T => U \in G
      PROVE  T \in G
    <2>1. CASE T = {}
        <3> DEFINE g == [s \in SUBSET S |-> 0]
        <3>1. g = [s \in SUBSET S |-> g[s]]
            OBVIOUS
        <3>2. ASSUME NEW s \in SUBSET S, Cardinality(s) <= Cardinality(T)
              PROVE  g[s] = SumBody(f, g, s)
            <4>1. s = {}
                BY <2>1, <3>2, FS_EmptySet, FS_Subset, FS_CardinalityType
            <4> QED BY <4>1 DEF SumBody
        <3> HIDE DEF g
        <3> QED BY <3>1, <3>2
    <2>2. CASE T # {}
        <3> DEFINE U == T \ {AnyOf(T)}
        <3>1. U \in SUBSET T /\ U # T
            BY <2>2, AnyOfIn
        <3>2. PICK g : Upto(g, Cardinality(U))
            BY <1>1, <3>1
        <3> DEFINE h == [s \in SUBSET S |-> SumBody(f, g, s)]
        <3>3. ASSUME NEW s \in SUBSET S, Cardinality(s) <= Cardinality(T)
              PROVE  h[s] = SumBody(f, h, s)
            <4>1. CASE s = {}
                BY <4>1 DEF SumBody
            <4>2. CASE s # {}
                <5> DEFINE r == s \ {AnyOf(s)}
                <5>0. IsFiniteSet(s) /\ IsFiniteSet(T)
                    BY FS_Subset
                <5>1. Cardinality(r) <= Cardinality(U) /\ r \in SUBSET S
                    <6>1. Cardinality(r) = Cardinality(s) - 1 /\ Cardinality(U) = Cardinality(T) - 1
                        BY <5>0, <4>2, <2>2, AnyOfIn, FS_RemoveElement
                    <6>2. Cardinality(s) \in Nat /\ Cardinality(T) \in Nat
                        BY <5>0, FS_CardinalityType
                    <6> QED BY <6>1, <6>2, <3>3
                <5>2. g[r] = SumBody(f, g, r)
                    BY <5>1, <3>2
                <5>3. h[r] = g[r]
                    BY <5>1, <5>2
                <5> QED BY <4>2, <5>3 DEF SumBody
            <4> QED BY <4>1, <4>2
        <3>4. h = [s \in SUBSET S |-> h[s]]
            OBVIOUS
        <3> HIDE DEF h
        <3> QED BY <3>3, <3>4
    <2> QED BY <2>1, <2>2
<1>2. S \in G
    <2> HIDE DEF G
    <2> QED BY <1>1, SubsetInduction
<1>3. PICK g : Upto(g, Cardinality(S))
    BY <1>2
<1>4. \A s \in SUBSET S : Cardinality(s) <= Cardinality(S)
    BY FS_Subset
<1>5. g = [s \in SUBSET S |-> SumBody(f, g, s)]
    BY <1>3, <1>4
<1> QED BY <1>5

(* SumFunctionOnSet satisfies the equation that defines it.                *)
LEMMA SumUnfolds ==
    ASSUME NEW S, IsFiniteSet(S), NEW f
    PROVE  \E g : /\ \A s \in SUBSET S : g[s] = SumBody(f, g, s)
                  /\ SumFunctionOnSet(f, S) = g[S]
<1> DEFINE c == CHOOSE g : g = [s \in SUBSET S |-> SumBody(f, g, s)]
<1>1. c = [s \in SUBSET S |-> SumBody(f, c, s)]
    BY SumFcnExists
<1>2. SumFunctionOnSet(f, S) = c[S]
    BY DEF SumFunctionOnSet, FoldFunctionOnSet, MapThenFoldSet, SumBody, AnyOf
<1> HIDE DEF c
<1> QED BY <1>1, <1>2

(* A sum of natural numbers is one, and as large as each of them.          *)
LEMMA SumNat ==
    ASSUME NEW S, IsFiniteSet(S), NEW f, \A x \in S : f[x] \in Nat
    PROVE  SumFunctionOnSet(f, S) \in Nat /\ \A x \in S : f[x] <= SumFunctionOnSet(f, S)
<1>1. PICK g : /\ \A s \in SUBSET S : g[s] = SumBody(f, g, s)
               /\ SumFunctionOnSet(f, S) = g[S]
    BY SumUnfolds
<1> DEFINE G == {T \in SUBSET S : g[T] \in Nat /\ \A x \in T : f[x] <= g[T]}
<1>2. ASSUME NEW T \in SUBSET S, \A U \in SUBSET T : U # T => U \in G
      PROVE  T \in G
    <2>1. CASE T = {}
        BY <1>1, <2>1 DEF SumBody
    <2>2. CASE T # {}
        <3> DEFINE U == T \ {AnyOf(T)}
        <3>1. U \in SUBSET T /\ U # T /\ AnyOf(T) \in S /\ T = U \cup {AnyOf(T)}
            BY <2>2, AnyOfIn
        <3>2. g[T] = f[AnyOf(T)] + g[U]
            BY <1>1, <2>2 DEF SumBody
        <3>3. U \in G
            BY <1>2, <3>1
        <3> HIDE DEF U
        <3>4. g[U] \in Nat /\ f[AnyOf(T)] \in Nat /\ \A x \in U : f[x] <= g[U] /\ f[x] \in Nat
            BY <3>1, <3>3
        <3>5. ASSUME NEW x \in T PROVE f[x] <= g[T]
            <4>1. x \in U \/ x = AnyOf(T)
                BY <3>1
            <4> QED BY <4>1, <3>4, <3>2
        <3> QED BY <3>2, <3>4, <3>5
    <2> QED BY <2>1, <2>2
<1>3. S \in G
    <2> HIDE DEF G
    <2> QED BY <1>2, SubsetInduction
<1> QED BY <1>1, <1>3

(* A sum of nothing but zeros is zero.                                     *)
LEMMA SumZero ==
    ASSUME NEW S, IsFiniteSet(S), NEW f, \A x \in S : f[x] = 0
    PROVE  SumFunctionOnSet(f, S) = 0
<1>1. PICK g : /\ \A s \in SUBSET S : g[s] = SumBody(f, g, s)
               /\ SumFunctionOnSet(f, S) = g[S]
    BY SumUnfolds
<1> DEFINE G == {T \in SUBSET S : g[T] = 0}
<1>2. ASSUME NEW T \in SUBSET S, \A U \in SUBSET T : U # T => U \in G
      PROVE  T \in G
    <2>1. CASE T = {}
        BY <1>1, <2>1 DEF SumBody
    <2>2. CASE T # {}
        <3> DEFINE c == AnyOf(T)
                   U == T \ {c}
        <3>1. U \in SUBSET T /\ U # T /\ c \in S
            BY <2>2, AnyOfIn
        <3>2. g[T] = f[c] + g[U]
            BY <1>1, <2>2 DEF SumBody
        <3>3. g[U] = 0 /\ f[c] = 0
            BY <1>2, <3>1
        <3> HIDE DEF c, U
        <3> QED BY <3>2, <3>3
    <2> QED BY <2>1, <2>2
<1>3. S \in G
    <2> HIDE DEF G
    <2> QED BY <1>2, SubsetInduction
<1> QED BY <1>1, <1>3

(* When one of the summands changes, the sum changes by as much.           *)
LEMMA SumShift ==
    ASSUME NEW S, IsFiniteSet(S), NEW f, NEW h, NEW a \in S,
           \A x \in S : f[x] \in Nat, h[a] \in Nat,
           \A x \in S : x # a => h[x] = f[x]
    PROVE  SumFunctionOnSet(h, S) + f[a] = SumFunctionOnSet(f, S) + h[a]
<1>1. PICK g : /\ \A s \in SUBSET S : g[s] = SumBody(f, g, s)
               /\ SumFunctionOnSet(f, S) = g[S]
    BY SumUnfolds
<1>2. PICK k : /\ \A s \in SUBSET S : k[s] = SumBody(h, k, s)
               /\ SumFunctionOnSet(h, S) = k[S]
    BY SumUnfolds
<1> DEFINE G == {T \in SUBSET S : /\ g[T] \in Nat /\ k[T] \in Nat
                                  /\ a \notin T => k[T] = g[T]
                                  /\ a \in T => k[T] + f[a] = g[T] + h[a]}
<1>3. ASSUME NEW T \in SUBSET S, \A U \in SUBSET T : U # T => U \in G
      PROVE  T \in G
    <2>1. CASE T = {}
        <3>1. g[T] = 0 /\ k[T] = 0
            BY <1>1, <1>2, <2>1 DEF SumBody
        <3> QED BY <2>1, <3>1
    <2>2. CASE T # {}
        <3> DEFINE c == AnyOf(T)
                   U == T \ {c}
        <3>1. U \in SUBSET T /\ U # T /\ c \in S /\ c \notin U /\ T = U \cup {c}
            BY <2>2, AnyOfIn
        <3>2. g[T] = f[c] + g[U] /\ k[T] = h[c] + k[U]
            BY <1>1, <1>2, <2>2 DEF SumBody
        <3>3. U \in G
            BY <1>3, <3>1
        <3> HIDE DEF c, U
        <3>4. /\ g[U] \in Nat /\ k[U] \in Nat /\ f[c] \in Nat /\ h[c] \in Nat /\ f[a] \in Nat
              /\ a \notin U => k[U] = g[U]
              /\ a \in U => k[U] + f[a] = g[U] + h[a]
            BY <3>1, <3>3
        <3>5. CASE c = a
            BY <3>1, <3>2, <3>4, <3>5
        <3>6. CASE c # a
            <4>1. h[c] = f[c] /\ (a \in T <=> a \in U)
                BY <3>1, <3>6
            <4> QED BY <4>1, <3>2, <3>4
        <3> QED BY <3>5, <3>6
    <2> QED BY <2>1, <2>2
<1>4. S \in G
    <2> HIDE DEF G
    <2> QED BY <1>3, SubsetInduction
<1> QED BY <1>1, <1>2, <1>4
-----------------------------------------------------------------------------
(* Whose references they are.                                              *)

(* The calls of add_file for file f that are not finished.                 *)
Adding(f) == {t \in Threads : place[t] # "idle" /\ work[t].kind = "add" /\ work[t].file = f}

(* There are finitely many of them.                                        *)
LEMMA AddingFinite ==
    ASSUME NEW f
    PROVE  IsFiniteSet(Adding(f)) /\ Cardinality(Adding(f)) \in Nat
<1>1. IsFiniteSet(Threads)
    BY ThreadsAssumption, FS_AddElement DEF Threads
<1> QED BY <1>1, FS_Subset, FS_CardinalityType DEF Adding

(* A step that ends no call of add_file, begins none and counts nothing    *)
(* else changes nothing about the owners of references.                    *)
LEMMA OwnersStay ==
    ASSUME ReferencesOwned, Running' => Running,
           \A f \in Files : Adding(f)' = Adding(f),
           \A f \in Files : fileRefs'[f] = fileRefs[f] /\ held'[f] = held[f],
           \A f \in Files : pathDirs'[f] = {} <=> pathDirs[f] = {}
    PROVE  ReferencesOwned'
BY DEF ReferencesOwned, Adding

(* References belong to the callers that hold them and to the calls that   *)
(* are under way, in every step.                                           *)
LEMMA OwnersStep ==
    ASSUME TypeOK, ReferencesOwned, [Next]_vars
    PROVE  ReferencesOwned'
<1>0. /\ fileRefs \in [Files -> Nat] /\ held \in [Files -> Nat]
      /\ pathDirs \in [Files -> SUBSET Dirs]
      /\ place \in [Threads -> Places] /\ work \in [Threads -> Work]
      /\ \A t \in Threads : work[t].kind \in {"add", "other"} /\ work[t].file \in Files
    BY DEF TypeOK, Work
<1> DEFINE n(f) == Cardinality(Adding(f))
<1>1. \A f \in Files : IsFiniteSet(Adding(f)) /\ n(f) \in Nat
    BY AddingFinite
<1>2. ASSUME NEW t \in Callers, NEW f \in Files, AddFile(t, f) PROVE ReferencesOwned'
    <2> DEFINE D == IF fileRefs[f] > 0 THEN pathDirs[f] ELSE disk[f]
    <2>1. /\ place[t] = "idle" /\ D # {} /\ t \in Threads /\ UNCHANGED <<stopping, held>>
          /\ fileRefs' = [fileRefs EXCEPT ![f] = @ + 1]
          /\ pathDirs' = [pathDirs EXCEPT ![f] = D]
          /\ place' = [place EXCEPT ![t] = "flush"]
        BY <1>2 DEF AddFile, Threads
    <2>2. /\ work'[t].kind = "add" /\ work'[t].file = f
          /\ \A u \in Threads : u # t => work'[u] = work[u]
        BY <1>0, <1>2, <2>1 DEF AddFile, Work
    <2> HIDE DEF D
    <2>3. Adding(f)' = Adding(f) \cup {t} /\ t \notin Adding(f)
        BY <1>0, <2>1, <2>2 DEF Adding
    <2>4. \A g \in Files : g # f => Adding(g)' = Adding(g)
        BY <1>0, <2>1, <2>2 DEF Adding
    <2>5. Cardinality(Adding(f)') = n(f) + 1
        BY <1>1, <2>3, FS_AddElement
    <2>6. CASE Running
        <3>1. ASSUME NEW g \in Files
              PROVE  /\ fileRefs'[g] > 0 <=> pathDirs'[g] # {}
                     /\ fileRefs'[g] = held'[g] + Cardinality(Adding(g)')
            <4>1. fileRefs[g] > 0 <=> pathDirs[g] # {}
                BY <2>6 DEF ReferencesOwned
            <4>2. fileRefs[g] = held[g] + n(g)
                BY <2>6 DEF ReferencesOwned, Adding
            <4> HIDE DEF n
            <4>3. CASE g = f
                BY <1>0, <1>1, <2>1, <2>5, <4>2, <4>3
            <4>4. CASE g # f
                BY <1>0, <2>1, <2>4, <4>1, <4>2, <4>4 DEF n
            <4> QED BY <4>3, <4>4
        <3> QED BY <3>1 DEF ReferencesOwned, Adding
    <2>7. CASE ~Running
        BY <2>1, <2>7 DEF ReferencesOwned, Running
    <2> QED BY <2>6, <2>7
<1>3. ASSUME NEW t \in Callers, NEW f \in Files, RemoveFile(t, f) PROVE ReferencesOwned'
    <2>1. /\ place[t] = "idle" /\ t \in Threads /\ stopping' = stopping
          /\ held[f] > 0 /\ fileRefs[f] > 0
          /\ held' = [held EXCEPT ![f] = @ - 1]
          /\ fileRefs' = FewerRefs(f) /\ pathDirs' = DirsOfFewer(f)
          /\ place' = [place EXCEPT ![t] = "flush"]
        BY <1>3 DEF RemoveFile, stopVars, Threads
    <2>2. work'[t].kind = "other" /\ \A u \in Threads : u # t => work'[u] = work[u]
        BY <1>0, <1>3, <2>1 DEF RemoveFile, Work
    <2>3. \A g \in Files : Adding(g)' = Adding(g)
        BY <1>0, <2>1, <2>2 DEF Adding
    <2>4. CASE Running
        <3>1. ASSUME NEW g \in Files
              PROVE  /\ fileRefs'[g] > 0 <=> pathDirs'[g] # {}
                     /\ fileRefs'[g] = held'[g] + Cardinality(Adding(g)')
            <4>1. fileRefs[g] > 0 <=> pathDirs[g] # {}
                BY <2>4 DEF ReferencesOwned
            <4>2. fileRefs[g] = held[g] + n(g)
                BY <2>4 DEF ReferencesOwned, Adding
            <4>3. Cardinality(Adding(g)') = n(g) /\ n(g) \in Nat
                BY <1>1, <2>3
            <4> HIDE DEF n
            <4>4. CASE g = f
                BY <1>0, <2>1, <4>1, <4>2, <4>3, <4>4 DEF FewerRefs, DirsOfFewer
            <4>5. CASE g # f
                BY <1>0, <2>1, <4>1, <4>2, <4>3, <4>5 DEF FewerRefs, DirsOfFewer
            <4> QED BY <4>4, <4>5
        <3> QED BY <3>1 DEF ReferencesOwned, Adding
    <2>5. CASE ~Running
        BY <2>1, <2>5 DEF ReferencesOwned, Running
    <2> QED BY <2>4, <2>5
<1>4. ASSUME NEW f \in Files, Dispatch(f) PROVE ReferencesOwned'
    <2>1. /\ place[Dispatcher] = "idle" /\ Dispatcher \in Threads
          /\ UNCHANGED <<stopping, held, fileRefs>>
          /\ fileRefs[f] > 0 /\ disk[f] # {} /\ Running
          /\ pathDirs' = [pathDirs EXCEPT ![f] = disk[f]]
          /\ place' = [place EXCEPT ![Dispatcher] = "flush"]
        BY <1>4 DEF Dispatch, stopVars, Threads
    <2>2. work'[Dispatcher].kind = "other" /\ \A u \in Threads : u # Dispatcher => work'[u] = work[u]
        BY <1>0, <1>4, <2>1 DEF Dispatch, Work
    <2>3. \A g \in Files : Adding(g)' = Adding(g)
        BY <1>0, <2>1, <2>2 DEF Adding
    <2>4. pathDirs[f] # {}
        BY <2>1 DEF ReferencesOwned
    <2>5. \A g \in Files : pathDirs'[g] = {} <=> pathDirs[g] = {}
        BY <1>0, <2>1, <2>4
    <2> QED BY <2>1, <2>3, <2>5, OwnersStay DEF Running
<1>5. ASSUME NEW t \in Threads, Granted(t) PROVE ReferencesOwned'
    <2>0. PICK f \in Files : f = work[t].file
        BY <1>0
    <2>1. /\ place[t] = "flush" /\ work[t].kind = "add" /\ UNCHANGED <<stopping, fileRefs, pathDirs>>
          /\ held' = [held EXCEPT ![f] = @ + 1] /\ place' = [place EXCEPT ![t] = "idle"]
          /\ work' = [work EXCEPT ![t] = NoWork]
        BY <1>5, <2>0 DEF Granted, Flushed, stopVars, fileVars
    <2>2. t \in Adding(f) /\ Adding(f)' = Adding(f) \ {t}
        BY <1>0, <2>0, <2>1 DEF Adding
    <2>3. \A g \in Files : g # f => Adding(g)' = Adding(g)
        BY <1>0, <2>0, <2>1 DEF Adding
    <2>4. Cardinality(Adding(f)') = n(f) - 1 /\ n(f) \in Nat /\ n(f) # 0
        BY <1>1, <2>2, FS_RemoveElement, FS_EmptySet
    <2>5. CASE Running
        <3>1. ASSUME NEW g \in Files
              PROVE  /\ fileRefs'[g] > 0 <=> pathDirs'[g] # {}
                     /\ fileRefs'[g] = held'[g] + Cardinality(Adding(g)')
            <4>1. fileRefs[g] > 0 <=> pathDirs[g] # {}
                BY <2>5 DEF ReferencesOwned
            <4>2. fileRefs[g] = held[g] + n(g)
                BY <2>5 DEF ReferencesOwned, Adding
            <4> HIDE DEF n
            <4>3. CASE g = f
                BY <1>0, <2>1, <2>4, <4>1, <4>2, <4>3
            <4>4. CASE g # f
                BY <1>0, <2>1, <2>3, <4>1, <4>2, <4>4 DEF n
            <4> QED BY <4>3, <4>4
        <3> QED BY <3>1 DEF ReferencesOwned, Adding
    <2>6. CASE ~Running
        BY <2>1, <2>6 DEF ReferencesOwned, Running
    <2> QED BY <2>5, <2>6
<1>6. ASSUME NEW t \in Threads, Rollback(t) PROVE ReferencesOwned'
    <2>0. PICK f \in Files : f = work[t].file
        BY <1>0
    <2>1. /\ place[t] = "flush" /\ work[t].kind = "add" /\ UNCHANGED <<stopping, held, place>>
          /\ fileRefs' = FewerRefs(f) /\ pathDirs' = DirsOfFewer(f)
        BY <1>6, <2>0 DEF Rollback, Flushed, stopVars
    <2>2. work'[t].kind = "other" /\ \A u \in Threads : u # t => work'[u] = work[u]
        BY <1>0, <1>6 DEF Rollback, Work
    <2>3. t \in Adding(f) /\ Adding(f)' = Adding(f) \ {t}
        BY <1>0, <2>0, <2>1, <2>2 DEF Adding
    <2>4. \A g \in Files : g # f => Adding(g)' = Adding(g)
        BY <1>0, <2>0, <2>1, <2>2 DEF Adding
    <2>5. Cardinality(Adding(f)') = n(f) - 1 /\ n(f) \in Nat /\ n(f) # 0
        BY <1>1, <2>3, FS_RemoveElement, FS_EmptySet
    <2>6. CASE Running
        <3>1. ASSUME NEW g \in Files
              PROVE  /\ fileRefs'[g] > 0 <=> pathDirs'[g] # {}
                     /\ fileRefs'[g] = held'[g] + Cardinality(Adding(g)')
            <4>1. fileRefs[g] > 0 <=> pathDirs[g] # {}
                BY <2>6 DEF ReferencesOwned
            <4>2. fileRefs[g] = held[g] + n(g)
                BY <2>6 DEF ReferencesOwned, Adding
            <4> HIDE DEF n
            <4>3. CASE g = f
                BY <1>0, <2>1, <2>5, <4>1, <4>2, <4>3 DEF FewerRefs, DirsOfFewer
            <4>4. CASE g # f
                BY <1>0, <2>1, <2>4, <4>1, <4>2, <4>4 DEF n, FewerRefs, DirsOfFewer
            <4> QED BY <4>3, <4>4
        <3> QED BY <3>1 DEF ReferencesOwned, Adding
    <2>7. CASE ~Running
        BY <2>1, <2>7 DEF ReferencesOwned, Running
    <2> QED BY <2>6, <2>7
<1>7. ASSUME NEW t \in Threads,
             \/ CheckReferenced(t) \/ Unschedule(t) \/ Schedule(t) \/ NoteWatch(t)
             \/ NoteFailure(t) \/ Return(t)
      PROVE  ReferencesOwned'
    <2>1. UNCHANGED <<stopping, held, fileRefs, pathDirs>>
        BY <1>7 DEF CheckReferenced, Unschedule, Schedule, NoteWatch, NoteFailure, Return,
           fileVars, stopVars
    <2>2. \A u \in Threads : u # t => work'[u] = work[u] /\ place'[u] = place[u]
        BY <1>0, <1>7 DEF CheckReferenced, Unschedule, Schedule, NoteWatch, NoteFailure, Return
    <2>3. \/ /\ place[t] # "idle" /\ place'[t] # "idle"
             /\ work'[t].kind = work[t].kind /\ work'[t].file = work[t].file
          \/ work[t].kind = "other" /\ place'[t] = "idle"
        <3>1. CASE CheckReferenced(t)
            BY <1>0, <3>1 DEF CheckReferenced, Work
        <3>2. CASE Unschedule(t)
            BY <1>0, <3>2 DEF Unschedule
        <3>3. CASE Schedule(t)
            BY <1>0, <3>3 DEF Schedule, Work
        <3>4. CASE NoteWatch(t)
            BY <1>0, <3>4 DEF NoteWatch
        <3>5. CASE NoteFailure(t)
            BY <1>0, <3>5 DEF NoteFailure, Work
        <3>6. CASE Return(t)
            BY <1>0, <3>6 DEF Return
        <3> QED BY <1>7, <3>1, <3>2, <3>3, <3>4, <3>5, <3>6
    <2>4. \A g \in Files : Adding(g)' = Adding(g)
        BY <2>2, <2>3 DEF Adding
    <2> QED BY <2>1, <2>4, OwnersStay DEF Running
<1>8. CASE \/ \E t \in Callers, f \in Files : AddFileRaises(t, f)
           \/ \E f \in Files : Move(f)
           \/ UnscheduleAll \/ StopEnds \/ UNCHANGED vars
    <2>1. UNCHANGED <<place, work, held, fileRefs, pathDirs>>
        BY <1>8 DEF AddFileRaises, Move, UnscheduleAll, StopEnds, vars, fileVars
    <2>2. Running' => Running
        BY <1>8 DEF AddFileRaises, Move, UnscheduleAll, StopEnds, vars, stopVars, Running
    <2>3. \A g \in Files : Adding(g)' = Adding(g)
        BY <2>1 DEF Adding
    <2> QED BY <2>1, <2>2, <2>3, OwnersStay
<1>9. CASE StopBegins
    BY <1>9 DEF StopBegins, ReferencesOwned, Running
<1> QED BY <1>2, <1>3, <1>4, <1>5, <1>6, <1>7, <1>8, <1>9 DEF Next, Flush

(* A file has exactly the references that callers hold and that calls of   *)
(* add_file which are under way have reserved, for any number of threads:  *)
(* a rollback takes one's own and none of another caller.                  *)
THEOREM ReferencesAreOwned == Spec => []ReferencesOwned
<1>1. Init => ReferencesOwned
    <2> SUFFICES ASSUME Init, NEW f \in Files
                 PROVE  /\ fileRefs[f] > 0 <=> pathDirs[f] # {}
                        /\ fileRefs[f] = held[f] + Cardinality(Adding(f))
        BY DEF ReferencesOwned, Adding
    <2>1. Adding(f) = {} /\ fileRefs[f] = 0 /\ held[f] = 0 /\ pathDirs[f] = {}
        BY DEF Init, Adding
    <2> QED BY <2>1, FS_EmptySet
<1>2. TypeOK /\ ReferencesOwned /\ [Next]_vars => ReferencesOwned'
    BY OwnersStep
<1> QED BY <1>1, <1>2, TypeCorrect, PTL DEF Spec
-----------------------------------------------------------------------------
(* Counts are references.                                                  *)

(* What a table counts for a target, and what a file has to do with it.    *)
Count(es, x) == IF es[x] = NoEntry THEN 0 ELSE es[x].count
Share(f, x) == fileRefs[f] * Cardinality(Covered(pathDirs[f], x))

(* CountsAreReferences in these terms.                                     *)
CountsMatch == \A x \in Targets \ unbalanced : References(x) = Count(entries, x)

LEMMA CountsByShares == CountsAreReferences <=> (Running => CountsMatch)
BY DEF CountsAreReferences, CountsMatch, Count

(* Reserving adds to the count what is covered, ...                        *)
LEMMA ReservingCounts ==
    ASSUME NEW es \in Table, NEW D \in SUBSET Dirs, NEW n \in Nat, NEW o, NEW x \in Targets,
           generation \in Nat
    PROVE  Count(Reserve(es, D, n, o), x) = Count(es, x) + n * Cardinality(Covered(D, x))
<1> DEFINE k == n * Cardinality(Covered(D, x))
           r == Reserve(es, D, n, o)
<1>1. k \in Nat
    BY CoveredCount
<1>2. r[x] = IF k = 0 THEN es[x]
             ELSE IF es[x] # NoEntry THEN [es[x] EXCEPT !.count = @ + k]
             ELSE [count |-> k, gen |-> generation + 1, watch |-> FALSE,
                   raced |-> AboutToUnschedule(o, x)]
    BY DEF Reserve
<1> SUFFICES Count(r, x) = Count(es, x) + k
    OBVIOUS
<1> HIDE DEF k, r
<1>3. CASE k = 0
    BY <1>2, <1>3 DEF Count, Table, Entry
<1>4. CASE k # 0 /\ es[x] # NoEntry
    <2>1. es[x] \in Entry
        BY <1>4 DEF Table
    <2>2. r[x] = [es[x] EXCEPT !.count = @ + k]
        BY <1>2, <1>4
    <2>3. r[x].count = es[x].count + k /\ r[x] \in Entry
        BY <1>1, <2>1, <2>2 DEF Entry
    <2> QED BY <1>4, <2>3, NoEntryAssumption DEF Count
<1>5. CASE k # 0 /\ es[x] = NoEntry
    <2>1. r[x] = [count |-> k, gen |-> generation + 1, watch |-> FALSE,
                  raced |-> AboutToUnschedule(o, x)]
        BY <1>2, <1>5
    <2>2. AboutToUnschedule(o, x) \in BOOLEAN
        BY DEF AboutToUnschedule
    <2>3. r[x].count = k /\ r[x] \in Entry
        BY <1>1, <1>5, <2>1, <2>2 DEF Entry
    <2> QED BY <1>1, <1>5, <2>3, NoEntryAssumption DEF Count
<1> QED BY <1>3, <1>4, <1>5

(* ... and releasing takes it away again, if it was there.                 *)
LEMMA ReleasingCounts ==
    ASSUME NEW es \in Table, NEW D \in SUBSET Dirs, NEW n \in Nat, NEW x \in Targets,
           n * Cardinality(Covered(D, x)) <= Count(es, x)
    PROVE  Count(Release(es, D, n), x) = Count(es, x) - n * Cardinality(Covered(D, x))
<1> DEFINE k == n * Cardinality(Covered(D, x))
           r == Release(es, D, n)
<1>1. k \in Nat /\ k <= Count(es, x)
    BY CoveredCount
<1>2. r[x] = IF es[x] = NoEntry \/ k = 0 THEN es[x]
             ELSE IF es[x].count > k THEN [es[x] EXCEPT !.count = @ - k] ELSE NoEntry
    BY DEF Release
<1> SUFFICES Count(r, x) = Count(es, x) - k
    OBVIOUS
<1> HIDE DEF k, r
<1>3. CASE es[x] = NoEntry \/ k = 0
    BY <1>1, <1>2, <1>3 DEF Count, Table, Entry
<1>4. CASE es[x] # NoEntry /\ k # 0
    <2>1. es[x] \in Entry /\ es[x].count \in Nat
        BY <1>4 DEF Table, Entry
    <2>2. CASE es[x].count > k
        <3>1. r[x] = [es[x] EXCEPT !.count = @ - k]
            BY <1>2, <1>4, <2>2
        <3>2. r[x].count = es[x].count - k /\ r[x] \in Entry
            BY <1>1, <2>1, <2>2, <3>1 DEF Entry
        <3> QED BY <1>4, <3>2, NoEntryAssumption DEF Count
    <2>3. CASE ~(es[x].count > k)
        BY <1>1, <1>2, <1>4, <2>1, <2>3 DEF Count
    <2> QED BY <2>2, <2>3
<1> QED BY <1>3, <1>4

(* The references of a target are the sum of the shares.                   *)
LEMMA SharesAdd ==
    TypeOK => \A x \in Targets :
        /\ References(x) \in Nat
        /\ \A f \in Files : Share(f, x) \in Nat /\ Share(f, x) <= References(x)
<1> SUFFICES ASSUME TypeOK, NEW x \in Targets
             PROVE  /\ References(x) \in Nat
                    /\ \A f \in Files : Share(f, x) \in Nat /\ Share(f, x) <= References(x)
    OBVIOUS
<1> DEFINE s == [f \in Files |-> Share(f, x)]
<1>1. \A f \in Files : Share(f, x) \in Nat /\ s[f] = Share(f, x)
    BY CoveredCount DEF TypeOK, Share
<1>2. References(x) = SumFunctionOnSet(s, Files)
    BY DEF References, Share
<1> HIDE DEF s
<1>3. \A f \in Files : s[f] \in Nat
    BY <1>1
<1>4. SumFunctionOnSet(s, Files) \in Nat /\ \A f \in Files : s[f] <= SumFunctionOnSet(s, Files)
    BY <1>3, TargetsAssumption, SumNat
<1> QED BY <1>1, <1>2, <1>4

(* When the share of one file changes, they change by as much.             *)
LEMMA SharesShift ==
    ASSUME TypeOK, TypeOK', NEW x \in Targets, NEW f \in Files,
           \A g \in Files : g # f => fileRefs'[g] = fileRefs[g] /\ pathDirs'[g] = pathDirs[g]
    PROVE  /\ References(x)' + Share(f, x) = References(x) + Share(f, x)'
           /\ References(x)' \in Nat /\ Share(f, x)' \in Nat
<1> DEFINE s == [g \in Files |-> Share(g, x)]
           r == [g \in Files |-> fileRefs'[g] * Cardinality(Covered(pathDirs'[g], x))]
<1>1. \A g \in Files : s[g] = Share(g, x) /\ Share(g, x) \in Nat
    BY CoveredCount DEF TypeOK, Share
<1>2. \A g \in Files : r[g] = Share(g, x)' /\ Share(g, x)' \in Nat
    BY CoveredCount DEF TypeOK, Share
<1>3. References(x) = SumFunctionOnSet(s, Files) /\ References(x)' = SumFunctionOnSet(r, Files)
    BY DEF References, Share, Covered
<1>4. \A g \in Files : g # f => r[g] = s[g]
    BY DEF Share
<1> HIDE DEF s, r
<1>5. SumFunctionOnSet(r, Files) + s[f] = SumFunctionOnSet(s, Files) + r[f]
    <2>1. /\ \A g \in Files : s[g] \in Nat
          /\ r[f] \in Nat /\ IsFiniteSet(Files)
        BY <1>1, <1>2, TargetsAssumption
    <2> QED BY <1>4, <2>1, SumShift
<1>6. SumFunctionOnSet(r, Files) \in Nat
    <2>1. \A g \in Files : r[g] \in Nat
        BY <1>2
    <2> QED BY <2>1, TargetsAssumption, SumNat
<1> QED BY <1>1, <1>2, <1>3, <1>5, <1>6

(* So a step keeps the counts if it adds to each of them what one file     *)
(* comes to share.                                                         *)
LEMMA CountsShift ==
    ASSUME TypeOK, TypeOK', CountsMatch, NEW f \in Files,
           \A g \in Files : g # f => fileRefs'[g] = fileRefs[g] /\ pathDirs'[g] = pathDirs[g],
           unbalanced \subseteq unbalanced',
           \A x \in Targets \ unbalanced' :
                Count(entries', x) + Share(f, x) = Count(entries, x) + Share(f, x)'
    PROVE  CountsMatch'
<1> SUFFICES ASSUME NEW x \in Targets \ unbalanced'
             PROVE  References(x)' = Count(entries', x)
    BY DEF CountsMatch, Count
<1>1. References(x) = Count(entries, x)
    BY DEF CountsMatch
<1>2. References(x)' + Share(f, x) = References(x) + Share(f, x)'
    BY SharesShift
<1>3. References(x) \in Nat /\ Share(f, x) \in Nat
    BY SharesAdd
<1>4. References(x)' \in Nat /\ Share(f, x)' \in Nat
    BY SharesShift
<1>5. Count(entries', x) \in Nat
    BY DEF Count, TypeOK, Entry
<1> QED BY <1>1, <1>2, <1>3, <1>4, <1>5

(* One reference less takes what the file shared for one reference.        *)
LEMMA FewerShares ==
    ASSUME TypeOK, NEW f \in Files, NEW x, fileRefs[f] > 0,
           fileRefs' = FewerRefs(f), pathDirs' = DirsOfFewer(f)
    PROVE  /\ \A g \in Files : g # f => fileRefs'[g] = fileRefs[g] /\ pathDirs'[g] = pathDirs[g]
           /\ Share(f, x)' = Share(f, x) - Cardinality(Covered(pathDirs[f], x))
           /\ Cardinality(Covered(pathDirs[f], x)) \in Nat
           /\ Cardinality(Covered(pathDirs[f], x)) <= Share(f, x)
<1> DEFINE k == Cardinality(Covered(pathDirs[f], x))
<1>0. fileRefs \in [Files -> Nat] /\ pathDirs \in [Files -> SUBSET Dirs]
    BY DEF TypeOK
<1>1. k \in Nat
    BY <1>0, CoveredNat
<1>2. \A g \in Files : g # f => fileRefs'[g] = fileRefs[g] /\ pathDirs'[g] = pathDirs[g]
    BY <1>0 DEF FewerRefs, DirsOfFewer
<1>3. CASE fileRefs[f] > 1
    <2>1. fileRefs'[f] = fileRefs[f] - 1 /\ pathDirs'[f] = pathDirs[f]
        BY <1>0, <1>3 DEF FewerRefs, DirsOfFewer
    <2>2. Share(f, x)' = (fileRefs[f] - 1) * k
        BY <2>1 DEF Share, Covered
    <2>3. Share(f, x) = fileRefs[f] * k /\ fileRefs[f] \in Nat
        BY <1>0 DEF Share
    <2> HIDE DEF k
    <2>4. (fileRefs[f] - 1) * k = fileRefs[f] * k - k /\ k <= fileRefs[f] * k
        BY <1>1, <1>3, <2>3
    <2> QED BY <1>1, <1>2, <2>2, <2>3, <2>4 DEF k
<1>4. CASE fileRefs[f] = 1
    <2>1. fileRefs'[f] = 0
        BY <1>0, <1>4 DEF FewerRefs
    <2>2. Cardinality(Covered(pathDirs'[f], x)) \in Nat
        <3>1. pathDirs'[f] \in SUBSET Dirs
            BY <1>0 DEF DirsOfFewer
        <3> QED BY <3>1, CoveredNat
    <2>3. Share(f, x)' = 0
        BY <2>1, <2>2 DEF Share, Covered
    <2>4. Share(f, x) = k
        BY <1>1, <1>4 DEF Share
    <2> QED BY <1>1, <1>2, <2>3, <2>4
<1> QED BY <1>0, <1>3, <1>4

(* The count of a target is the sum of the references in every step, but   *)
(* for what a refusal or a late rollback takes away.                       *)
LEMMA CountsStep ==
    ASSUME TypeOK, TypeOK', ReferencesOwned, CountsAreReferences, [Next]_vars
    PROVE  CountsAreReferences'
<1>0. /\ entries \in Table /\ generation \in Nat
      /\ fileRefs \in [Files -> Nat] /\ pathDirs \in [Files -> SUBSET Dirs]
      /\ disk \in [Files -> SUBSET Dirs]
      /\ \A t \in Threads : work[t].file \in Files /\ work[t].dirs \in SUBSET Dirs
    BY BoundsAssumption DEF TypeOK, Table, Work
<1>k. \A D \in SUBSET Dirs : \A x : Cardinality(Covered(D, x)) \in Nat
    BY CoveredNat
<1>1. Running' => Running
    BY DEF Next, AddFile, AddFileRaises, RemoveFile, Dispatch, Flush, CheckReferenced, Unschedule,
       Schedule, NoteWatch, NoteFailure, Granted, Rollback, Return, StopBegins, UnscheduleAll,
       StopEnds, Move, vars, stopVars, Running
<1> SUFFICES ASSUME Running', Running, CountsMatch PROVE CountsMatch'
    <2>1. CountsAreReferences' <=> (Running' => CountsMatch')
        BY DEF CountsAreReferences, CountsMatch, Count
    <2> QED BY <1>1, <2>1, CountsByShares
<1>2. ASSUME NEW t \in Callers, NEW f \in Files, AddFile(t, f) PROVE CountsMatch'
    <2> DEFINE D == IF fileRefs[f] > 0 THEN pathDirs[f] ELSE disk[f]
    <2>1. /\ fileRefs' = [fileRefs EXCEPT ![f] = @ + 1] /\ pathDirs' = [pathDirs EXCEPT ![f] = D]
          /\ entries' = Reserve(entries, D, 1, PreparedObserver) /\ unbalanced' = unbalanced
        BY <1>2 DEF AddFile
    <2>2. D \in SUBSET Dirs
        BY <1>0
    <2>3. ASSUME NEW x \in Targets
          PROVE  Count(entries', x) + Share(f, x) = Count(entries, x) + Share(f, x)'
        <3> DEFINE k == Cardinality(Covered(D, x))
        <3>1. Count(entries', x) = Count(entries, x) + 1 * k
            BY <1>0, <2>1, <2>2, ReservingCounts
        <3>2. Share(f, x)' = (fileRefs[f] + 1) * k
            BY <1>0, <2>1 DEF Share, Covered
        <3>3. Share(f, x) = fileRefs[f] * k
            <4>1. CASE fileRefs[f] > 0
                BY <4>1 DEF Share
            <4>2. CASE fileRefs[f] = 0
                BY <1>0, <1>k, <2>2, <4>2 DEF Share
            <4> QED BY <1>0, <4>1, <4>2
        <3>4. k \in Nat /\ fileRefs[f] \in Nat /\ Count(entries, x) \in Nat
            BY <1>0, <1>k, <2>2 DEF Count, Table, Entry
        <3> HIDE DEF k
        <3>5. (fileRefs[f] + 1) * k = fileRefs[f] * k + k /\ fileRefs[f] * k \in Nat
            BY <3>4
        <3> QED BY <3>1, <3>2, <3>3, <3>4, <3>5
    <2>4. \A g \in Files : g # f => fileRefs'[g] = fileRefs[g] /\ pathDirs'[g] = pathDirs[g]
        BY <1>0, <2>1
    <2> QED BY <2>1, <2>3, <2>4, CountsShift
<1>3. ASSUME NEW f \in Files, NEW D \in SUBSET Dirs, fileRefs[f] > 0,
             fileRefs' = FewerRefs(f), pathDirs' = DirsOfFewer(f),
             entries' = Release(entries, D, 1), unbalanced \subseteq unbalanced',
             \A x \in Targets \ unbalanced' : Covered(D, x) = Covered(pathDirs[f], x)
      PROVE  CountsMatch'
    <2>1. ASSUME NEW x \in Targets \ unbalanced'
          PROVE  Count(entries', x) + Share(f, x) = Count(entries, x) + Share(f, x)'
        <3> DEFINE k == Cardinality(Covered(pathDirs[f], x))
        <3>1. Share(f, x)' = Share(f, x) - k /\ k \in Nat /\ k <= Share(f, x)
            BY <1>3, FewerShares
        <3>2. Share(f, x) \in Nat /\ Share(f, x) <= References(x) /\ References(x) \in Nat
            BY SharesAdd
        <3>3. References(x) = Count(entries, x)
            BY <1>3, <2>1 DEF CountsMatch
        <3>4. Cardinality(Covered(D, x)) = k
            BY <1>3, <2>1
        <3>5. 1 * Cardinality(Covered(D, x)) <= Count(entries, x)
            BY <3>1, <3>2, <3>3, <3>4
        <3>6. Count(entries', x) = Count(entries, x) - 1 * Cardinality(Covered(D, x))
            BY <1>0, <1>3, <3>5, ReleasingCounts
        <3> QED BY <3>1, <3>2, <3>3, <3>4, <3>6
    <2>2. \A g \in Files : g # f => fileRefs'[g] = fileRefs[g] /\ pathDirs'[g] = pathDirs[g]
        BY <1>0, <1>3 DEF FewerRefs, DirsOfFewer
    <2> QED BY <1>3, <2>1, <2>2, CountsShift
<1>4. ASSUME NEW t \in Callers, NEW f \in Files, RemoveFile(t, f) PROVE CountsMatch'
    BY <1>0, <1>3, <1>4 DEF RemoveFile
<1>5. ASSUME NEW t \in Threads, Rollback(t) PROVE CountsMatch'
    <2>1. PICK f \in Files : f = work[t].file
        BY <1>0
    <2>2. PICK D \in SUBSET Dirs : D = work[t].dirs
        BY <1>0
    <2>3. /\ place[t] = "flush" /\ work[t].kind = "add"
          /\ fileRefs' = FewerRefs(f) /\ pathDirs' = DirsOfFewer(f)
          /\ entries' = Release(entries, D, 1)
          /\ unbalanced' = unbalanced \cup {Target[d] : d \in SymDiff(D, pathDirs[f])}
        BY <1>5, <2>1, <2>2 DEF Rollback, Flushed
    <2>4. fileRefs[f] > 0
        <3>1. t \in Adding(f)
            BY <2>1, <2>3 DEF Adding
        <3>2. Cardinality(Adding(f)) \in Nat /\ Cardinality(Adding(f)) # 0
            BY <3>1, AddingFinite, FS_EmptySet
        <3>3. fileRefs[f] = held[f] + Cardinality(Adding(f)) /\ held[f] \in Nat
            BY DEF ReferencesOwned, Adding, TypeOK
        <3> QED BY <3>2, <3>3
    <2>5. ASSUME NEW x \in Targets \ unbalanced' PROVE Covered(D, x) = Covered(pathDirs[f], x)
        BY <2>3, <2>5 DEF Covered, SymDiff
    <2> QED BY <1>3, <2>3, <2>4, <2>5
<1>6. ASSUME NEW f \in Files, Dispatch(f) PROVE CountsMatch'
    <2> DEFINE n == fileRefs[f]
               old == pathDirs[f]
               new == disk[f]
               es == Reserve(entries, new \ old, n, observer)
    <2>1. /\ fileRefs' = fileRefs /\ pathDirs' = [pathDirs EXCEPT ![f] = new]
          /\ entries' = Release(es, old \ new, n) /\ unbalanced' = unbalanced
        BY <1>6 DEF Dispatch
    <2>2. new \in SUBSET Dirs /\ old \in SUBSET Dirs /\ n \in Nat
        BY <1>0
    <2>3. es \in Table
        BY <1>0, <2>2, Reserving
    <2>4. ASSUME NEW x \in Targets \ unbalanced
          PROVE  Count(entries', x) + Share(f, x) = Count(entries, x) + Share(f, x)'
        <3> DEFINE a == Cardinality(Covered(new \ old, x))
                   b == Cardinality(Covered(old \ new, x))
                   c == Cardinality(Covered(old \cap new, x))
        <3>1. a \in Nat /\ b \in Nat /\ c \in Nat
            BY <1>k, <2>2
        <3>2. Cardinality(Covered(new, x)) = a + c /\ Cardinality(Covered(old, x)) = b + c
            <4>1. /\ Covered(new, x) = Covered(new \ old, x) \cup Covered(old \cap new, x)
                  /\ Covered(new \ old, x) \cap Covered(old \cap new, x) = {}
                  /\ Covered(old, x) = Covered(old \ new, x) \cup Covered(old \cap new, x)
                  /\ Covered(old \ new, x) \cap Covered(old \cap new, x) = {}
                BY DEF Covered
            <4>2. /\ IsFiniteSet(Covered(new \ old, x)) /\ IsFiniteSet(Covered(old \ new, x))
                  /\ IsFiniteSet(Covered(old \cap new, x))
                BY <2>2, CoveredNat
            <4>3. \A S, T : IsFiniteSet(S) /\ IsFiniteSet(T) /\ S \cap T = {} =>
                     Cardinality(S \cup T) = Cardinality(S) + Cardinality(T) - 0
                BY FS_Union, FS_EmptySet
            <4>4. Cardinality(Covered(new, x)) = a + c - 0
                BY <4>1, <4>2, <4>3
            <4>5. Cardinality(Covered(old, x)) = b + c - 0
                BY <4>1, <4>2, <4>3
            <4> QED BY <3>1, <4>4, <4>5
        <3>3. Count(es, x) = Count(entries, x) + n * a
            BY <1>0, <2>2, ReservingCounts
        <3>4. Share(f, x) = n * (b + c) /\ Share(f, x)' = n * (a + c)
            BY <1>0, <2>1, <3>2 DEF Share, Covered
        <3>5. Share(f, x) <= Count(entries, x) /\ Count(entries, x) \in Nat
            BY SharesAdd, <2>4 DEF CountsMatch
        <3> HIDE DEF a, b, c, n, es
        <3>6. /\ n * (b + c) = n * b + n * c /\ n * (a + c) = n * a + n * c
              /\ n * a \in Nat /\ n * b \in Nat /\ n * c \in Nat
            BY <2>2, <3>1
        <3>7. n * b <= Count(es, x)
            BY <3>3, <3>4, <3>5, <3>6
        <3>8. Count(entries', x) = Count(es, x) - n * b
            <4> USE DEF b
            <4>1. n * Cardinality(Covered(old \ new, x)) <= Count(es, x)
                BY <3>7
            <4>2. old \ new \in SUBSET Dirs
                BY <2>2
            <4> HIDE DEF old, new
            <4> QED BY <2>1, <2>2, <2>3, <4>1, <4>2, ReleasingCounts
        <3> QED BY <3>3, <3>4, <3>5, <3>6, <3>8
    <2>5. \A g \in Files : g # f => fileRefs'[g] = fileRefs[g] /\ pathDirs'[g] = pathDirs[g]
        BY <1>0, <2>1
    <2> QED BY <2>1, <2>4, <2>5, CountsShift
<1>7. ASSUME UNCHANGED <<fileRefs, pathDirs>>, unbalanced \subseteq unbalanced',
             \A x \in Targets \ unbalanced' : Count(entries', x) = Count(entries, x)
      PROVE  CountsMatch'
    BY <1>7 DEF CountsMatch, References, Covered, Count
<1>8. ASSUME NEW t \in Threads, NoteWatch(t) PROVE CountsMatch'
    <2>1. UNCHANGED <<fileRefs, pathDirs, unbalanced>>
        BY <1>8 DEF NoteWatch, fileVars
    <2>2. ASSUME NEW x \in Targets PROVE Count(entries', x) = Count(entries, x)
        <3> DEFINE y == work[t].at
        <3>1. CASE entries'[x] = entries[x]
            BY <3>1 DEF Count
        <3>2. CASE entries[x] # NoEntry /\ entries[x] \in Entry
                   /\ entries'[x] = [entries[x] EXCEPT !.watch = TRUE]
            <4>1. entries'[x] \in Entry /\ entries'[x].count = entries[x].count
                BY <3>2 DEF Entry
            <4> QED BY <3>2, <4>1, NoEntryAssumption DEF Count
        <3>3. CASE entries[x] # NoEntry /\ entries[x] \in Entry
                   /\ entries'[x] = [entries[x] EXCEPT !.raced = TRUE]
            <4>1. entries'[x] \in Entry /\ entries'[x].count = entries[x].count
                BY <3>3 DEF Entry
            <4> QED BY <3>3, <4>1, NoEntryAssumption DEF Count
        <3>4. entries[x] # NoEntry => entries[x] \in Entry
            BY <1>0 DEF Table
        <3>5. \/ entries' = entries
              \/ entries[y] # NoEntry /\ entries' = [entries EXCEPT ![y].watch = TRUE]
              \/ entries[y] # NoEntry /\ entries' = [entries EXCEPT ![y].raced = TRUE]
            BY <1>8 DEF NoteWatch, OwnEntry
        <3> QED BY <1>0, <3>1, <3>2, <3>3, <3>4, <3>5 DEF Table
    <2> QED BY <1>7, <2>1, <2>2
<1>9. ASSUME NEW t \in Threads, NoteFailure(t) PROVE CountsMatch'
    <2>1. UNCHANGED <<fileRefs, pathDirs>> /\ unbalanced \subseteq unbalanced'
        BY <1>9 DEF NoteFailure, fileVars
    <2>2. ASSUME NEW x \in Targets \ unbalanced' PROVE Count(entries', x) = Count(entries, x)
        BY <1>0, <1>9, <2>2 DEF NoteFailure, Count, Table
    <2> QED BY <1>7, <2>1, <2>2
<1>10. ASSUME NEW t \in Threads,
              CheckReferenced(t) \/ Unschedule(t) \/ Schedule(t) \/ Granted(t) \/ Return(t)
       PROVE  CountsMatch'
    <2>1. UNCHANGED <<fileRefs, pathDirs, unbalanced, entries>>
        BY <1>10 DEF CheckReferenced, Unschedule, Schedule, Granted, Return, fileVars
    <2> QED BY <1>7, <2>1
<1>11. CASE \/ \E t \in Callers, f \in Files : AddFileRaises(t, f)
            \/ \E f \in Files : Move(f)
            \/ UnscheduleAll \/ StopEnds \/ UNCHANGED vars
    <2>1. UNCHANGED <<fileRefs, pathDirs, unbalanced, entries>>
        BY <1>11 DEF AddFileRaises, Move, UnscheduleAll, StopEnds, vars, fileVars
    <2> QED BY <1>7, <2>1
<1>12. CASE StopBegins
    BY <1>12 DEF StopBegins, Running
<1> QED BY <1>2, <1>4, <1>5, <1>6, <1>8, <1>9, <1>10, <1>11, <1>12 DEF Next, Flush

(* Whatever threads add, remove and roll back and however files move: the  *)
(* count of a target is the number of the references that files have on    *)
(* it, so it is given up when, and only when, no file needs it.            *)
THEOREM CountsAreRight == Spec => []CountsAreReferences
<1>1. Init => CountsAreReferences
    <2> SUFFICES ASSUME Init, NEW x \in Targets PROVE References(x) = Count(entries, x)
        BY DEF CountsAreReferences, Count
    <2>1. TypeOK
        BY TypeInit
    <2> DEFINE s == [f \in Files |-> fileRefs[f] * Cardinality(Covered(pathDirs[f], x))]
    <2>2. \A f \in Files : s[f] = 0
        <3>1. \A f \in Files : Cardinality(Covered(pathDirs[f], x)) \in Nat
            BY <2>1, CoveredNat DEF TypeOK
        <3> QED BY <3>1 DEF Init
    <2>3. References(x) = SumFunctionOnSet(s, Files)
        BY DEF References
    <2> HIDE DEF s
    <2>4. SumFunctionOnSet(s, Files) = 0
        BY <2>2, TargetsAssumption, SumZero
    <2>5. entries[x] = NoEntry
        BY DEF Init
    <2> QED BY <2>3, <2>4, <2>5 DEF Count
<1>2. TypeOK /\ TypeOK' /\ ReferencesOwned /\ CountsAreReferences /\ [Next]_vars
        => CountsAreReferences'
    BY CountsStep
<1> QED BY <1>1, <1>2, TypeCorrect, ReferencesAreOwned, PTL DEF Spec

(* When all calls are finished, the targets of the files that callers hold *)
(* are watched, but for refusals and for the races that are known: the     *)
(* counts are right, so there is an entry; nothing is pending, so it has a *)
(* watch; and what has one is watched.                                     *)
THEOREM HeldIsWatched == Spec => []WatchedUnlessRaced
<1>1. IInv /\ ReferencesOwned /\ CountsAreReferences => WatchedUnlessRaced
    <2> SUFFICES ASSUME IInv, ReferencesOwned, CountsAreReferences, Running, Quiet,
                        NEW f \in Files, held[f] > 0,
                        NEW x \in {Target[d] : d \in pathDirs[f]} \ unbalanced
                 PROVE  /\ entries[x] # NoEntry /\ entries[x].watch
                        /\ entries[x].raced \/ x \in watched[observer]
        BY DEF WatchedUnlessRaced
    <2>0. TypeOK /\ fileRefs[f] \in Nat /\ held[f] \in Nat /\ pathDirs[f] \in SUBSET Dirs
        BY DEF IInv, TypeOK
    <2>1. PICK d \in pathDirs[f] : x = Target[d]
        OBVIOUS
    <2>2. x \in Targets \ unbalanced
        BY <2>0, <2>1, TargetsAssumption
    <2>3. fileRefs[f] > 0
        <3>1. fileRefs[f] = held[f] + Cardinality(Adding(f))
            BY DEF ReferencesOwned, Adding
        <3> QED BY <2>0, <3>1, AddingFinite
    <2>4. Share(f, x) > 0
        <3>1. IsFiniteSet(Covered(pathDirs[f], x)) /\ d \in Covered(pathDirs[f], x)
            BY <2>0, <2>1, CoveredNat DEF Covered
        <3>2. /\ Cardinality(Covered(pathDirs[f], x)) \in Nat
              /\ Cardinality(Covered(pathDirs[f], x)) # 0
            BY <3>1, FS_CardinalityType, FS_EmptySet
        <3> DEFINE k == Cardinality(Covered(pathDirs[f], x))
        <3>3. Share(f, x) = fileRefs[f] * k
            BY DEF Share
        <3> HIDE DEF k
        <3>4. k \in Nat /\ k > 0
            BY <3>2 DEF k
        <3> QED BY <2>0, <2>3, <3>3, <3>4
    <2>5. References(x) > 0
        BY <2>0, <2>2, <2>4, SharesAdd
    <2>6. entries[x] # NoEntry
        BY <2>2, <2>5 DEF CountsAreReferences
    <2>7. entries[x].watch
        <3>1. \A t \in Threads : ~Pending(t, x)
            BY DEF Quiet, Pending
        <3>2. entries[x].watch \in BOOLEAN
            BY <2>0, <2>2, <2>6 DEF TypeOK, Entry
        <3> QED BY <2>2, <2>6, <3>1, <3>2 DEF IInv, EntryPending
    <2> QED BY <2>2, <2>6, <2>7 DEF IInv, NotedWatched
<1> QED BY <1>1, Inductive, ReferencesAreOwned, CountsAreRight, PTL
=============================================================================
