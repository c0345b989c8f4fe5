---------------------------- MODULE WatchRegistry ----------------------------
(***************************************************************************)
(* The registry of observed files of the daemon (FileObserverRegistry).    *)
(* Files are counted, and for each directory of a file a reference is      *)
(* added to the watch target that covers it.  The internal lock protects   *)
(* the counts; watchdog is told only after it was released, so between a   *)
(* decision and the call to watchdog the other threads go on.              *)
(*                                                                         *)
(* Threads that add and remove files: those that load and unload launch    *)
(* files and start and stop nodes.  The dispatcher is the thread of        *)
(* watchdog that delivers events; it holds the lock of the observer while  *)
(* it does.  A locked section is one action, a call to watchdog is one.    *)
(***************************************************************************)
EXTENDS Naturals, FiniteSets, FiniteSetsExt

CONSTANTS
    Callers,     \* the threads that add and remove files
    Dispatcher,  \* the thread that delivers events
    Files,       \* logical paths
    Dirs,        \* directories
    Targets,     \* what is scheduled: a single directory or a watch root
    Target,      \* Target[d]: the target that covers directory d
    MayFail,     \* the targets that the system may refuse to watch
    NoEntry,     \* a target without an entry
    MaxRefs,     \* bound: references of one file
    MaxGen,      \* bound: generations of entries
    MaxMoves     \* bound: how often a file or a link of its path moves

Threads == Callers \cup {Dispatcher}

(* stop() is called once; an observer made after it is the second one.      *)
Observers == {1, 2}

ASSUME ThreadsAssumption == Dispatcher \notin Callers /\ IsFiniteSet(Callers)
ASSUME TargetsAssumption ==
    /\ Files # {} /\ Targets # {} /\ IsFiniteSet(Files) /\ IsFiniteSet(Dirs)
    /\ Target \in [Dirs -> Targets]
    /\ MayFail \subseteq Targets
ASSUME BoundsAssumption == MaxRefs \in Nat /\ MaxGen \in Nat /\ MaxMoves \in Nat

VARIABLES
    disk,        \* disk[f]: the directories that _path_details finds for f
    moves,       \* how often the disk changed
    fileRefs,    \* _file_refs
    pathDirs,    \* _path_info: the directories, {} without an entry
    entries,     \* _dir_watches
    generation,  \* _watch_generation
    observer,    \* _observer
    stopped,     \* _observer_stopped
    stopping,    \* where stop() is
    watched,     \* watched[o]: what the watchdog observer o watches
    place,       \* where a thread is
    work,        \* the local variables of its call
    held,        \* references that were granted and not given back
    unbalanced   \* history: the targets of which a failure took the count away

diskVars == <<disk, moves>>
fileVars == <<fileRefs, pathDirs>>
stopVars == <<observer, stopped, stopping>>
vars == <<disk, moves, fileRefs, pathDirs, entries, generation, observer, stopped,
          stopping, watched, place, work, held, unbalanced>>

(* An entry: count, generation, whether its watch is set.  raced is        *)
(* history: when the entry was made, or since, another thread was about to *)
(* unschedule the target and had checked that it may.                      *)
Entry == [count : Nat \ {0}, gen : Nat, watch : BOOLEAN, raced : BOOLEAN]

ASSUME NoEntryAssumption == NoEntry \notin Entry

(* kind: "add" while failures lead to a rollback.  drop, make: the pending *)
(* lists, of which make has the generation gen and both the observer via.  *)
(* at: the target that is worked on.                                       *)
Work == [kind : {"add", "other"}, file : Files, dirs : SUBSET Dirs, via : Observers,
         gen : Nat, drop : SUBSET Targets, make : SUBSET Targets, at : Targets,
         failed : BOOLEAN]

(* A thread that is in no call.                                            *)
NoWork == [kind |-> "other", file |-> CHOOSE f \in Files : TRUE, dirs |-> {}, via |-> 1,
           gen |-> 0, drop |-> {}, make |-> {}, at |-> CHOOSE x \in Targets : TRUE,
           failed |-> FALSE]

Places == {"idle", "flush", "free", "scheduled", "refused", "obsolete"}

TypeOK ==
    /\ disk \in [Files -> SUBSET Dirs]
    /\ moves \in 0..MaxMoves
    /\ fileRefs \in [Files -> Nat]
    /\ pathDirs \in [Files -> SUBSET Dirs]
    /\ entries \in [Targets -> Entry \cup {NoEntry}]
    /\ generation \in 0..MaxGen
    /\ observer \in Observers
    /\ stopped \in BOOLEAN
    /\ stopping \in {"no", "clear", "join", "done"}
    /\ watched \in [Observers -> SUBSET Targets]
    /\ place \in [Threads -> Places]
    /\ work \in [Threads -> Work]
    /\ held \in [Files -> Nat]
    /\ unbalanced \subseteq Targets

Init ==
    /\ disk \in [Files -> SUBSET Dirs]
    /\ moves = 0
    /\ fileRefs = [f \in Files |-> 0]
    /\ pathDirs = [f \in Files |-> {}]
    /\ entries = [x \in Targets |-> NoEntry]
    /\ generation = 0
    /\ observer = 1
    /\ stopped = FALSE
    /\ stopping = "no"
    /\ watched = [o \in Observers |-> {}]
    /\ place = [t \in Threads |-> "idle"]
    /\ work = [t \in Threads |-> NoWork]
    /\ held = [f \in Files |-> 0]
    /\ unbalanced = {}
-----------------------------------------------------------------------------
(* Counting references.                                                    *)

Running == stopping = "no"

Covered(D, x) == {d \in D : Target[d] = x}

(* A thread that found the target free, or its own watch obsolete, and is  *)
(* about to unschedule it.                                                 *)
AboutToUnschedule(o, x) ==
    \E t \in Threads : place[t] \in {"free", "obsolete"} /\ work[t].via = o /\ work[t].at = x

(* Faulty variants of definitions below; the runs have to reject them.     *)
ReserveOnce(es, D, n, o) ==
    [x \in Targets |->
        LET k == Cardinality(Covered(D, x))
        IN  IF k = 0 THEN es[x]
            ELSE IF es[x] # NoEntry THEN [es[x] EXCEPT !.count = @ + k]
            ELSE [count |-> k, gen |-> generation + 1, watch |-> FALSE,
                  raced |-> AboutToUnschedule(o, x)]]

ReleaseToZero(es, D, n) ==
    [x \in Targets |->
        LET k == n * Cardinality(Covered(D, x))
        IN  IF es[x] = NoEntry \/ k = 0 THEN es[x]
            ELSE IF es[x].count >= k THEN [es[x] EXCEPT !.count = @ - k] ELSE NoEntry]

DroppedPending(es, new) ==
    {x \in Targets : es[x] # NoEntry /\ ~es[x].watch /\ new[x] = NoEntry}

FewerRefsForgets(f) == [fileRefs EXCEPT ![f] = 0]

NeverReferenced(t, x) == FALSE

(* The entries after n references were added to each directory of D.       *)
(* Generations are compared for one target at a time, so the new entries   *)
(* of one call share the number.                                           *)
Reserve(es, D, n, o) ==
    [x \in Targets |->
        LET k == n * Cardinality(Covered(D, x))
        IN  IF k = 0 THEN es[x]
            ELSE IF es[x] # NoEntry THEN [es[x] EXCEPT !.count = @ + k]
            ELSE [count |-> k, gen |-> generation + 1, watch |-> FALSE,
                  raced |-> AboutToUnschedule(o, x)]]

(* ... and after n references were taken from each directory of D: an      *)
(* entry that reaches zero goes, and further releases do nothing.          *)
Release(es, D, n) ==
    [x \in Targets |->
        LET k == n * Cardinality(Covered(D, x))
        IN  IF es[x] = NoEntry \/ k = 0 THEN es[x]
            ELSE IF es[x].count > k THEN [es[x] EXCEPT !.count = @ - k] ELSE NoEntry]

(* The targets whose entry appears, and those whose scheduled watch loses  *)
(* its entry.                                                              *)
Made(es, new)    == {x \in Targets : es[x] = NoEntry /\ new[x] # NoEntry}
Dropped(es, new) == {x \in Targets : es[x] # NoEntry /\ es[x].watch /\ new[x] = NoEntry}

(* The counts of a file after one reference less.                          *)
FewerRefs(f) == [fileRefs EXCEPT ![f] = IF @ > 1 THEN @ - 1 ELSE 0]
DirsOfFewer(f) == IF fileRefs[f] > 1 THEN pathDirs ELSE [pathDirs EXCEPT ![f] = {}]
-----------------------------------------------------------------------------
(* The operations, up to the release of the lock.                          *)

(* A new observer is made after stop().                                    *)
PreparedObserver == IF stopped THEN 2 ELSE observer

AddFile(t, f) ==
    LET D  == IF fileRefs[f] > 0 THEN pathDirs[f] ELSE disk[f]
        es == Reserve(entries, D, 1, PreparedObserver)
    IN  /\ place[t] = "idle"
        /\ stopping \notin {"clear", "join"}
        /\ fileRefs[f] < MaxRefs
        /\ generation < MaxGen
        /\ D # {}
        /\ observer' = PreparedObserver
        /\ stopped' = FALSE
        /\ fileRefs' = [fileRefs EXCEPT ![f] = @ + 1]
        /\ pathDirs' = [pathDirs EXCEPT ![f] = D]
        /\ entries' = es
        /\ generation' = IF Made(entries, es) = {} THEN generation ELSE generation + 1
        /\ work' = [work EXCEPT ![t] =
                [@ EXCEPT !.kind = "add", !.file = f, !.dirs = D, !.via = PreparedObserver,
                          !.gen = generation + 1, !.drop = {}, !.make = Made(entries, es),
                          !.failed = FALSE]]
        /\ place' = [place EXCEPT ![t] = "flush"]
        /\ UNCHANGED <<diskVars, stopping, watched, held, unbalanced>>

(* No directory exists: add_file raises, after the observer was prepared.  *)
AddFileRaises(t, f) ==
    /\ place[t] = "idle"
    /\ stopping \notin {"clear", "join"}
    /\ fileRefs[f] = 0
    /\ disk[f] = {}
    /\ observer' = PreparedObserver
    /\ stopped' = FALSE
    /\ UNCHANGED <<diskVars, fileVars, entries, generation, stopping, watched, place,
                   work, held, unbalanced>>

RemoveFile(t, f) ==
    LET es == Release(entries, pathDirs[f], 1)
    IN  /\ place[t] = "idle"
        /\ held[f] > 0
        /\ held' = [held EXCEPT ![f] = @ - 1]
        /\ fileRefs[f] > 0
        /\ fileRefs' = FewerRefs(f)
        /\ pathDirs' = DirsOfFewer(f)
        /\ entries' = es
        /\ work' = [work EXCEPT ![t] =
                [@ EXCEPT !.kind = "other", !.via = observer, !.drop = Dropped(entries, es),
                          !.make = {}, !.failed = FALSE]]
        /\ place' = [place EXCEPT ![t] = "flush"]
        /\ UNCHANGED <<diskVars, generation, stopVars, watched, unbalanced>>

(* An event for the path of a file, which one of its watches reported: its *)
(* directories are looked up again.                                        *)
(* The new ones are reserved for all references before the old ones go.    *)
Dispatch(f) ==
    LET t   == Dispatcher
        old == pathDirs[f]
        new == disk[f]
        es  == Reserve(entries, new \ old, fileRefs[f], observer)
        fs  == Release(es, old \ new, fileRefs[f])
    IN  /\ place[t] = "idle"
        /\ Running
        /\ generation < MaxGen
        /\ fileRefs[f] > 0
        /\ \E d \in old : Target[d] \in watched[observer]
        /\ new \notin {old, {}}
        /\ pathDirs' = [pathDirs EXCEPT ![f] = new]
        /\ entries' = fs
        /\ generation' = IF Made(entries, es) = {} THEN generation ELSE generation + 1
        /\ work' = [work EXCEPT ![t] =
                [@ EXCEPT !.kind = "other", !.via = observer, !.gen = generation + 1,
                          !.drop = Dropped(es, fs), !.make = Made(entries, es),
                          !.failed = FALSE]]
        /\ place' = [place EXCEPT ![t] = "flush"]
        /\ UNCHANGED <<diskVars, fileRefs, stopVars, watched, held, unbalanced>>
-----------------------------------------------------------------------------
(* _flush_watch_operations: no lock is held between the steps.             *)

(* The lock of the observer: the dispatcher has it while it handles an     *)
(* event of the first observer; the second one is never started.           *)
ObserverFree(t) == t = Dispatcher \/ place[Dispatcher] = "idle" \/ work[t].via = 2

StillReferenced(t, x) == entries[x] # NoEntry /\ work[t].via = observer

CheckReferenced(t) ==
    /\ place[t] = "flush"
    /\ \E x \in work[t].drop :
        /\ work' = [work EXCEPT ![t] = [@ EXCEPT !.drop = work[t].drop \ {x}, !.at = x]]
        /\ place' = [place EXCEPT ![t] = IF StillReferenced(t, x) THEN "flush" ELSE "free"]
    /\ UNCHANGED <<diskVars, fileVars, entries, generation, stopVars, watched, held,
                   unbalanced>>

(* Of a target that was checked, and of a watch that nobody needs.         *)
Unschedule(t) ==
    /\ place[t] \in {"free", "obsolete"}
    /\ ObserverFree(t)
    /\ watched' = [watched EXCEPT ![work[t].via] = @ \ {work[t].at}]
    /\ place' = [place EXCEPT ![t] = "flush"]
    /\ UNCHANGED <<diskVars, fileVars, entries, generation, stopVars, work, held,
                   unbalanced>>

(* Scheduling an equal watch again changes nothing and cannot fail.        *)
Schedule(t) ==
    /\ place[t] = "flush"
    /\ work[t].drop = {}
    /\ ObserverFree(t)
    /\ \E x \in work[t].make :
        /\ work' = [work EXCEPT ![t] = [@ EXCEPT !.make = work[t].make \ {x}, !.at = x]]
        /\ \/ /\ watched' = [watched EXCEPT ![work[t].via] = @ \cup {x}]
              /\ place' = [place EXCEPT ![t] = "scheduled"]
           \/ /\ x \in MayFail \ watched[work[t].via]
              /\ place' = [place EXCEPT ![t] = "refused"]
              /\ UNCHANGED watched
    /\ UNCHANGED <<diskVars, fileVars, entries, generation, stopVars, held, unbalanced>>

(* The entry is the one that this call made.                               *)
OwnEntry(t, x) == entries[x] # NoEntry /\ entries[x].gen = work[t].gen

(* The watch is stored, or it is obsolete: then, if the target has an      *)
(* entry all the same, that one has its watch taken away.                  *)
NoteWatch(t) ==
    LET x == work[t].at
    IN  /\ place[t] = "scheduled"
        /\ \/ /\ OwnEntry(t, x) /\ work[t].via = observer
              /\ entries' = [entries EXCEPT ![x].watch = TRUE]
              /\ place' = [place EXCEPT ![t] = "flush"]
           \/ /\ ~(OwnEntry(t, x) /\ work[t].via = observer)
              /\ entries' = IF entries[x] # NoEntry /\ work[t].via = observer
                            THEN [entries EXCEPT ![x].raced = TRUE] ELSE entries
              /\ place' = [place EXCEPT ![t] = "obsolete"]
        /\ UNCHANGED <<diskVars, fileVars, generation, stopVars, watched, work, held,
                       unbalanced>>

(* The reservation of a target that cannot be watched is dropped.          *)
NoteFailure(t) ==
    LET x == work[t].at
    IN  /\ place[t] = "refused"
        /\ \/ /\ OwnEntry(t, x) /\ ~entries[x].watch
              /\ entries' = [entries EXCEPT ![x] = NoEntry]
              /\ unbalanced' = unbalanced \cup {x}
           \/ /\ ~(OwnEntry(t, x) /\ ~entries[x].watch)
              /\ UNCHANGED <<entries, unbalanced>>
        /\ work' = [work EXCEPT ![t].failed = TRUE]
        /\ place' = [place EXCEPT ![t] = "flush"]
        /\ UNCHANGED <<diskVars, fileVars, generation, stopVars, watched, held>>

Flushed(t) == place[t] = "flush" /\ work[t].drop = {} /\ work[t].make = {}

(* add_file returns: the caller has a reference.                           *)
Granted(t) ==
    /\ Flushed(t)
    /\ work[t].kind = "add" /\ ~work[t].failed
    /\ held' = [held EXCEPT ![work[t].file] = @ + 1]
    /\ work' = [work EXCEPT ![t] = NoWork]
    /\ place' = [place EXCEPT ![t] = "idle"]
    /\ UNCHANGED <<diskVars, fileVars, entries, generation, stopVars, watched, unbalanced>>

(* A directory could not be watched: the registration is rolled back with  *)
(* the directories that it was made with, not those that the file has now. *)
Rollback(t) ==
    LET f  == work[t].file
        es == Release(entries, work[t].dirs, 1)
    IN  /\ Flushed(t)
        /\ work[t].kind = "add" /\ work[t].failed
        /\ fileRefs' = FewerRefs(f)
        /\ pathDirs' = DirsOfFewer(f)
        /\ entries' = es
        /\ unbalanced' = unbalanced \cup
                {Target[d] : d \in SymDiff(work[t].dirs, pathDirs[f])}
        /\ work' = [work EXCEPT ![t] =
                [@ EXCEPT !.kind = "other", !.via = observer, !.drop = Dropped(entries, es)]]
        /\ UNCHANGED <<diskVars, generation, stopVars, watched, place, held>>

Return(t) ==
    /\ Flushed(t)
    /\ work[t].kind = "other"
    /\ work' = [work EXCEPT ![t] = NoWork]
    /\ place' = [place EXCEPT ![t] = "idle"]
    /\ UNCHANGED <<diskVars, fileVars, entries, generation, stopVars, watched, held,
                   unbalanced>>
-----------------------------------------------------------------------------
(* stop(), called once at the end of the daemon.                           *)

StopBegins ==
    /\ stopping = "no"
    /\ stopping' = "clear"
    /\ fileRefs' = [f \in Files |-> 0]
    /\ pathDirs' = [f \in Files |-> {}]
    /\ entries' = [x \in Targets |-> NoEntry]
    /\ held' = [f \in Files |-> 0]
    /\ UNCHANGED <<diskVars, generation, observer, stopped, watched, place, work,
                   unbalanced>>

UnscheduleAll ==
    /\ stopping = "clear"
    /\ place[Dispatcher] = "idle"
    /\ stopping' = "join"
    /\ watched' = [watched EXCEPT ![observer] = {}]
    /\ UNCHANGED <<diskVars, fileVars, entries, generation, observer, stopped, place,
                   work, held, unbalanced>>

StopEnds ==
    /\ stopping = "join"
    /\ stopping' = "done"
    /\ stopped' = TRUE
    /\ UNCHANGED <<diskVars, fileVars, entries, generation, observer, watched, place,
                   work, held, unbalanced>>

(* The environment: a file or a link of its path is moved.                 *)
Move(f) ==
    /\ moves < MaxMoves
    /\ moves' = moves + 1
    /\ \E D \in SUBSET Dirs : disk' = [disk EXCEPT ![f] = D]
    /\ UNCHANGED <<fileVars, entries, generation, stopVars, watched, place, work, held,
                   unbalanced>>
-----------------------------------------------------------------------------
Flush(t) ==
    \/ CheckReferenced(t) \/ Unschedule(t) \/ Schedule(t) \/ NoteWatch(t) \/ NoteFailure(t)
    \/ Granted(t) \/ Rollback(t) \/ Return(t)

Next ==
    \/ \E t \in Callers, f \in Files : AddFile(t, f) \/ AddFileRaises(t, f) \/ RemoveFile(t, f)
    \/ \E f \in Files : Dispatch(f) \/ Move(f)
    \/ \E t \in Threads : Flush(t)
    \/ StopBegins \/ UnscheduleAll \/ StopEnds

Spec == Init /\ [][Next]_vars
-----------------------------------------------------------------------------
(* Properties.                                                             *)

(* The references that the files have on a target.                         *)
References(x) ==
    SumFunctionOnSet([f \in Files |-> fileRefs[f] * Cardinality(Covered(pathDirs[f], x))], Files)

Quiet == \A t \in Threads : place[t] = "idle"

(* The count of a target is the sum of the references of the files that    *)
(* need it, whatever threads add, remove and roll back and however files   *)
(* move: a target is not given up while a file needs it and not kept when  *)
(* no file does (_reserve_directory_locked, _release_directory_locked).    *)
(* A target that was refused, or whose file moved before the rollback,     *)
(* has lost its count: see the README.                                     *)
CountsAreReferences ==
    Running => \A x \in Targets \ unbalanced :
        References(x) = IF entries[x] = NoEntry THEN 0 ELSE entries[x].count

(* A file has the references that were granted and not given back, and     *)
(* those of the calls that are not finished: no failed add_file leaves one *)
(* behind or takes one of another caller.  The directories of a file are   *)
(* known exactly as long as it has references.                             *)
ReferencesOwned ==
    Running => \A f \in Files :
        /\ fileRefs[f] > 0 <=> pathDirs[f] # {}
        /\ fileRefs[f] = held[f] + Cardinality({t \in Threads :
            place[t] # "idle" /\ work[t].kind = "add" /\ work[t].file = f})

(* Thread t has still to look after a watch of target x at observer o: it  *)
(* will unschedule it, or schedule it and then find its entry missing.     *)
InHand(t, o, x) ==
    /\ work[t].via = o
    /\ \/ place[t] # "idle" /\ x \in work[t].drop \cup work[t].make
       \/ place[t] \in {"free", "scheduled", "obsolete"} /\ work[t].at = x

(* No watch is left behind: what watchdog watches has an entry, or a       *)
(* thread will still take it away.  That includes what was scheduled while *)
(* stop() ran (_flush_watch_operations, stop).                             *)
NoOrphanWatch ==
    \A o \in Observers : \A x \in watched[o] :
        \/ o = observer /\ entries[x] # NoEntry
        \/ o = observer /\ stopping = "clear"
        \/ \E t \in Threads : InHand(t, o, x)

(* When all calls are finished, every directory of a file that a caller    *)
(* holds is watched, unless another thread had already decided to          *)
(* unschedule the target when it was needed again, or the system refused.  *)
WatchedUnlessRaced ==
    Running /\ Quiet => \A f \in Files : held[f] > 0 =>
        \A x \in {Target[d] : d \in pathDirs[f]} \ unbalanced :
            /\ entries[x] # NoEntry /\ entries[x].watch
            /\ entries[x].raced \/ x \in watched[observer]

(* The comment of _flush_watch_operations: a target that is released and   *)
(* immediately referenced again ends up with a valid watch.                *)
ReferencedAgainIsWatched ==
    Running /\ Quiet => \A f \in Files : held[f] > 0 =>
        \A d \in pathDirs[f] : Target[d] \in watched[observer]
=============================================================================
