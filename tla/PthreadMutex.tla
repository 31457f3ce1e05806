----------------------------- MODULE PthreadMutex -----------------------------
(***************************************************************************)
(* The wrappers of pthread_mutex_lock and pthread_mutex_unlock             *)
(* (hybrid_collector/dynamic/pthread_sampler.cpp, 282-386), around the     *)
(* mutexes of the sampled program.  When a lock is contended the wrapper   *)
(* records an edge from the thread that released the mutex to the one that *)
(* waited; it finds the former in two maps that no lock protects:          *)
(* mutex_to_tid_and_callpath, written by unlock, and tid_to_thread_gid,    *)
(* from kernel thread ids to the sampler's.  The thread_gid of a thread is *)
(* the thread itself here.                                                 *)
(***************************************************************************)
CONSTANTS Threads, Mutexes, None,
          Main,      \* the thread that runs init_mock
          Tids,      \* kernel thread ids
          TidOf,     \* the kernel id each thread gets; that of a dead thread may be reused
          Callers    \* who calls: "direct" code of the executable, or a "library"

ASSUME MutexAssumption ==
    /\ Main \in Threads /\ TidOf \in [Threads -> Tids]
    /\ None \notin Threads /\ None \notin Tids /\ None \notin Mutexes
    /\ Callers \subseteq {"direct", "library"}

VARIABLES life,     \* is a thread to be started, live, or dead?
          word,     \* mutex->__data.__lock > 0
          unlocked, \* mutex_to_tid_and_callpath: the kernel id of the last unlock noted
          gid,      \* tid_to_thread_gid
          pc, at,   \* where each thread is in a wrapper, and the mutex it is called for
          caller,   \* who called it
          inside,   \* the mutexes each thread goes by holding
          last,     \* the edge recorded last, if any, with (history) the thread it should name
          releaser  \* history: the thread whose unlock last released each mutex

vars == <<life, word, unlocked, gid, pc, at, caller, inside, last, releaser>>

Edge == [mutex : Mutexes, src : Threads \cup {None}, dst : Threads, by : Threads \cup {None}]

Init == /\ life = [t \in Threads |-> IF t = Main THEN "live" ELSE "new"]
        /\ word = [m \in Mutexes |-> FALSE]
        /\ unlocked = [m \in Mutexes |-> None]
        /\ gid = [k \in Tids |-> IF k = TidOf[Main] THEN Main ELSE None]
        /\ pc = [t \in Threads |-> "run"]
        /\ at = [t \in Threads |-> None]
        /\ caller = [t \in Threads |-> "direct"]
        /\ inside = [t \in Threads |-> {}]
        /\ last = {}
        /\ releaser = [m \in Mutexes |-> None]

Goto(t, l) == pc' = [pc EXCEPT ![t] = l]

\* A thread that follows a null pointer takes the process with it.
Crashed == \E t \in Threads : pc[t] = "crashed"
In(t, l) == pc[t] = l /\ life[t] = "live" /\ ~Crashed
-----------------------------------------------------------------------------
(* The program's threads                                                     *)

Start(t) == /\ life[t] = "new" /\ ~Crashed
            /\ \A u \in Threads : life[u] = "live" => TidOf[u] # TidOf[t]
            /\ life' = [life EXCEPT ![t] = "live"]
            /\ UNCHANGED <<word, unlocked, gid, pc, at, caller, inside, last, releaser>>

Exit(t) == /\ In(t, "run") /\ inside[t] = {} /\ t # Main
           /\ life' = [life EXCEPT ![t] = "dead"]
           /\ UNCHANGED <<word, unlocked, gid, pc, at, caller, inside, last, releaser>>
-----------------------------------------------------------------------------
(* pthread_mutex_lock                                                        *)

Lock(t, m, c) ==
    /\ In(t, "run") /\ m \notin inside[t]
    /\ gid' = IF gid[TidOf[t]] = None THEN [gid EXCEPT ![TidOf[t]] = t] ELSE gid
    /\ at' = [at EXCEPT ![t] = m]
    /\ caller' = [caller EXCEPT ![t] = c]
    /\ Goto(t, "test")
    /\ UNCHANGED <<life, word, unlocked, inside, last, releaser>>

\* Mutant: no contended call reaches the real lock.
Test_NeverWaits(t) ==
    /\ In(t, "test")
    /\ \/ ~word[at[t]] /\ Goto(t, "acquire") /\ UNCHANGED inside
       \/ word[at[t]] /\ Goto(t, "run") /\ inside' = [inside EXCEPT ![t] = @ \cup {at[t]}]
    /\ UNCHANGED <<life, word, unlocked, gid, at, caller, last, releaser>>

\* The lock word is tested before the real lock is called.  For a library that
\* finds it taken the real lock is not called at all, and the value returned
\* was never assigned: the caller goes on or gives up.
Test(t) ==
    /\ In(t, "test")
    /\ \/ ~word[at[t]] /\ Goto(t, "acquire") /\ UNCHANGED inside
       \/ /\ word[at[t]] /\ caller[t] = "direct"
          /\ Goto(t, "contend") /\ UNCHANGED inside
       \/ /\ word[at[t]] /\ caller[t] = "library"
          /\ Goto(t, "run")
          /\ inside' \in {inside, [inside EXCEPT ![t] = @ \cup {at[t]}]}
    /\ UNCHANGED <<life, word, unlocked, gid, at, caller, last, releaser>>

\* Mutant: a contended lock is tried again and again instead of waited for.
Acquire_Polls(t) ==
    /\ In(t, "acquire") \/ In(t, "contend")
    /\ IF word[at[t]] THEN Goto(t, "test") /\ UNCHANGED <<word, inside>>
       ELSE /\ word' = [word EXCEPT ![at[t]] = TRUE]
            /\ Goto(t, IF pc[t] = "contend" THEN "record" ELSE "run")
            /\ inside' = IF pc[t] = "contend" THEN inside ELSE [inside EXCEPT ![t] = @ \cup {at[t]}]
    /\ UNCHANGED <<life, unlocked, gid, at, caller, last, releaser>>

\* The real pthread_mutex_lock.
Acquire(t) ==
    /\ \/ /\ In(t, "acquire") /\ Goto(t, "run")
          /\ inside' = [inside EXCEPT ![t] = @ \cup {at[t]}]
       \/ In(t, "contend") /\ Goto(t, "record") /\ UNCHANGED inside
    /\ ~word[at[t]] /\ word' = [word EXCEPT ![at[t]] = TRUE]
    /\ UNCHANGED <<life, unlocked, gid, at, caller, last, releaser>>

\* Without an entry for the mutex the call path is a null pointer.
RecordWait(t) ==
    /\ In(t, "record")
    /\ LET mutex == at[t] IN
       \/ /\ unlocked[mutex] = None
          /\ Goto(t, "crashed")
          /\ UNCHANGED <<inside, last>>
       \/ /\ unlocked[mutex] # None
          /\ last' = {[mutex |-> mutex, src |-> gid[unlocked[mutex]], dst |-> t, by |-> releaser[mutex]]}
          /\ inside' = [inside EXCEPT ![t] = @ \cup {mutex}]
          /\ Goto(t, "run")
    /\ UNCHANGED <<life, word, unlocked, gid, at, caller, releaser>>
-----------------------------------------------------------------------------
(* pthread_mutex_unlock                                                      *)

\* Mutant: the unlock is not noted.
Unlock_Unnoted(t, m, c) ==
    /\ In(t, "run") /\ m \in inside[t]
    /\ at' = [at EXCEPT ![t] = m]
    /\ caller' = [caller EXCEPT ![t] = c]
    /\ Goto(t, "release")
    /\ UNCHANGED <<life, word, unlocked, gid, inside, last, releaser>>

\* Mutant: it is not noted over an earlier one.
Unlock_KeepsFirst(t, m, c) ==
    /\ In(t, "run") /\ m \in inside[t]
    /\ at' = [at EXCEPT ![t] = m]
    /\ unlocked' = IF unlocked[m] = None THEN [unlocked EXCEPT ![m] = TidOf[t]] ELSE unlocked
    /\ caller' = [caller EXCEPT ![t] = c]
    /\ Goto(t, "release")
    /\ UNCHANGED <<life, word, gid, inside, last, releaser>>

\* A call from the executable is noted before the mutex is released.
Unlock(t, m, c) ==
    /\ In(t, "run") /\ m \in inside[t]
    /\ at' = [at EXCEPT ![t] = m]
    /\ unlocked' = IF c = "direct" THEN [unlocked EXCEPT ![m] = TidOf[t]] ELSE unlocked
    /\ caller' = [caller EXCEPT ![t] = c]
    /\ Goto(t, "release")
    /\ UNCHANGED <<life, word, gid, inside, last, releaser>>

\* The real pthread_mutex_unlock does not ask who locked.
Release(t) ==
    /\ In(t, "release")
    /\ word' = [word EXCEPT ![at[t]] = FALSE]
    /\ releaser' = [releaser EXCEPT ![at[t]] = t]
    /\ inside' = [inside EXCEPT ![t] = @ \ {at[t]}]
    /\ Goto(t, "run")
    /\ UNCHANGED <<life, unlocked, gid, at, caller, last>>
-----------------------------------------------------------------------------
Wrapper(t) == Test(t) \/ Acquire(t) \/ RecordWait(t) \/ Release(t)
Program(t) == \/ Start(t) \/ Exit(t)
              \/ \E m \in Mutexes, c \in Callers : Lock(t, m, c) \/ Unlock(t, m, c)

Terminated == /\ \A t \in Threads : (life[t] = "dead" \/ t = Main) /\ pc[t] = "run"
              /\ UNCHANGED vars

Next == (\E t \in Threads : Wrapper(t) \/ Program(t)) \/ Terminated

Spec == Init /\ [][Next]_vars

(***************************************************************************)
(* The kernel runs every thread, the real lock lets nobody starve, and the *)
(* program ends its critical sections.                                     *)
(***************************************************************************)
Fairness == \A t \in Threads :
    /\ WF_vars(Test(t) \/ RecordWait(t) \/ Release(t))
    /\ SF_vars(Acquire(t))
    /\ \A m \in Mutexes : WF_vars(\E c \in Callers : Unlock(t, m, c))

FairSpec == Spec /\ Fairness
-----------------------------------------------------------------------------
(* Properties                                                                *)

TypeOK == /\ life \in [Threads -> {"new", "live", "dead"}]
          /\ word \in [Mutexes -> BOOLEAN]
          /\ unlocked \in [Mutexes -> Tids \cup {None}]
          /\ gid \in [Tids -> Threads \cup {None}]
          /\ pc \in [Threads -> {"run", "test", "acquire", "contend", "record", "release", "crashed"}]
          /\ at \in [Threads -> Mutexes \cup {None}]
          /\ \A t \in Threads : pc[t] # "run" => at[t] \in Mutexes
          /\ caller \in [Threads -> {"direct", "library"}]
          /\ inside \in [Threads -> SUBSET Mutexes]
          /\ last \subseteq Edge
          /\ releaser \in [Mutexes -> Threads \cup {None}]

\* A thread owns a mutex from the real lock to the real unlock, if it calls it.
Owns(t, m) == m \in inside[t] \/ (pc[t] \in {"record", "crashed"} /\ at[t] = m)

\* The wrappers keep what the program relies on: no two threads are in the
\* critical sections of one mutex, and a mutex somebody is in is locked.
MutualExclusion ==
    \A m \in Mutexes, t \in Threads : Owns(t, m) =>
        word[m] /\ \A u \in Threads \ {t} : ~Owns(u, m)

\* "record callpath before executing real pthread_mutex_unlock to make sure
\* pthread_mutex_lock in other thread can get locking thread" (363-364): who
\* had to wait finds an entry, and follows no null pointer.
WaiterFindsCallPath == ~Crashed

\* ... and it is the entry of the thread that released the mutex, not of one
\* that held it earlier.  A kernel id that is used again still names the dead
\* thread that had it first, so ids are compared, not threads.
EdgesNameReleaser ==
    \A e \in last : e.src # None /\ e.by # None /\ TidOf[e.src] = TidOf[e.by]

\* When kernel ids are not used again the edge names the thread itself.
EdgesNameThread == \A e \in last : e.src = e.by

\* A thread that calls pthread_mutex_lock gets out of it again.
EveryLockReturns == \A t \in Threads : pc[t] = "test" ~> pc[t] = "run"
===============================================================================
