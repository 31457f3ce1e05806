-------------------------- MODULE PthreadMutexProofs --------------------------
(***************************************************************************)
(* What the mutex wrappers guarantee while only the executable itself      *)
(* calls them, for any number of threads and mutexes.                      *)
(***************************************************************************)
EXTENDS PthreadMutex, TLAPS

LEMMA InitType == Init => TypeOK
BY MutexAssumption DEF Init, TypeOK

LEMMA StepType == TypeOK /\ [Next]_vars => TypeOK'
<1> USE MutexAssumption DEF TypeOK
<1> SUFFICES ASSUME TypeOK, [Next]_vars PROVE TypeOK'
  OBVIOUS
<1>1. ASSUME NEW t \in Threads, Start(t) PROVE TypeOK'
  BY <1>1 DEF Start
<1>2. ASSUME NEW t \in Threads, Exit(t) PROVE TypeOK'
  BY <1>2 DEF Exit
<1>3. ASSUME NEW t \in Threads, NEW m \in Mutexes, NEW c \in Callers, Lock(t, m, c) PROVE TypeOK'
  BY <1>3 DEF Lock, Goto
<1>4. ASSUME NEW t \in Threads, Test(t) PROVE TypeOK'
  BY <1>4 DEF Test, Goto, In
<1>5. ASSUME NEW t \in Threads, Acquire(t) PROVE TypeOK'
  BY <1>5 DEF Acquire, Goto, In
<1>6. ASSUME NEW t \in Threads, RecordWait(t) PROVE TypeOK'
  BY <1>6 DEF RecordWait, Goto, In, Edge
<1>7. ASSUME NEW t \in Threads, NEW m \in Mutexes, NEW c \in Callers, Unlock(t, m, c) PROVE TypeOK'
  BY <1>7 DEF Unlock, Goto
<1>8. ASSUME NEW t \in Threads, Release(t) PROVE TypeOK'
  BY <1>8 DEF Release, Goto, In
<1>9. CASE UNCHANGED vars
  BY <1>9 DEF vars
<1> QED
  BY <1>1, <1>2, <1>3, <1>4, <1>5, <1>6, <1>7, <1>8, <1>9 DEF Next, Wrapper, Program, Terminated
-------------------------------------------------------------------------------
(* The inductive invariant.                                                    *)

Releasing(m) == \E t \in Threads : pc[t] = "release" /\ at[t] = m

\* Who releases a mutex is in its critical section and has noted so.
ReleaseNoted == \A t \in Threads : pc[t] = "release" =>
    at[t] \in inside[t] /\ unlocked[at[t]] = TidOf[t]

\* Who waits for a mutex either finds it locked, so that somebody has still to
\* unlock it, or somebody has noted an unlock.
WaitNoted == \A t \in Threads :
    /\ pc[t] = "contend" => word[at[t]] \/ unlocked[at[t]] # None
    /\ pc[t] = "record"  => unlocked[at[t]] # None

\* Unless a release is going on, the entry of a mutex is the last release's.
EntryOfReleaser == \A m \in Mutexes :
    \/ Releasing(m)
    \/ unlocked[m] = None /\ releaser[m] = None
    \/ releaser[m] # None /\ unlocked[m] = TidOf[releaser[m]]

\* The kernel ids of the threads that were in a wrapper are known.
GidKnown ==
    /\ \A k \in Tids : gid[k] # None => TidOf[gid[k]] = k
    /\ \A t \in Threads : pc[t] # "run" \/ inside[t] # {} => gid[TidOf[t]] # None
    /\ \A m \in Mutexes : unlocked[m] # None => gid[unlocked[m]] # None

DirectOnly == \A t \in Threads : caller[t] = "direct"

IInv == /\ TypeOK /\ DirectOnly /\ MutualExclusion /\ ReleaseNoted /\ WaitNoted
        /\ EntryOfReleaser /\ GidKnown /\ WaiterFindsCallPath /\ EdgesNameReleaser
-------------------------------------------------------------------------------
(* Every action preserves it, while only the executable calls.                 *)

DirectCalls == Callers \subseteq {"direct"}

\* A thread that is started or ends is in no wrapper.
LEMMA LifeStep ==
    ASSUME IInv, TypeOK', NEW t \in Threads, Start(t) \/ Exit(t)
    PROVE  IInv'
<1>1. (DirectOnly /\ MutualExclusion /\ ReleaseNoted /\ WaitNoted /\ EntryOfReleaser)'
  BY DEF Start, Exit, IInv, DirectOnly, MutualExclusion, Owns, ReleaseNoted, WaitNoted,
         EntryOfReleaser, Releasing
<1>2. (GidKnown /\ WaiterFindsCallPath /\ EdgesNameReleaser)'
  BY DEF Start, Exit, IInv, GidKnown, WaiterFindsCallPath, Crashed, EdgesNameReleaser
<1> QED
  BY <1>1, <1>2 DEF IInv

\* The lock wrapper enters the thread's kernel id if it is unknown.
LEMMA LockStep ==
    ASSUME DirectCalls, IInv, TypeOK', NEW t \in Threads, NEW m \in Mutexes, NEW c \in Callers,
           Lock(t, m, c)
    PROVE  IInv'
<1> USE DEF IInv, TypeOK, Lock, Goto, In
<1>1. DirectOnly' /\ WaiterFindsCallPath' /\ EdgesNameReleaser'
  BY DEF DirectCalls, DirectOnly, WaiterFindsCallPath, Crashed, EdgesNameReleaser
<1>2. MutualExclusion' /\ ReleaseNoted' /\ WaitNoted'
  BY DEF MutualExclusion, Owns, ReleaseNoted, WaitNoted
<1>3. EntryOfReleaser'
  BY DEF EntryOfReleaser, Releasing
<1>4. GidKnown'
  BY MutexAssumption DEF GidKnown
<1> QED
  BY <1>1, <1>2, <1>3, <1>4

\* A direct caller that finds the mutex locked goes to wait for it.
LEMMA TestStep ==
    ASSUME IInv, TypeOK', NEW t \in Threads, Test(t)
    PROVE  IInv'
<1> USE DEF IInv, TypeOK, Test, Goto, In
<1>1. DirectOnly' /\ GidKnown' /\ WaiterFindsCallPath' /\ EdgesNameReleaser'
  BY DEF DirectOnly, GidKnown, WaiterFindsCallPath, Crashed, EdgesNameReleaser
<1>2. MutualExclusion' /\ ReleaseNoted' /\ WaitNoted'
  BY DEF DirectOnly, MutualExclusion, Owns, ReleaseNoted, WaitNoted
<1>3. EntryOfReleaser'
  BY DEF EntryOfReleaser, Releasing
<1> QED
  BY <1>1, <1>2, <1>3

\* The real lock is given to a thread only when nobody owns it.
LEMMA AcquireStep ==
    ASSUME IInv, TypeOK', NEW t \in Threads, Acquire(t)
    PROVE  IInv'
<1> USE DEF IInv, TypeOK, Acquire, Goto, In
<1>1. DirectOnly' /\ GidKnown' /\ WaiterFindsCallPath' /\ EdgesNameReleaser'
  BY DEF DirectOnly, GidKnown, WaiterFindsCallPath, Crashed, EdgesNameReleaser
<1>2. MutualExclusion'
  <2>1. \A u \in Threads : ~Owns(u, at[t])
    BY DEF MutualExclusion
  <2>2. \A u \in Threads \ {t}, m \in Mutexes : Owns(u, m)' => Owns(u, m)
    BY DEF Owns
  <2>3. \A m \in Mutexes \ {at[t]} : Owns(t, m)' => Owns(t, m)
    BY DEF Owns
  <2>4. word'[at[t]] /\ \A m \in Mutexes : word[m] => word'[m]
    OBVIOUS
  <2> QED
    BY <2>1, <2>2, <2>3, <2>4 DEF MutualExclusion
<1>3. ReleaseNoted' /\ WaitNoted'
  BY DEF ReleaseNoted, WaitNoted
<1>4. EntryOfReleaser'
  BY DEF EntryOfReleaser, Releasing
<1> QED
  BY <1>1, <1>2, <1>3, <1>4

\* Who got the lock after waiting owns it: nobody is in the middle of releasing
\* it, and the entry found is that of the last release.
LEMMA RecordStep ==
    ASSUME IInv, TypeOK', NEW t \in Threads, RecordWait(t)
    PROVE  IInv'
<1> USE DEF IInv, TypeOK, RecordWait, Goto, In
<1>1. DirectOnly' /\ GidKnown' /\ WaiterFindsCallPath'
  BY DEF DirectOnly, GidKnown, WaitNoted, WaiterFindsCallPath, Crashed
<1>2. MutualExclusion' /\ ReleaseNoted' /\ WaitNoted'
  BY DEF MutualExclusion, Owns, ReleaseNoted, WaitNoted
<1>3. EntryOfReleaser'
  BY DEF EntryOfReleaser, Releasing
<1>4. EdgesNameReleaser'
  <2> DEFINE m == at[t]
  <2>1. m \in Mutexes /\ unlocked[m] \in Tids
    BY DEF WaitNoted
  <2>2. ~Releasing(m)
    BY <2>1 DEF MutualExclusion, Owns, ReleaseNoted, Releasing
  <2>3. releaser[m] # None /\ unlocked[m] = TidOf[releaser[m]]
    BY <2>1, <2>2, MutexAssumption DEF EntryOfReleaser
  <2>4. gid[unlocked[m]] # None /\ TidOf[gid[unlocked[m]]] = unlocked[m]
    BY <2>1, MutexAssumption DEF GidKnown
  <2>5. last' = {[mutex |-> m, src |-> gid[unlocked[m]], dst |-> t, by |-> releaser[m]]}
    <3>1. unlocked[m] # None
      BY <2>1, MutexAssumption
    <3> HIDE DEF IInv, TypeOK
    <3> QED
      BY <3>1
  <2> QED
    BY <2>3, <2>4, <2>5 DEF EdgesNameReleaser
<1> QED
  BY <1>1, <1>2, <1>3, <1>4

\* Nobody else is releasing the mutex whose unlock a thread notes.
LEMMA UnlockStep ==
    ASSUME DirectCalls, IInv, TypeOK', NEW t \in Threads, NEW m \in Mutexes, NEW c \in Callers,
           Unlock(t, m, c)
    PROVE  IInv'
<1> USE DEF IInv, TypeOK, Unlock, Goto, In
<1>1. DirectOnly' /\ WaiterFindsCallPath' /\ EdgesNameReleaser'
  BY DEF DirectCalls, DirectOnly, WaiterFindsCallPath, Crashed, EdgesNameReleaser
<1>2. MutualExclusion'
  BY DEF MutualExclusion, Owns
<1>3. ReleaseNoted' /\ WaitNoted'
  BY MutexAssumption DEF DirectCalls, ReleaseNoted, WaitNoted, MutualExclusion, Owns
<1>4. EntryOfReleaser'
  BY DEF EntryOfReleaser, Releasing
<1>5. GidKnown'
  BY MutexAssumption DEF GidKnown
<1> QED
  BY <1>1, <1>2, <1>3, <1>4, <1>5

\* A mutex is unlocked only after that was noted.
LEMMA ReleaseStep ==
    ASSUME IInv, TypeOK', NEW t \in Threads, Release(t)
    PROVE  IInv'
<1> USE DEF IInv, TypeOK, Release, Goto, In
<1>1. DirectOnly' /\ GidKnown' /\ WaiterFindsCallPath' /\ EdgesNameReleaser'
  BY DEF DirectOnly, GidKnown, WaiterFindsCallPath, Crashed, EdgesNameReleaser
<1>2. MutualExclusion' /\ ReleaseNoted'
  BY DEF MutualExclusion, Owns, ReleaseNoted
<1>3. WaitNoted'
  <2>1. unlocked[at[t]] # None
    <3>1. unlocked[at[t]] = TidOf[t]
      BY DEF ReleaseNoted
    <3> HIDE DEF IInv, TypeOK, Release
    <3> QED
      BY <3>1, MutexAssumption
  <2>2. ASSUME NEW u \in Threads, pc'[u] = "contend" PROVE word'[at[u]] \/ unlocked[at[u]] # None
    <3>1. pc[u] = "contend" /\ at[u] \in Mutexes
      BY <2>2
    <3>2. CASE at[u] = at[t]
      BY <2>1, <3>2
    <3>3. CASE at[u] # at[t]
      BY <3>1, <3>3 DEF WaitNoted
    <3> QED
      BY <3>2, <3>3
  <2>3. ASSUME NEW u \in Threads, pc'[u] = "record" PROVE unlocked[at[u]] # None
    BY <2>3 DEF WaitNoted
  <2> QED
    BY <2>2, <2>3 DEF WaitNoted
<1>4. EntryOfReleaser'
  BY MutexAssumption DEF EntryOfReleaser, Releasing, ReleaseNoted
<1> QED
  BY <1>1, <1>2, <1>3, <1>4

-------------------------------------------------------------------------------
(* The theorems.                                                               *)

LEMMA IInvInit == Init => IInv
<1> SUFFICES ASSUME Init PROVE IInv
  OBVIOUS
<1>1. TypeOK
  BY InitType
<1>2. DirectOnly /\ MutualExclusion /\ ReleaseNoted /\ WaitNoted /\ EntryOfReleaser
  BY DEF Init, DirectOnly, MutualExclusion, Owns, ReleaseNoted, WaitNoted, EntryOfReleaser
<1>3. GidKnown /\ WaiterFindsCallPath /\ EdgesNameReleaser
  BY MutexAssumption DEF Init, GidKnown, WaiterFindsCallPath, Crashed, EdgesNameReleaser
<1> QED
  BY <1>1, <1>2, <1>3 DEF IInv

LEMMA IInvStep == ASSUME DirectCalls, IInv, [Next]_vars PROVE IInv'
<1>0. TypeOK'
  BY StepType DEF IInv
<1>1. ASSUME NEW t \in Threads, Wrapper(t) PROVE IInv'
  BY <1>0, <1>1, TestStep, AcquireStep, RecordStep, ReleaseStep DEF Wrapper
<1>2. ASSUME NEW t \in Threads, Program(t) PROVE IInv'
  BY <1>0, <1>2, LifeStep, LockStep, UnlockStep DEF Program
<1>3. CASE UNCHANGED vars
  <2>1. (DirectOnly /\ MutualExclusion /\ ReleaseNoted /\ WaitNoted /\ EntryOfReleaser)'
    BY <1>3 DEF vars, IInv, DirectOnly, MutualExclusion, Owns, ReleaseNoted, WaitNoted,
                EntryOfReleaser, Releasing
  <2>2. (GidKnown /\ WaiterFindsCallPath /\ EdgesNameReleaser)'
    BY <1>3 DEF vars, IInv, GidKnown, WaiterFindsCallPath, Crashed, EdgesNameReleaser
  <2> QED
    BY <1>0, <2>1, <2>2 DEF IInv
<1> QED
  BY <1>1, <1>2, <1>3 DEF Next, Terminated

\* All parts of the invariant hold of the wrappers of a program whose mutexes
\* only its executable locks and unlocks.
THEOREM Invariance == ASSUME DirectCalls PROVE Spec => []IInv
<1>1. Init => IInv
  BY IInvInit
<1>2. IInv /\ [Next]_vars => IInv'
  BY IInvStep
<1> QED
  BY <1>1, <1>2, PTL DEF Spec

\* MutualExclusion: testing the lock word before the real lock loses no mutual
\* exclusion as long as no library calls pthread_mutex_lock.
THEOREM DirectCallsExclude == ASSUME DirectCalls PROVE Spec => []MutualExclusion
<1>1. IInv => MutualExclusion
  BY DEF IInv
<1> QED
  BY <1>1, Invariance, PTL

\* WaiterFindsCallPath: noting the unlock before the real unlock is enough for a
\* thread that waited to find a call path (lines 363-364).
THEOREM WaiterFindsEntry == ASSUME DirectCalls PROVE Spec => []WaiterFindsCallPath
<1>1. IInv => WaiterFindsCallPath
  BY DEF IInv
<1> QED
  BY <1>1, Invariance, PTL

\* EdgesNameReleaser: a recorded edge starts at the kernel id of the thread that
\* released the mutex.
THEOREM EdgesStartAtReleaser == ASSUME DirectCalls PROVE Spec => []EdgesNameReleaser
<1>1. IInv => EdgesNameReleaser
  BY DEF IInv
<1> QED
  BY <1>1, Invariance, PTL

\* When the kernel never uses a thread id again, an edge starts at the very
\* thread that released the mutex.
THEOREM FreshIdsNameThread ==
    ASSUME DirectCalls, \A t, u \in Threads : TidOf[t] = TidOf[u] => t = u
    PROVE  Spec => []EdgesNameThread
<1>1. IInv => EdgesNameThread
  BY DEF IInv, TypeOK, Edge, EdgesNameReleaser, EdgesNameThread
<1> QED
  BY <1>1, Invariance, PTL
===============================================================================
