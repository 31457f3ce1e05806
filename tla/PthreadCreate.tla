---------------------------- MODULE PthreadCreate -----------------------------
(***************************************************************************)
(* The wrappers of pthread_create and pthread_join and the start routine   *)
(* wrapper (hybrid_collector/dynamic/pthread_sampler.cpp, 157-266): how a  *)
(* new thread gets its thread_gid, how its creator learns it through the   *)
(* argument block both share, and what the edges that are recorded for a   *)
(* creation and a join say about whose they are.                           *)
(***************************************************************************)
EXTENDS Integers, FiniteSets

CONSTANTS Threads, Main, None,
          Handles,         \* pthread_t values; that of a joined thread is used again
          Blocks,          \* memory malloc may give to an argument block
          Creators,        \* the threads that create and join others
          CreateMayFail    \* may the real pthread_create fail?

ASSUME CreateAssumption ==
    /\ Main \in Threads /\ Creators \subseteq Threads
    /\ None \notin Nat /\ None \notin Threads \cup Handles \cup Blocks
    /\ CreateMayFail \in BOOLEAN

VARIABLES life,    \* how far each thread is in start_routine_wrapper
          gid,     \* its thread_gid
          nextGid, \* thread_global_id
          block,   \* the argument block each thread was created with
          mem,     \* what a block holds: whose start_routine, and create_thread_id
          inUse,   \* the blocks that are allocated
          handle,  \* the pthread_t of each thread
          entry,   \* pthread_t_to_create_thread_id
          pc, on,  \* where each thread is in a wrapper, and the thread it is called for
          var,     \* the handle its caller has, and the wrapper looks up
          creator, \* history: who created each thread
          ran,     \* history: whose start_routine each thread launched
          failed,  \* history: has a creation failed?
          late,    \* history: the threads that had still to use their block when it was freed
          edges    \* what was recorded, with (history) the thread it is about

progress == <<life, gid, nextGid>>
memory   == <<block, mem, inUse>>
history  == <<creator, ran, failed, late>>
vars == <<progress, memory, handle, entry, pc, on, var, history, edges>>

Init == /\ life = [t \in Threads |-> IF t = Main THEN "running" ELSE "new"]
        /\ gid  = [t \in Threads |-> IF t = Main THEN 0 ELSE -1]
        /\ nextGid = 1
        /\ block = [t \in Threads |-> None]
        /\ mem = [b \in Blocks |-> [routine |-> None, id |-> 0]]
        /\ inUse = {}
        /\ handle = [t \in Threads |-> None]
        /\ entry = [h \in Handles |-> None]
        /\ pc = [t \in Threads |-> "run"]
        /\ on = [t \in Threads |-> None]
        /\ var = [t \in Threads |-> None]
        /\ creator = [t \in Threads |-> None]
        /\ ran = [t \in Threads |-> None]
        /\ failed = FALSE
        /\ late = {}
        /\ edges = {}

Goto(t, l) == pc' = [pc EXCEPT ![t] = l]
In(t, l)   == life[t] = "running" /\ pc[t] = l
-----------------------------------------------------------------------------
(* pthread_create                                                            *)

\* The argument block is allocated and filled.
Create(p, t, b) ==
    /\ In(p, "run") /\ p \in Creators /\ life[t] = "new" /\ creator[t] = None /\ b \notin inUse
    /\ creator' = [creator EXCEPT ![t] = p]
    /\ block' = [block EXCEPT ![t] = b]
    /\ mem' = [mem EXCEPT ![b] = [routine |-> t, id |-> 0]]
    /\ inUse' = inUse \cup {b}
    /\ on' = [on EXCEPT ![p] = t]
    /\ Goto(p, "create")
    /\ UNCHANGED <<progress, handle, entry, var, ran, failed, late, edges>>

\* The real pthread_create.  When it fails *thread is what it was before.
RealCreate(p) ==
    /\ In(p, "create")
    /\ \E h \in Handles :
          \/ /\ h \notin {handle[t] : t \in Threads}
             /\ handle' = [handle EXCEPT ![on[p]] = h]
             /\ var' = [var EXCEPT ![p] = h]
             /\ life' = [life EXCEPT ![on[p]] = "begun"]
             /\ UNCHANGED failed
          \/ /\ CreateMayFail
             /\ var' = [var EXCEPT ![p] = h]
             /\ failed' = TRUE
             /\ UNCHANGED <<handle, life>>
    /\ Goto(p, "record")
    /\ UNCHANGED <<gid, nextGid, memory, entry, on, creator, ran, late, edges>>

RecordCreate(p) ==
    /\ In(p, "record")
    /\ edges' = edges \cup {[kind |-> "create", from |-> gid[p],
                             to |-> mem[block[on[p]]].id, about |-> on[p]]}
    /\ Goto(p, "note")
    /\ UNCHANGED <<progress, memory, handle, entry, on, var, history>>

\* Mutants: an entry that the map has is kept; the creator notes nothing.
NoteCreate_IfAbsent(p) ==
    /\ In(p, "note")
    /\ entry' = [entry EXCEPT ![var[p]] = IF @ = None THEN mem[block[on[p]]].id ELSE @]
    /\ Goto(p, "free")
    /\ UNCHANGED <<progress, memory, handle, on, var, history, edges>>
NoteCreate_Omitted(p) ==
    /\ In(p, "note")
    /\ Goto(p, "free")
    /\ UNCHANGED <<progress, memory, handle, entry, on, var, history, edges>>

\* arg->create_thread_id is read a second time.
NoteCreate(p) ==
    /\ In(p, "note")
    /\ entry' = [entry EXCEPT ![var[p]] = mem[block[on[p]]].id]
    /\ Goto(p, "free")
    /\ UNCHANGED <<progress, memory, handle, on, var, history, edges>>

\* free(arg), however far the new thread is: what the block holds afterwards is
\* anybody's guess.
Free(p) ==
    /\ In(p, "free")
    /\ LET b == block[on[p]] IN
       /\ inUse' = inUse \ {b}
       /\ \E r \in {mem[b].routine, None} : mem' = [mem EXCEPT ![b].routine = r]
    /\ late' = late \cup {t \in {on[p]} : life[t] \in {"begun", "launching", "numbered"}}
    /\ Goto(p, "run")
    /\ UNCHANGED <<progress, block, handle, entry, on, var, creator, ran, failed, edges>>
-----------------------------------------------------------------------------
(* start_routine_wrapper                                                     *)

ReadArgs(t) ==
    /\ life[t] = "begun"
    /\ life' = [life EXCEPT ![t] = "launching"]
    /\ ran' = [ran EXCEPT ![t] = mem[block[t]].routine]
    /\ UNCHANGED <<gid, nextGid, memory, handle, entry, pc, on, var, creator, failed,
                   late, edges>>

\* thread_gid = __sync_fetch_and_add(&thread_global_id, 1)
NewThreadGid(t) ==
    /\ life[t] = "launching"
    /\ life' = [life EXCEPT ![t] = "numbered"]
    /\ gid' = [gid EXCEPT ![t] = nextGid]
    /\ nextGid' = nextGid + 1
    /\ UNCHANGED <<memory, handle, entry, pc, on, var, history, edges>>

TellCreator(t) ==
    /\ life[t] = "numbered"
    /\ life' = [life EXCEPT ![t] = "running"]
    /\ mem' = [mem EXCEPT ![block[t]].id = gid[t]]
    /\ UNCHANGED <<gid, nextGid, block, inUse, handle, entry, pc, on, var, history, edges>>

End(t) ==
    /\ In(t, "run") /\ t # Main
    /\ life' = [life EXCEPT ![t] = "ended"]
    /\ UNCHANGED <<gid, nextGid, memory, handle, entry, pc, on, var, history, edges>>
-----------------------------------------------------------------------------
(* pthread_join                                                              *)

\* The real pthread_join returns when the thread has ended; its handle is free.
Join(p, t) ==
    /\ In(p, "run") /\ p \in Creators /\ life[t] = "ended"
    /\ life' = [life EXCEPT ![t] = "joined"]
    /\ handle' = [handle EXCEPT ![t] = None]
    /\ var' = [var EXCEPT ![p] = handle[t]]
    /\ on' = [on EXCEPT ![p] = t]
    /\ Goto(p, "joined")
    /\ UNCHANGED <<gid, nextGid, memory, entry, history, edges>>

\* A thread that is not in the map is taken to be thread 0.
RecordJoin(p) ==
    /\ In(p, "joined")
    /\ LET id == entry[var[p]] IN
       edges' = edges \cup {[kind |-> "join", from |-> IF id = None THEN 0 ELSE id,
                             to |-> gid[p], about |-> on[p]]}
    /\ Goto(p, "run")
    /\ UNCHANGED <<progress, memory, handle, entry, on, var, history>>
-----------------------------------------------------------------------------
Step(p) == \/ RealCreate(p) \/ RecordCreate(p) \/ NoteCreate(p) \/ Free(p) \/ RecordJoin(p)
           \/ ReadArgs(p) \/ NewThreadGid(p) \/ TellCreator(p) \/ End(p)
           \/ \E t \in Threads : Join(p, t) \/ \E b \in Blocks : Create(p, t, b)

Terminated == /\ \A t \in Threads : life[t] \in {"new", "ended", "joined"} \/ (t = Main /\ In(t, "run"))
              /\ UNCHANGED vars

Next == (\E p \in Threads : Step(p)) \/ Terminated

Spec == Init /\ [][Next]_vars
-----------------------------------------------------------------------------
(* Properties                                                                *)

\* "acutally launch new thread" (187): a thread launches the start routine it
\* was created for, not one it found in memory that was freed.
LaunchesOwnRoutine == \A t \in Threads : life[t] \notin {"new", "begun"} /\ t # Main => ran[t] = t

\* The late threads whose number may be found where that of t belongs: those that wrote it
\* into what became the block of t, or of a thread whose failed creation noted it for t.
Strangers(t) == {u \in late \ {t} : failed \/ block[u] = block[t]}

\* The two ends of an edge, as the offline analysis reads them: the thread an
\* edge says was created or joined is that thread, or 0 when its number was not
\* known yet, although handles and blocks are used again.  The one stranger it
\* can be is a thread that wrote its number late, into a block that was freed
\* (232-233) and given to this thread: nothing makes the creator wait for it.
\* (With two creators it may be another thread: between the real join and the
\* look in the map the other one can be given the handle and note it.)
NoEdgeNamesStranger ==
    \A e \in edges : (IF e.kind = "create" THEN e.to ELSE e.from) \in
                       {0, gid[e.about]} \cup {gid[u] : u \in Strangers(e.about)}

\* The offline analysis pairs the creation of a thread with its join by the
\* number both edges give: what the creation named, the join names as well, if
\* no creation failed and no late thread wrote into this thread's block.
JoinNamesWhatCreateNamed ==
    \A c, j \in edges :
        /\ c.kind = "create" /\ j.kind = "join" /\ c.about = j.about
        /\ ~failed /\ Strangers(c.about) = {}
        => c.to \in {0, j.from}

\* Two threads never have one number.
GidsAreUnique == \A t, u \in Threads : gid[t] = gid[u] /\ t # u => gid[t] = -1
===============================================================================
