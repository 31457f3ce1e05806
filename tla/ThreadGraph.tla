------------------------------- MODULE ThreadGraph -----------------------------
(***************************************************************************)
(* The rest of graph_perf.cpp for programs with threads: after the calls   *)
(* of main are connected, DynamicInterProceduralAnalysis hangs the graph   *)
(* of each start routine below the call that created its thread,           *)
(* DataEmbedding finds the vertex of each sample, and                      *)
(* GenerateMultiThreadProgramAbstractionGraph makes a chain of the         *)
(* vertices of each thread.                                                *)
(*                                                                         *)
(* An edge record is one of pthread_create or pthread_join: `create' tells *)
(* which, src and srcPath are the creating thread and its call path, or    *)
(* the joined thread and no path; dest and destPath are the new thread and *)
(* no path, or the joining thread and its call path.  Thread 0 is the main *)
(* one.  Each thread whose start routine is found has a record behind that *)
(* of its creation that passes for its join: without, the number of the    *)
(* routine is stored at vertex -1.                                         *)
(***************************************************************************)
EXTENDS DynamicCalls

VARIABLES root,      \* root_pag; it is the graph of Main, to which no call leads
          created,   \* the vertices that were added for calls of pthread_create
          wait,      \* the attribute "wait", where it is set
          hanging,   \* the routine that is walked over before it is hung
          home,      \* the vertex of each sample
          mpag,      \* root_mpag
          routine    \* history: where the routine of each thread was hung

threads == <<root, created, wait, hanging, home, mpag, routine>>
allVars == <<vars, dynamic, threads>>

None == [create |-> -1, join |-> -1, thread |-> 0]
Empty == [size |-> 0, node |-> <<>>, arc |-> {}]

ThreadInit == /\ DynamicInit
              /\ root = Empty /\ created = {} /\ wait = <<>> /\ hanging = None
              /\ home = <<>> /\ mpag = Empty /\ routine = <<>>

Below(v) == {e[2] : e \in {d \in root.arc : d[1] = v}}
Above(v) == CHOOSE u \in 0..(root.size - 1) : <<u, v>> \in root.arc
Grown(g, v, n) == [size |-> g.size + 1, node |-> g.node @@ (g.size :> n),
                   arc |-> g.arc \cup {<<v, g.size>>}]
Named(v, name) == \/ name = "pthread_create" /\ v \in created
                  \/ root.node[v] \in Sites /\ input.names[root.node[v]] = name

\* GetChildVertexWithAddr
Holds(n, a) == n \in CallAt(a, Libs) \cup FunctionAt(a, Libs)

\* Mutant: the address is taken from the path when its function is entered.
Locate_PopsEarly(g, v, path) ==
    LET RECURSIVE From(_, _)
        From(u, p) ==
            LET hits == {w \in {e[2] : e \in {d \in g.arc : d[1] = u}} :
                           p # <<>> /\ Holds(g.node[w], Head(p))}
            IN  IF hits = {} THEN [at |-> u, rest |-> p] ELSE From(Min(hits), Tail(p))
    IN  From(v, path)

\* GetVertexWithCallPath: calls take their address from the path, functions are searched
\* for the same address; what is left of the path was not found below the last vertex.
Locate(g, v, path) ==
    LET RECURSIVE From(_, _)
        From(u, p) ==
            LET hits == {w \in {e[2] : e \in {d \in g.arc : d[1] = u}} :
                           p # <<>> /\ Holds(g.node[w], Head(p))}
            IN  IF hits = {} THEN [at |-> u, rest |-> p]
                ELSE From(Min(hits), IF g.node[Min(hits)] \in Functions THEN p ELSE Tail(p))
    IN  From(v, path)

Edges == input.edges
TextOf(path) == SelectSeq(path, Text)     \* delete_all_so_addr

\* created_tid_2_callpath_and_tid: what the last record says of the thread.
Creation(t) ==
    LET own == SelectSeq(Edges, LAMBDA e : e.create /\ e.dest = t)
    IN  IF own = <<>> THEN [thread |-> 0, path |-> <<>>]
        ELSE [thread |-> Last(own).src, path |-> TextOf(Last(own).srcPath)]

\* GetVertexWithInterThreadAnalysis
RECURSIVE InterThread(_, _, _)
InterThread(g, t, path) ==
    IF path = <<>> THEN [at |-> 0, rest |-> <<>>]
    ELSE IF t = 0 THEN Locate(g, 0, Tail(path))
    ELSE Locate(g, InterThread(g, Creation(t).thread, Creation(t).path).at, path)

\* Connecting for main has ended: its graph is the one that threads are added to.
StartThreads ==
    /\ phase = "connect" /\ Done
    /\ phase' = "threads" /\ row' = 1
    /\ root' = [size |-> size[Main], node |-> node[Main], arc |-> arc[Main]]
    /\ UNCHANGED <<vars, input, visited, added, created, wait, hanging, home, mpag, routine>>

\* The calling context of a join has no frames on the side of the thread that ended.
\* Mutant: any later record that starts at the thread passes for its join.
Joins_AnyPath(i) == {j \in (i + 1)..Len(Edges) : Edges[j].src = Edges[i].dest}

Joins(i) == {j \in (i + 1)..Len(Edges) : /\ Edges[j].src = Edges[i].dest
                                         /\ Len(TextOf(Edges[j].srcPath)) <= 1}

\* Where the function of the first sample of a thread is; nothing when the sample is
\* in a shared object of which nothing is known.
RoutineOf(t) ==
    LET own == {i \in DOMAIN input.samples : input.samples[i].thread = t /\ VertexPath(i) # <<>>}
    IN  IF own = {} THEN {} ELSE FunctionAt(Head(VertexPath(Min(own))), added)

Processing == phase = "threads" /\ stack = <<>> /\ hanging = None /\ row <= Len(Edges)

\* DynamicInterProceduralAnalysis, for one record of pthread_create: a vertex is added
\* only for what was not found of its path; the vertex of the join is always found.
CreateThread ==
    /\ Processing /\ Edges[row].create
    /\ LET e == Edges[row]
           found == InterThread(root, e.src, TextOf(e.srcPath))
           g == IF found.rest = <<>> THEN root ELSE Grown(root, found.at, Head(found.rest)[2])
           c == IF found.rest = <<>> THEN found.at ELSE root.size
           join == IF Joins(row) = {} THEN -1
                   ELSE LET j == Edges[Min(Joins(row))]
                        IN  InterThread(g, j.dest, TextOf(j.destPath)).at
       IN  /\ root' = g
           /\ created' = IF found.rest = <<>> THEN created ELSE created \cup {c}
           /\ IF RoutineOf(e.dest) = {}
              THEN UNCHANGED <<scanned, stack, hanging>>
              ELSE \E f \in RoutineOf(e.dest) :
                     /\ join >= 0
                     /\ scanned' = scanned \cup {f}
                     /\ stack' = <<Traversal(f)>>
                     /\ hanging' = [create |-> c, join |-> join, thread |-> e.dest]
    /\ row' = row + 1
    /\ UNCHANGED <<callees, graphs, input, phase, visited, added, wait, home, mpag, routine>>

OtherRecord ==
    /\ Processing /\ ~Edges[row].create
    /\ row' = row + 1
    /\ UNCHANGED <<vars, input, phase, visited, added, threads>>

\* ConnectCallerCallee over the start routine, every time a thread is created with it
ConnectRoutine == phase = "threads" /\ Connect /\ UNCHANGED <<dynamic, threads>>

HangRoutine ==
    /\ phase = "threads" /\ Done /\ hanging # None
    /\ \E f \in RoutineOf(hanging.thread) :
         root' = [size |-> root.size + size[f],
                  node |-> root.node @@ [v \in root.size..(root.size + size[f] - 1) |-> node[f][v - root.size]],
                  arc |-> root.arc \cup G!Shift(arc[f], root.size) \cup {<<hanging.create, root.size>>}]
    /\ wait' = (hanging.join :> root.size) @@ wait
    /\ routine' = (hanging.thread :> root.size) @@ routine
    /\ hanging' = None
    /\ UNCHANGED <<vars, dynamic, created, home, mpag>>

\* DataEmbedding
Embed ==
    /\ phase = "threads" /\ Done /\ hanging = None /\ row > Len(Edges)
    /\ phase' = "embedded"
    /\ home' = [i \in DOMAIN input.samples |->
                  InterThread(root, input.samples[i].thread, VertexPath(i)).at]
    /\ UNCHANGED <<vars, input, row, visited, added, root, created, wait, hanging, mpag, routine>>
-----------------------------------------------------------------------------
(* GenerateMultiThreadProgramAbstractionGraph                                *)

\* in_pthread_expansion: x.copy is the copy of each vertex that was visited, x.src the last
\* one, x.last the end of each routine.
Enter(x, v) ==
    LET waits == Named(v, "pthread_join") /\ v \in DOMAIN wait /\ wait[v] > 0
    IN  [x EXCEPT !.g = [size |-> x.g.size + 1, node |-> x.g.node @@ (x.g.size :> v),
                         arc |-> @.arc \cup (IF x.src >= 0 THEN {<<x.src, x.g.size>>} ELSE {})
                                       \cup (IF waits THEN {<<x.last[wait[v]], x.g.size>>} ELSE {})],
                  !.copy = (v :> x.g.size) @@ @,
                  !.src = x.g.size]

\* Mutant: what follows a creation is hung behind the end of the thread.
Leave_StaysInThread(x, v) ==
    IF v # 0 /\ Named(Above(v), "pthread_create")
    THEN [x EXCEPT !.last = (v :> x.src) @@ @] ELSE x

\* out_pthread_expansion
Leave(x, v) ==
    IF v # 0 /\ Named(Above(v), "pthread_create")
    THEN [x EXCEPT !.last = (v :> x.src) @@ @, !.src = x.copy[Above(v)]] ELSE x

\* ProgramAbstractionGraph::DFS, children by their numbers
RECURSIVE Walk(_, _)
Walk(x, v) == Leave(FoldLeft(Walk, Enter(x, v), SetToSortSeq(Below(v), <)), v)

Expand ==
    /\ phase = "embedded" /\ phase' = "expanded"
    /\ mpag' = Walk([g |-> Empty, copy |-> <<>>, src |-> -1, last |-> <<>>], 0).g
    /\ UNCHANGED <<vars, input, row, visited, added, root, created, wait, hanging, home, routine>>

Finished == phase = "expanded" /\ UNCHANGED allVars

ThreadNext == \/ DynamicNext /\ UNCHANGED threads
              \/ StartThreads \/ CreateThread \/ OtherRecord \/ ConnectRoutine \/ HangRoutine
              \/ Embed \/ Expand \/ Finished

ThreadSpec == ThreadInit /\ [][ThreadNext]_allVars
-----------------------------------------------------------------------------
(* Properties                                                                *)

\* The calls from main to the end of a path, through the creations of the threads.
CallsOn(path) ==
    LET plain == {k \in 0..Len(path) : \A i \in 1..k : CallAt(path[i], Libs) # {}}
    IN  [i \in 1..Max(plain) |-> CHOOSE s \in CallAt(path[i], Libs) : TRUE]
RECURSIVE Context(_, _)
Context(t, path) ==
    IF path = <<>> THEN <<>>
    ELSE IF t = 0 THEN CallsOn(Tail(path))
    ELSE Context(Creation(t).thread, Creation(t).path) \o CallsOn(path)

\* The calls from main down to vertex v.
RECURSIVE Chain(_)
Chain(v) == (IF v = 0 THEN <<>> ELSE Chain(Above(v)))
            \o (IF root.node[v] \in Sites THEN <<root.node[v]>> ELSE <<>>)

\* The time of a sample is added to a vertex of its own calling context, through the
\* creations of its thread, and to none that is further up than it has to be: what is
\* missing of the context is in no vertex (pg.cpp 108-196, graph_perf.cpp 710-772).  When
\* main is called again its calls are connected twice, and the time may stay further up.
SamplesLandInContext ==
    phase = "embedded" /\ (\A s \in Sites : Main \notin callees[s]) =>
        \A i \in DOMAIN input.samples :
            LET context == Context(input.samples[i].thread, VertexPath(i))
                here == Chain(home[i])
            IN  /\ IsPrefix(here, context)
                /\ \A v \in 0..(root.size - 1) :
                      IsPrefix(Chain(v), context) => Len(Chain(v)) <= Len(here)

MultiThread == phase = "expanded"
CopyOf(v) == CHOOSE k \in 0..(mpag.size - 1) : mpag.node[k] = v
Starts == Range(routine)
RECURSIVE StartOf(_)
StartOf(v) == IF v = 0 \/ v \in Starts THEN v ELSE StartOf(Above(v))
\* the copies of one thread, of which that of v is one
OfThread(v) == {k \in 0..(mpag.size - 1) : StartOf(mpag.node[k]) = StartOf(v)}

\* what thread s does is in the order of the vertices, and starts behind its creation
Chained == {IF v \in Starts THEN <<CopyOf(Above(v)), CopyOf(v)>>
            ELSE <<Max({k \in OfThread(v) : k < CopyOf(v)}), CopyOf(v)>> : v \in 1..(root.size - 1)}

\* The creation of a thread was recorded before the creations in it; its creator may be
\* slower than the thread itself, and then the order is another one.
CreatedInOrder == \A i \in DOMAIN Edges : Edges[i].create /\ Edges[i].src # 0 =>
                     \E j \in 1..(i - 1) : Edges[j].create /\ Edges[j].dest = Edges[i].src

\* In the multi-thread graph each vertex has one copy, each thread is a chain behind the
\* copy of its creation, and its creator goes on from there, also when threads that
\* create others are nested (graph_perf.cpp 780-819).
ThreadsAreChains ==
    MultiThread /\ CreatedInOrder =>
                   /\ mpag.size = root.size
                   /\ {mpag.node[k] : k \in 0..(mpag.size - 1)} = 0..(root.size - 1)
                   /\ Chained \subseteq mpag.arc

JoinsOf(t) == {j \in DOMAIN Edges : ~Edges[j].create /\ Edges[j].src = t}
JoinVertex(t) == LET j == Edges[Min(JoinsOf(t))] IN InterThread(root, j.dest, TextOf(j.destPath)).at
Later(t, u) == \E i, j \in DOMAIN Edges : i < j /\ Edges[i].create /\ Edges[i].dest = t
                                        /\ Edges[j].create /\ Edges[j].dest = u

\* A thread that creates others does that below its start routine: a creation in the
\* routine itself has a call path of one address and passes for the thread's join.
CreatesBelow == \A i \in DOMAIN Edges : Edges[i].create /\ Edges[i].src # 0 =>
                                          Len(TextOf(Edges[i].srcPath)) > 1

\* The other edges join the end of a thread with the call that waited for it; of threads
\* that one call waits for in turn, only the one that was created last
\* (graph_perf.cpp 485-545, 795-804).
JoinsFollowTheirThread ==
    MultiThread /\ CreatedInOrder /\ CreatesBelow =>
        mpag.arc \ Chained =
            {<<Max(OfThread(routine[t])), CopyOf(JoinVertex(t))>> :
                t \in {u \in DOMAIN routine :
                         /\ JoinsOf(u) # {} /\ Named(JoinVertex(u), "pthread_join")
                         /\ ~\E w \in DOMAIN routine : /\ Later(u, w) /\ JoinsOf(w) # {}
                                                        /\ JoinVertex(w) = JoinVertex(u)}}
===============================================================================
