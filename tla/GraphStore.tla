------------------------------- MODULE GraphStore -----------------------------
(***************************************************************************)
(* Class Graph (src/core/graph.cpp) on top of igraph: vertices come in     *)
(* trunks, of which cur_vertex_num are in use; the spare ones at the end   *)
(* are cut off before a graph is copied or written.  A vertex carries its  *)
(* own number in the attribute "id"; the other attributes are abstracted   *)
(* to a name.  AddGraph copies vertex by vertex, also a graph to itself,   *)
(* as the expansion of a recursive function does.                          *)
(***************************************************************************)
EXTENDS Integers

CONSTANTS Graphs, Names,
          Blank,       \* the attributes of a vertex that was only allocated
          Trunk,       \* TRUNK_SIZE
          MaxCalls     \* bound on the number of calls

ASSUME GraphAssumption ==
    /\ Trunk \in Nat \ {0} /\ MaxCalls \in Nat
    /\ Blank \notin Names

VARIABLES vcount,  \* igraph_vcount
          cur,     \* cur_vertex_num
          id,      \* the attribute "id"; -1 where it was never set
          name,    \* the other attributes
          edges,
          dumped,  \* has a graph been dumped?
          file,    \* that graph
          task,    \* the AddGraph that is going on
          calls,   \* the number of calls so far
          shifted  \* history: graphs in which vertices were renumbered

graph == <<vcount, cur, id, name, edges>>
output == <<dumped, file>>
vars  == <<graph, output, task, calls, shifted>>

Idle == [on |-> FALSE]
\* AddGraph(to, from): of `total' vertices `next' are copied, vertex v as newId[v]
Copying(to, from, total, next, newId) ==
    [on |-> TRUE, to |-> to, from |-> from, total |-> total, next |-> next, newId |-> newId]

Used(g)  == 0..(cur[g] - 1)
All(g)   == 0..(vcount[g] - 1)

\* One operation at a time: nothing is called while AddGraph copies.
Call == ~task.on /\ calls < MaxCalls /\ calls' = calls + 1

Init == /\ vcount = [g \in Graphs |-> 0]
        /\ cur = [g \in Graphs |-> 0]
        /\ id = [g \in Graphs |-> [v \in 0..-1 |-> -1]]
        /\ name = [g \in Graphs |-> [v \in 0..-1 |-> Blank]]
        /\ edges = [g \in Graphs |-> {}]
        /\ dumped = FALSE
        /\ file = [size |-> 0, id |-> [v \in 0..-1 |-> -1], name |-> [v \in 0..-1 |-> Blank],
                   edges |-> {}, shifted |-> FALSE]
        /\ task = Idle
        /\ calls = 0
        /\ shifted = {}
-----------------------------------------------------------------------------
(* Adding and deleting                                                       *)

\* Mutant: the pool grows one vertex too late.
Grown_Late(g) == IF cur[g] > vcount[g] THEN vcount[g] + Trunk ELSE vcount[g]

\* igraph_add_vertices: their attributes are not set
Grown(g) == IF cur[g] >= vcount[g] THEN vcount[g] + Trunk ELSE vcount[g]

\* AddVertex, and the attributes n its caller gives the vertex.
NewVertex(g, n) ==
    /\ vcount' = [vcount EXCEPT ![g] = Grown(g)]
    /\ id' = [id EXCEPT ![g] = [v \in 0..(Grown(g) - 1) |->
                 IF v = cur[g] THEN v ELSE IF v < vcount[g] THEN @[v] ELSE -1]]
    /\ name' = [name EXCEPT ![g] = [v \in 0..(Grown(g) - 1) |->
                 IF v = cur[g] THEN n ELSE IF v < vcount[g] THEN @[v] ELSE Blank]]
    /\ cur' = [cur EXCEPT ![g] = @ + 1]

AddVertex(g, n) ==
    /\ Call
    /\ NewVertex(g, n)
    /\ UNCHANGED <<edges, output, task, shifted>>

AddEdge(g, a, b) ==
    /\ Call /\ <<a, b>> \notin edges[g]
    /\ edges' = [edges EXCEPT ![g] = @ \cup {<<a, b>>}]
    /\ UNCHANGED <<vcount, cur, id, name, output, task, shifted>>

\* An edge that QueryEdge does not find is left alone.
DeleteEdge(g, a, b) ==
    /\ Call
    /\ edges' = [edges EXCEPT ![g] = @ \ {<<a, b>>}]
    /\ UNCHANGED <<vcount, cur, id, name, output, task, shifted>>

\* igraph gives every vertex behind v a new number; the attribute "id" stays.
DeleteVertex(g, v) ==
    /\ Call
    /\ vcount' = [vcount EXCEPT ![g] = @ - 1]
    /\ cur' = [cur EXCEPT ![g] = @ - 1]
    /\ id' = [id EXCEPT ![g] =
                 [w \in 0..(vcount[g] - 2) |-> IF w < v THEN @[w] ELSE @[w + 1]]]
    /\ name' = [name EXCEPT ![g] =
                 [w \in 0..(vcount[g] - 2) |-> IF w < v THEN @[w] ELSE @[w + 1]]]
    /\ edges' = [edges EXCEPT ![g] =
                 LET down(x) == IF x > v THEN x - 1 ELSE x
                 IN  {<<down(e[1]), down(e[2])>> : e \in {d \in @ : d[1] # v /\ d[2] # v}}]
    /\ shifted' = IF v < cur[g] - 1 THEN shifted \cup {g} ELSE shifted
    /\ UNCHANGED <<output, task>>

\* DeleteExtraTailVertices: the spare vertices go, with the edges they have.
Trim(g) ==
    /\ vcount' = [vcount EXCEPT ![g] = cur[g]]
    /\ id' = [id EXCEPT ![g] = [v \in Used(g) |-> @[v]]]
    /\ name' = [name EXCEPT ![g] = [v \in Used(g) |-> @[v]]]
    /\ edges' = [edges EXCEPT ![g] = {e \in @ : e[1] < cur[g] /\ e[2] < cur[g]}]
    /\ UNCHANGED cur

DeleteExtraTailVertices(g) ==
    /\ Call
    /\ Trim(g)
    /\ UNCHANGED <<output, task, shifted>>
-----------------------------------------------------------------------------
(* AddGraph                                                                  *)

\* Mutant: AddGraph without the cut copies the spare vertices too.
StartCopy_NoTrim(g, h) ==
    /\ Call
    /\ task' = Copying(g, h, vcount[h], 0, [v \in 0..-1 |-> 0])
    /\ UNCHANGED <<graph, output, shifted>>

\* The iterator over the vertices to copy is created after the cut.
StartCopy(g, h) ==
    /\ Call
    /\ Trim(h)
    /\ task' = Copying(g, h, vcount'[h], 0, [v \in 0..-1 |-> 0])
    /\ UNCHANGED <<output, shifted>>

\* Mutant: DeepCopyVertex (graph.cpp 299-326), which copies the attribute "id" too.
CopyVertex_Deep ==
    /\ task.on /\ task.next < task.total
    /\ vcount' = [vcount EXCEPT ![task.to] = Grown(task.to)]
    /\ id' = [id EXCEPT ![task.to] = [v \in 0..(Grown(task.to) - 1) |->
                 IF v = cur[task.to] THEN id[task.from][task.next]
                 ELSE IF v < vcount[task.to] THEN @[v] ELSE -1]]
    /\ name' = [name EXCEPT ![task.to] = [v \in 0..(Grown(task.to) - 1) |->
                 IF v = cur[task.to] THEN name[task.from][task.next]
                 ELSE IF v < vcount[task.to] THEN @[v] ELSE Blank]]
    /\ cur' = [cur EXCEPT ![task.to] = @ + 1]
    /\ task' = Copying(task.to, task.from, task.total, task.next + 1,
                       [v \in 0..task.next |->
                           IF v < task.next THEN task.newId[v] ELSE cur[task.to]])
    /\ UNCHANGED <<edges, output, calls, shifted>>

\* CopyVertex copies every attribute but "id".
CopyVertex ==
    /\ task.on /\ task.next < task.total
    /\ NewVertex(task.to, name[task.from][task.next])
    /\ task' = Copying(task.to, task.from, task.total, task.next + 1,
                       [v \in 0..task.next |->
                           IF v < task.next THEN task.newId[v] ELSE cur[task.to]])
    /\ UNCHANGED <<edges, output, calls, shifted>>

\* Mutant: the edges between the copies keep the numbers of the originals.
CopyEdges_Unmapped ==
    /\ task.on /\ task.next = task.total
    /\ edges' = [edges EXCEPT ![task.to] = @ \cup edges[task.from]]
    /\ task' = Idle
    /\ UNCHANGED <<vcount, cur, id, name, output, calls, shifted>>

\* The edges, with the numbers the copies of their ends have.
CopyEdges ==
    /\ task.on /\ task.next = task.total
    /\ edges' = [edges EXCEPT ![task.to] =
                    @ \cup {<<task.newId[e[1]], task.newId[e[2]]>> : e \in edges[task.from]}]
    /\ task' = Idle
    /\ UNCHANGED <<vcount, cur, id, name, output, calls, shifted>>
-----------------------------------------------------------------------------
(* Files                                                                     *)

\* Every file is written once: one dump stands for the dumps of all graphs.
DumpGraphGML(g) ==
    /\ Call /\ ~dumped
    /\ Trim(g)
    /\ dumped' = TRUE
    /\ file' = [size |-> vcount'[g], id |-> id'[g], name |-> name'[g], edges |-> edges'[g],
                shifted |-> g \in shifted]
    /\ UNCHANGED <<task, shifted>>

\* Into a graph that was just constructed; the name is that of vertex 0.
ReadGraphGML(g) ==
    /\ Call /\ dumped /\ file.size > 0 /\ vcount[g] = 0
    /\ vcount' = [vcount EXCEPT ![g] = file.size]
    /\ cur' = [cur EXCEPT ![g] = file.size]
    /\ id' = [id EXCEPT ![g] = file.id]
    /\ name' = [name EXCEPT ![g] = file.name]
    /\ edges' = [edges EXCEPT ![g] = file.edges]
    /\ shifted' = IF file.shifted THEN shifted \cup {g} ELSE shifted
    /\ UNCHANGED <<output, task>>

Next == \/ \E g \in Graphs :
              \/ \E n \in Names : AddVertex(g, n)
              \/ \E a, b \in Used(g) : AddEdge(g, a, b) \/ DeleteEdge(g, a, b)
              \/ \E v \in Used(g) : DeleteVertex(g, v)
              \/ DeleteExtraTailVertices(g)
              \/ \E h \in Graphs : StartCopy(g, h)
              \/ DumpGraphGML(g)
              \/ ReadGraphGML(g)
        \/ CopyVertex
        \/ CopyEdges

Spec == Init /\ [][Next]_vars
-----------------------------------------------------------------------------
(* Properties                                                                *)

\* Every variable keeps its type (graph.h, baguatool.h:160).
TypeOK ==
    /\ vcount \in [Graphs -> Nat] /\ cur \in [Graphs -> Nat]
    /\ \A g \in Graphs : /\ id[g] \in [All(g) -> Int]
                         /\ name[g] \in [All(g) -> Names \cup {Blank}]
                         /\ edges[g] \subseteq All(g) \X All(g)
    /\ shifted \subseteq Graphs /\ calls \in 0..MaxCalls

\* The vertices in use are those that were added, and only they have attributes
\* and edges: no traversal, copy or dump shows a vertex of the pool (graph.cpp
\* 41-48, 365-381), and AddVertex hands out one that nothing points to.
NoPhantomVertex ==
    \A g \in Graphs :
        /\ cur[g] <= vcount[g]
        /\ \A v \in All(g) : name[g][v] = Blank <=> v \notin Used(g)
        /\ edges[g] \subseteq Used(g) \X Used(g)

\* The attribute "id" of a vertex in use is its number, after any number of copies
\* (graph.cpp:346), cuts, dumps and reads, as long as no vertex in front of
\* another was deleted.
IdsNameVertices ==
    \A g \in Graphs \ shifted : \A v \in Used(g) : id[g][v] = v

\* Class Graph implements LabelledGraph: the vertices that are copied are there
\* when the edges between them are.
Shown(g) == IF task.on /\ task.to = g THEN cur[g] - task.next ELSE cur[g]
Sizes == [g \in Graphs |-> Shown(g)]
Nodes == [g \in Graphs |-> [v \in 0..(Shown(g) - 1) |-> name[g][v]]]
Abstract == INSTANCE LabelledGraph WITH
    size <- Sizes, node <- Nodes, arc <- edges,
    isStored <- dumped,
    stored <- [size |-> file.size, node |-> file.name, arc |-> file.edges]
KeepsItsGraphs == Abstract!Spec
===============================================================================
