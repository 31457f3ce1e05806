------------------------------- MODULE ProcessGraph ---------------------------
(***************************************************************************)
(* The multi-process graph (graph_perf.cpp): the vertices of the program   *)
(* abstraction graph in pre-order, once for each process and one behind    *)
(* the other, and between them the edges CommMatch found.                  *)
(***************************************************************************)
EXTENDS CommMatch

CONSTANTS Kids,       \* the program abstraction graph: the children of each vertex
          VertexOf,   \* the vertex of each call path
          Samples     \* the performance data of a vertex for a process, one of these

Pag == DOMAIN Kids

ASSUME GraphAssumption ==
    /\ 0 \in Pag /\ Kids \in [Pag -> Seq(Pag)]
    /\ VertexOf \in [Sites -> Pag]
    /\ Samples \subseteq [Pag -> [Ranks -> Nat]]

\* The graph is a tree with root 0 (which Expansion promises).
ASSUME TreeAssumption ==
    /\ \A v \in Pag : \A i \in DOMAIN Kids[v] :
          /\ Kids[v][i] # 0
          /\ \A w \in Pag : \A j \in DOMAIN Kids[w] : Kids[v][i] = Kids[w][j] => v = w /\ i = j
    /\ \A S \in SUBSET Pag :
          0 \in S /\ (\A v \in S : \A i \in DOMAIN Kids[v] : Kids[v][i] \in S) => S = Pag

VARIABLES samples,          \* the data of root_pag
          todo, preorder,   \* the depth-first traversal: what is to be visited, what was
          mnode, marc,      \* root_mpag: from vertex to the process and vertex it copies; its edges
          mdata,            \* its data
          commEdges, rest   \* the edges added for messages, and the messages that are left

mpag == <<samples, todo, preorder, mnode, marc, mdata, commEdges, rest>>

Root == <<-1, -1>>

GraphInit == /\ samples \in Samples
             /\ todo = <<0>> /\ preorder = <<>>
             /\ mnode = <<>> /\ marc = {} /\ mdata = <<>>
             /\ commEdges = {} /\ rest = {}

\* in_pre_order_traversal, called by DFS for the next vertex.
VisitPreOrder ==
    /\ Matched /\ todo # <<>>
    /\ preorder' = Append(preorder, Head(todo))
    /\ todo' = Kids[Head(todo)] \o Tail(todo)
    /\ UNCHANGED <<samples, mnode, marc, mdata, commEdges, rest>>

\* Vertex number i of the graph is mnode[i + 1].
Count == Len(mnode)
Chain == Len(preorder)
CopyProcess == (Count - 1) \div Chain
CopyVertexId == preorder[((Count - 1) % Chain) + 1]

AddRoot ==
    /\ Matched /\ todo = <<>> /\ mnode = <<>>
    /\ mnode' = <<Root>> /\ mdata' = <<[r \in Ranks |-> 0]>>
    /\ rest' = edges
    /\ UNCHANGED <<samples, todo, preorder, marc, commEdges>>

\* Mutant: the first vertex of a process follows the last one of the process before.
Predecessor_Chained == Count - 1

Predecessor == IF (Count - 1) % Chain = 0 THEN 0 ELSE Count - 1

DataOf(v, p) == [r \in Ranks |-> IF r = p THEN samples[v][p] ELSE 0]

Copying == todo = <<>> /\ mnode # <<>> /\ CopyProcess \in Ranks

\* One vertex for one process, with the data of this process.
CopyToMpag ==
    /\ Matched /\ Copying
    /\ mnode' = Append(mnode, <<CopyProcess, CopyVertexId>>)
    /\ marc' = marc \cup {<<Predecessor, Count>>}
    /\ mdata' = Append(mdata, DataOf(CopyVertexId, CopyProcess))
    /\ UNCHANGED <<samples, todo, preorder, commEdges, rest>>

\* pag_vid_to_pre_order_seq_id
SeqId(v) == (CHOOSE i \in DOMAIN preorder : preorder[i] = v) - 1

\* Mutant: the root is not counted.
CopyOf_NoRoot(p, site) == SeqId(VertexOf[site]) + p * Chain

CopyOf(p, site) == SeqId(VertexOf[site]) + p * Chain + 1

AddCommEdge(e) ==
    /\ Matched /\ mnode # <<>> /\ ~Copying
    /\ e \in rest
    /\ rest' = rest \ {e}
    /\ \E slow \in BOOLEAN :      \* more than 10 ms
          commEdges' = IF ~slow THEN commEdges
                       ELSE commEdges \cup {[from |-> CopyOf(e.src, e.srcPath),
                                             to |-> CopyOf(e.dest, e.destPath), edge |-> e]}
    /\ UNCHANGED <<samples, todo, preorder, mnode, marc, mdata>>

GraphNext == \/ VisitPreOrder \/ AddRoot \/ CopyToMpag
             \/ \E e \in rest : AddCommEdge(e)

\* The program runs, its files are analysed, and the graph is built from the result of
\* the approximate analysis (the exact one prints its edges only).
MpiInit == Init /\ MatchInit /\ GraphInit
MpiDone == \/ analysis \in {"crashed", "overrun"}
           \/ Matched /\ analysis = "exact"
           \/ Matched /\ mnode # <<>> /\ ~Copying /\ rest = {}
MpiStopped == \/ \E r \in Ranks : Calling(r, "wait") /\ ~StatusesRead(r)
              \/ \E r, q \in Ranks : DuplicatesAlone(r, q)
MpiNext == \/ Next /\ UNCHANGED <<matching, mpag>>
           \/ MatchNext /\ UNCHANGED mpag
           \/ analysis = "approximate" /\ GraphNext /\ UNCHANGED <<vars, matching>>
           \/ (MpiDone \/ MpiStopped) /\ UNCHANGED <<vars, matching, mpag>>
MpiVars == <<vars, matching, mpag>>
MpiSpec == MpiInit /\ [][MpiNext]_MpiVars
-----------------------------------------------------------------------------
(* Properties                                                                *)

Copied == mnode # <<>> /\ ~Copying
Copies(p, v) == {i \in DOMAIN mnode : mnode[i] = <<p, v>>}
Reached(i) == {j \in DOMAIN mnode : <<i - 1, j - 1>> \in marc}

\* Every process has one copy of every vertex, with the data of this process and of no
\* other; the copies of a process hang on the root in one chain of their own, in which a
\* vertex stands in front of its children (1093-1133).
EachProcessHasItsGraph ==
    Copied => \A p \in Ranks :
        /\ \A v \in Pag : \E i \in DOMAIN mnode :
              /\ Copies(p, v) = {i}
              /\ mdata[i] = [r \in Ranks |-> IF r = p THEN samples[v][p] ELSE 0]
              /\ Cardinality(Reached(i)) <= 1
              /\ \A j \in Reached(i) : mnode[j][1] = p /\ j > i
              /\ \A k \in DOMAIN Kids[v] : \A j \in Copies(p, Kids[v][k]) : j > i
        /\ Cardinality({i \in Reached(1) : mnode[i][1] = p}) = 1

\* An edge for a message leads from the copy of the sending call in the sending process
\* to the copy of the receiving call in the receiving one (1055-1070).
CommEdgesJoinCopies ==
    \A c \in commEdges :
        /\ mnode[c.from + 1] = <<c.edge.src, VertexOf[c.edge.srcPath]>>
        /\ mnode[c.to + 1] = <<c.edge.dest, VertexOf[c.edge.destPath]>>
===============================================================================
