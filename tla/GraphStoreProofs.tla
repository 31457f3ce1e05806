---------------------------- MODULE GraphStoreProofs --------------------------
(***************************************************************************)
(* Proofs about GraphStore for any number of graphs, names and calls and   *)
(* any trunk size: types, the pool of spare vertices and the attribute     *)
(* "id".  The invariant adds to these properties what a copy under way and *)
(* the dumped file must look like for the next step to keep them.  Behind  *)
(* them: the graph of a function (FunctionGraph) keeps the nesting of its  *)
(* loops and calls.                                                        *)
(***************************************************************************)
EXTENDS GraphStore, FunctionGraph, SumTheorems, TLAPS

\* Each variable of the graphs is a function on Graphs.
Shape == /\ vcount = [g \in Graphs |-> vcount[g]]
         /\ cur = [g \in Graphs |-> cur[g]]
         /\ id = [g \in Graphs |-> id[g]]
         /\ name = [g \in Graphs |-> name[g]]
         /\ edges = [g \in Graphs |-> edges[g]]

GraphOK(g) ==
    /\ vcount[g] \in Nat /\ cur[g] \in Nat /\ cur[g] <= vcount[g]
    /\ id[g] \in [All(g) -> Int]
    /\ name[g] \in [All(g) -> Names \cup {Blank}]
    /\ \A v \in All(g) : name[g][v] = Blank <=> v \notin Used(g)
    /\ edges[g] \subseteq Used(g) \X Used(g)
    /\ g \notin shifted => \A v \in Used(g) : id[g][v] = v

Pages == 0..(file.size - 1)
FileOK ==
    /\ file.size \in Nat
    /\ file.id \in [Pages -> Int] /\ file.name \in [Pages -> Names]
    /\ file.edges \subseteq Pages \X Pages
    /\ file.shifted \in BOOLEAN
    /\ ~file.shifted => \A v \in Pages : file.id[v] = v

\* While a graph is copied its vertices are all there, and the copies of the ones
\* that were reached follow each other (graph.cpp 114-129).
CopyOnTrack ==
    task.on => /\ task.next <= task.total
               /\ task.total <= cur[task.from]
               /\ task.next <= cur[task.to]
               /\ \A v \in 0..(task.next - 1) :
                     /\ task.newId[v] = cur[task.to] - task.next + v
                     /\ name[task.to][task.newId[v]] = name[task.from][v]

\* The edges to copy are between vertices that are copied, also in a graph that
\* grows because it is copied to itself.
TaskOK ==
    /\ task.on \in BOOLEAN
    /\ task.on => /\ task.to \in Graphs /\ task.from \in Graphs
                  /\ task.total \in Nat /\ task.next \in Nat
                  /\ task.newId \in [0..(task.next - 1) -> Nat]
                  /\ edges[task.from] \subseteq (0..(task.total - 1)) \X (0..(task.total - 1))
                  /\ task.total = Shown(task.from)
    /\ CopyOnTrack

IInv == /\ Shape
        /\ \A g \in Graphs : GraphOK(g)
        /\ FileOK
        /\ TaskOK
        /\ shifted \subseteq Graphs /\ calls \in 0..MaxCalls
-----------------------------------------------------------------------------
\* The graph variables of another graph do not change.
LEMMA NewVertexKeeps ==
    ASSUME IInv, NEW g \in Graphs, NEW n \in Names, NewVertex(g, n),
           UNCHANGED <<edges, shifted>>
    PROVE  /\ Shape' /\ \A h \in Graphs : GraphOK(h)'
           /\ cur[g] \in Nat /\ cur'[g] = cur[g] + 1
           /\ name'[g][cur[g]] = n
           /\ \A v \in Used(g) : name'[g][v] = name[g][v]
           /\ \A h \in Graphs \ {g} : cur'[h] = cur[h] /\ name'[h] = name[h]
<1> USE GraphAssumption
<1>1. /\ vcount[g] \in Nat /\ cur[g] \in Nat /\ cur[g] <= vcount[g]
      /\ Grown(g) \in Nat /\ cur[g] < Grown(g) /\ vcount[g] <= Grown(g)
  BY DEF IInv, GraphOK, Grown
<1>2. Shape'
  BY DEF IInv, Shape, NewVertex
<1>3. /\ vcount'[g] = Grown(g) /\ cur'[g] = cur[g] + 1
      /\ id'[g] = [v \in 0..(Grown(g) - 1) |->
                    IF v = cur[g] THEN v ELSE IF v < vcount[g] THEN id[g][v] ELSE -1]
      /\ name'[g] = [v \in 0..(Grown(g) - 1) |->
                    IF v = cur[g] THEN n ELSE IF v < vcount[g] THEN name[g][v] ELSE Blank]
  BY DEF IInv, Shape, NewVertex
<1>4. \A h \in Graphs \ {g} : /\ vcount'[h] = vcount[h] /\ cur'[h] = cur[h]
                              /\ id'[h] = id[h] /\ name'[h] = name[h]
  BY DEF IInv, Shape, NewVertex
<1>5. /\ name'[g][cur[g]] = n
      /\ \A v \in Used(g) : name'[g][v] = name[g][v]
  BY <1>1, <1>3 DEF Used
<1>6. GraphOK(g)'
  <2>1. All(g)' = 0..(Grown(g) - 1) /\ Used(g)' = 0..cur[g]
    BY <1>1, <1>3 DEF All, Used
  <2>2. id'[g] \in [All(g)' -> Int]
    BY <1>1, <1>3, <2>1 DEF IInv, GraphOK, All
  <2>3. name'[g] \in [All(g)' -> Names \cup {Blank}]
    BY <1>1, <1>3, <2>1 DEF IInv, GraphOK, All
  <2>4. \A v \in All(g)' : name'[g][v] = Blank <=> v \notin Used(g)'
    BY <1>1, <1>3, <2>1 DEF IInv, GraphOK, All, Used
  <2>5. edges'[g] \subseteq Used(g)' \X Used(g)'
    <3>1. edges[g] \subseteq Used(g) \X Used(g) /\ edges'[g] = edges[g]
      BY DEF IInv, GraphOK
    <3>2. \A v \in Used(g) : v \in 0..cur[g]
      BY <1>1 DEF Used
    <3> QED
      BY <2>1, <3>1, <3>2
  <2>6. g \notin shifted' => \A v \in Used(g)' : id'[g][v] = v
    BY <1>1, <1>3, <2>1 DEF IInv, GraphOK, Used
  <2>7. /\ vcount'[g] \in Nat /\ cur'[g] \in Nat /\ cur'[g] <= vcount'[g]
    BY <1>1, <1>3
  <2> QED
    BY <2>2, <2>3, <2>4, <2>5, <2>6, <2>7 DEF GraphOK
<1>7. \A h \in Graphs \ {g} : GraphOK(h)'
  BY <1>4, SMTT(20) DEF IInv, GraphOK, All, Used
<1> QED
  BY <1>1, <1>2, <1>3, <1>4, <1>5, <1>6, <1>7

\* Cutting the spare vertices off changes nothing that is in use.
LEMMA TrimKeeps ==
    ASSUME IInv, NEW g \in Graphs, Trim(g), UNCHANGED shifted
    PROVE  /\ Shape' /\ \A h \in Graphs : GraphOK(h)'
           /\ UNCHANGED cur
           /\ vcount'[g] = cur[g] /\ name'[g] \in [Used(g) -> Names]
           /\ edges' = edges
           /\ \A h \in Graphs : \A v \in Used(h) : name'[h][v] = name[h][v]
<1>1. Shape'
  BY DEF IInv, Shape, Trim
<1>2. /\ vcount'[g] = cur[g]
      /\ id'[g] = [v \in Used(g) |-> id[g][v]]
      /\ name'[g] = [v \in Used(g) |-> name[g][v]]
      /\ edges'[g] = {e \in edges[g] : e[1] < cur[g] /\ e[2] < cur[g]}
  BY DEF IInv, Shape, Trim
<1>3. \A h \in Graphs \ {g} : /\ vcount'[h] = vcount[h] /\ id'[h] = id[h]
                              /\ name'[h] = name[h] /\ edges'[h] = edges[h]
  BY DEF IInv, Shape, Trim
<1>4. UNCHANGED cur
  BY DEF Trim
<1>5. GraphOK(g)
  BY DEF IInv
<1>6. Used(g) \subseteq All(g) /\ All(g)' = Used(g) /\ Used(g)' = Used(g)
  BY <1>2, <1>4, <1>5 DEF GraphOK, All, Used
<1>7. edges'[g] = edges[g]
  BY <1>2, <1>5 DEF GraphOK, Used
<1>8. name'[g] \in [Used(g) -> Names]
  BY <1>2, <1>5, <1>6 DEF GraphOK
<1>9. GraphOK(g)'
  <2>1. /\ vcount'[g] \in Nat /\ cur'[g] \in Nat /\ cur'[g] <= vcount'[g]
    BY <1>2, <1>4, <1>5 DEF GraphOK
  <2>2. id'[g] \in [All(g)' -> Int]
    BY <1>2, <1>5, <1>6 DEF GraphOK
  <2>3. \A v \in All(g)' : name'[g][v] # Blank /\ v \in Used(g)'
    BY <1>6, <1>8, GraphAssumption
  <2>4. edges'[g] \subseteq Used(g)' \X Used(g)'
    BY <1>5, <1>6, <1>7 DEF GraphOK
  <2>5. g \notin shifted' => \A v \in Used(g)' : id'[g][v] = v
    BY <1>2, <1>5, <1>6 DEF GraphOK
  <2> QED
    BY <1>6, <1>8, <2>1, <2>2, <2>3, <2>4, <2>5 DEF GraphOK
<1>10. \A h \in Graphs \ {g} : GraphOK(h)'
  BY <1>3, <1>4, SMTT(60) DEF IInv, GraphOK, All, Used
<1>11. edges' = edges
  BY <1>1, <1>3, <1>7 DEF IInv, Shape
<1>12. \A h \in Graphs : \A v \in Used(h) : name'[h][v] = name[h][v]
  BY <1>2, <1>3
<1> QED
  BY <1>1, <1>2, <1>4, <1>8, <1>9, <1>10, <1>11, <1>12
-----------------------------------------------------------------------------
\* While no copy is under way the part about it is trivial.
LEMMA NoTask == ASSUME task'.on \in BOOLEAN, ~task'.on
                PROVE  TaskOK'
  BY DEF TaskOK, CopyOnTrack

LEMMA InitInv == Init => IInv
<1> SUFFICES ASSUME Init PROVE IInv
  OBVIOUS
<1> USE GraphAssumption
<1>1. Shape
  BY DEF Init, Shape
<1>2. ASSUME NEW g \in Graphs PROVE GraphOK(g)
  <2>1. /\ vcount[g] = 0 /\ cur[g] = 0 /\ edges[g] = {}
        /\ id[g] = [v \in 0..-1 |-> -1] /\ name[g] = [v \in 0..-1 |-> Blank]
    BY DEF Init
  <2>2. All(g) = 0..-1 /\ Used(g) = 0..-1
    BY <2>1 DEF All, Used
  <2> QED
    BY <2>1, <2>2 DEF GraphOK
<1>3. FileOK
  <2>1. /\ file.size = 0 /\ file.edges = {} /\ file.shifted = FALSE
        /\ file.id = [v \in 0..-1 |-> -1] /\ file.name = [v \in 0..-1 |-> Blank]
    BY DEF Init
  <2>2. Pages = 0..-1 /\ Pages = {}
    BY <2>1 DEF Pages
  <2>3. file.id \in [Pages -> Int] /\ file.name \in [Pages -> Names]
    BY <2>1, <2>2
  <2>4. file.size \in Nat /\ file.edges \subseteq Pages \X Pages
    BY <2>1
  <2>6. file.shifted \in BOOLEAN
    BY <2>1, Zenon
  <2>5. \A v \in Pages : file.id[v] = v
    BY <2>2
  <2> QED
    BY <2>3, <2>4, <2>5, <2>6 DEF FileOK
<1>4. TaskOK
  BY DEF Init, Idle, TaskOK, CopyOnTrack
<1> QED
  BY <1>1, <1>2, <1>3, <1>4 DEF IInv, Init

\* An edge between vertices in use, or one less: nothing else changes.
LEMMA EdgesKeep ==
    ASSUME IInv, NEW g \in Graphs, NEW new \in SUBSET (Used(g) \X Used(g)),
           edges' = [edges EXCEPT ![g] = new],
           UNCHANGED <<vcount, cur, id, name, shifted>>
    PROVE  Shape' /\ \A h \in Graphs : GraphOK(h)'
<1>1. Shape'
  BY DEF IInv, Shape
<1>2. ASSUME NEW h \in Graphs PROVE GraphOK(h)'
  <2>1. edges'[h] \subseteq Used(h) \X Used(h)
    BY DEF IInv, Shape, GraphOK
  <2> QED
    BY <2>1 DEF IInv, GraphOK, All, Used
<1> QED
  BY <1>1, <1>2

LEMMA FileKeeps == FileOK /\ UNCHANGED file => FileOK'
  BY DEF FileOK, Pages

\* igraph renumbers the vertices behind the deleted one, and their edges.
LEMMA DeleteVertexKeeps ==
    ASSUME IInv, NEW g \in Graphs, NEW v \in Used(g), DeleteVertex(g, v)
    PROVE  Shape' /\ \A h \in Graphs : GraphOK(h)'
<1>1. Shape'
  BY DEF IInv, Shape, DeleteVertex
<1>2. /\ vcount'[g] = vcount[g] - 1 /\ cur'[g] = cur[g] - 1
      /\ id'[g] = [w \in 0..(vcount[g] - 2) |-> IF w < v THEN id[g][w] ELSE id[g][w + 1]]
      /\ name'[g] = [w \in 0..(vcount[g] - 2) |->
                         IF w < v THEN name[g][w] ELSE name[g][w + 1]]
  BY DEF IInv, Shape, DeleteVertex
<1>3. GraphOK(g) /\ v \in 0..(cur[g] - 1)
  BY DEF IInv, Used
<1>4. /\ vcount[g] \in Nat \ {0} /\ cur[g] \in Nat \ {0} /\ cur[g] <= vcount[g] /\ v \in Nat
      /\ All(g) = 0..(vcount[g] - 1) /\ Used(g) = 0..(cur[g] - 1)
      /\ All(g)' = 0..(vcount[g] - 2) /\ Used(g)' = 0..(cur[g] - 2)
  BY <1>2, <1>3 DEF GraphOK, All, Used
<1>5. GraphOK(g)'
  <2>1. /\ vcount'[g] \in Nat /\ cur'[g] \in Nat /\ cur'[g] <= vcount'[g]
    BY <1>2, <1>4
  <2>2. \A w \in 0..(vcount[g] - 2) : w \in All(g) /\ w + 1 \in All(g)
    BY <1>4
  <2>3. id'[g] \in [All(g)' -> Int]
    <3>1. \A w \in All(g) : id[g][w] \in Int
      BY <1>3 DEF GraphOK
    <3> QED
      BY <1>2, <1>4, <2>2, <3>1
  <2>4. name'[g] \in [All(g)' -> Names \cup {Blank}]
    <3>1. \A w \in All(g) : name[g][w] \in Names \cup {Blank}
      BY <1>3 DEF GraphOK
    <3> QED
      BY <1>2, <1>4, <2>2, <3>1
  <2>5. \A w \in All(g)' : name'[g][w] = Blank <=> w \notin Used(g)'
    <3> TAKE w \in All(g)'
    <3>1. w \in 0..(vcount[g] - 2) /\ w \in All(g) /\ w + 1 \in All(g)
      BY <1>4, <2>2
    <3>2. /\ name[g][w] = Blank <=> w \notin Used(g)
          /\ name[g][w + 1] = Blank <=> w + 1 \notin Used(g)
      BY <1>3, <3>1 DEF GraphOK
    <3>3. CASE w < v
      <4>1. name'[g][w] = name[g][w]
        BY <1>2, <3>1, <3>3
      <4>2. w \in Used(g) /\ w \in Used(g)'
        BY <1>3, <1>4, <3>1, <3>3
      <4> QED
        BY <3>2, <4>1, <4>2
    <3>4. CASE ~(w < v)
      <4>1. name'[g][w] = name[g][w + 1]
        BY <1>2, <3>1, <3>4
      <4>2. w + 1 \in Used(g) <=> w \in Used(g)'
        BY <1>3, <1>4, <3>1, <3>4
      <4> QED
        BY <3>2, <4>1, <4>2
    <3> QED
      BY <3>3, <3>4
  <2>6. edges'[g] \subseteq Used(g)' \X Used(g)'
    <3> DEFINE down(x) == IF x > v THEN x - 1 ELSE x
    <3>1. edges'[g] = {<<down(e[1]), down(e[2])>> :
                          e \in {d \in edges[g] : d[1] # v /\ d[2] # v}}
      BY DEF IInv, Shape, DeleteVertex
    <3>2. \A x \in Used(g) : x # v => down(x) \in Used(g)'
      BY <1>3, <1>4
    <3>3. \A e \in edges[g] : e[1] \in Used(g) /\ e[2] \in Used(g)
      BY <1>3 DEF GraphOK
    <3> HIDE DEF down
    <3> QED
      BY <3>1, <3>2, <3>3
  <2>7. g \notin shifted' => \A w \in Used(g)' : id'[g][w] = w
    <3> SUFFICES ASSUME g \notin shifted', NEW w \in Used(g)' PROVE id'[g][w] = w
      OBVIOUS
    <3>1. v >= cur[g] - 1 /\ g \notin shifted
      BY <1>3, <1>4 DEF DeleteVertex
    <3>2. w \in Used(g) /\ w \in 0..(vcount[g] - 2) /\ w < v
      BY <1>3, <1>4, <3>1
    <3> QED
      BY <1>2, <1>3, <3>1, <3>2 DEF GraphOK
  <2> QED
    BY <2>1, <2>3, <2>4, <2>5, <2>6, <2>7 DEF GraphOK
<1>6. ASSUME NEW h \in Graphs \ {g} PROVE GraphOK(h)'
  <2>1. /\ vcount'[h] = vcount[h] /\ cur'[h] = cur[h] /\ id'[h] = id[h]
        /\ name'[h] = name[h] /\ edges'[h] = edges[h]
    BY DEF IInv, Shape, DeleteVertex
  <2>2. h \in shifted' <=> h \in shifted
    BY DEF DeleteVertex
  <2> QED
    BY <2>1, <2>2 DEF IInv, GraphOK, All, Used
<1> QED
  BY <1>1, <1>5, <1>6

\* An operation that is called when no copy is under way, and starts none.
LEMMA CallKeeps ==
    ASSUME IInv, Call, UNCHANGED task, FileOK', Shape', \A h \in Graphs : GraphOK(h)',
           shifted' \subseteq Graphs
    PROVE  IInv'
<1>1. TaskOK'
  BY NoTask DEF IInv, Call, TaskOK
<1>2. calls' \in 0..MaxCalls
  BY GraphAssumption DEF IInv, Call
<1> QED
  BY <1>1, <1>2 DEF IInv

LEMMA StartCopyKeeps ==
    ASSUME IInv, NEW g \in Graphs, NEW h \in Graphs, StartCopy(g, h)
    PROVE  IInv'
<1>1. /\ Shape' /\ \A k \in Graphs : GraphOK(k)' /\ UNCHANGED cur /\ vcount'[h] = cur[h]
  BY TrimKeeps DEF StartCopy
<1>2. FileOK'
  BY FileKeeps DEF IInv, StartCopy, output
<1>3. /\ task'.on = TRUE /\ task'.to = g /\ task'.from = h /\ task'.next = 0
      /\ task'.total = vcount'[h] /\ task'.newId = [v \in 0..-1 |-> 0]
  BY DEF StartCopy, Copying
<1>4. cur'[g] \in Nat /\ cur'[h] \in Nat
  BY <1>1 DEF GraphOK
<1>5. CopyOnTrack'
  BY <1>1, <1>3, <1>4 DEF CopyOnTrack
<1>6. task'.newId \in [0..(task'.next - 1) -> Nat]
  BY <1>3
<1>7. task'.on \in BOOLEAN
  BY <1>3, Zenon
<1>8. task'.total \in Nat /\ task'.next \in Nat
  BY <1>1, <1>3, <1>4
<1>9. TaskOK'
  <2>1. edges'[h] \subseteq (0..(task'.total - 1)) \X (0..(task'.total - 1))
    BY <1>1, <1>3 DEF GraphOK, Used
  <2>2. task'.total = Shown(h)'
    BY <1>1, <1>3, <1>4 DEF Shown
  <2> QED
    BY <1>3, <1>5, <1>6, <1>7, <1>8, <2>1, <2>2 DEF TaskOK
<1>10. calls' \in 0..MaxCalls /\ shifted' \subseteq Graphs
  BY GraphAssumption DEF IInv, StartCopy, Call
<1> QED
  BY <1>1, <1>2, <1>9, <1>10 DEF IInv

LEMMA CopyVertexKeeps == ASSUME IInv, CopyVertex PROVE IInv'
<1> DEFINE t == task.to
           f == task.from
           k == task.next
<1>1. /\ t \in Graphs /\ f \in Graphs /\ task.total \in Nat /\ k \in Nat
      /\ k < task.total /\ task.total <= cur[f] /\ k <= cur[t]
      /\ task.newId \in [0..(k - 1) -> Nat]
      /\ \A v \in 0..(k - 1) : /\ task.newId[v] = cur[t] - k + v
                               /\ name[t][task.newId[v]] = name[f][v]
  BY DEF IInv, TaskOK, CopyOnTrack, CopyVertex
<1>2. GraphOK(f) /\ GraphOK(t)
  BY <1>1 DEF IInv
<1>3. k \in Used(f) /\ k \in All(f)
  BY <1>1, <1>2 DEF GraphOK, Used, All
<1>4. name[f][k] \in Names
  BY <1>2, <1>3 DEF GraphOK
<1>5. NewVertex(t, name[f][k]) /\ UNCHANGED <<edges, shifted>>
  BY DEF CopyVertex
<1>6. /\ Shape' /\ \A h \in Graphs : GraphOK(h)'
      /\ cur[t] \in Nat /\ cur'[t] = cur[t] + 1
      /\ name'[t][cur[t]] = name[f][k]
      /\ \A v \in Used(t) : name'[t][v] = name[t][v]
      /\ \A h \in Graphs \ {t} : cur'[h] = cur[h] /\ name'[h] = name[h]
  <2> HIDE DEF t, f, k
  <2> QED
    BY <1>1, <1>4, <1>5, NewVertexKeeps
<1>7. /\ task'.on = TRUE /\ task'.to = t /\ task'.from = f /\ task'.next = k + 1
      /\ task'.total = task.total
      /\ task'.newId = [v \in 0..k |-> IF v < k THEN task.newId[v] ELSE cur[t]]
  BY DEF CopyVertex, Copying
<1> HIDE DEF t, f, k
<1>8. cur[f] \in Nat /\ cur'[f] >= cur[f]
  <2>1. cur[f] \in Nat
    BY <1>2 DEF GraphOK
  <2>2. CASE f = t
    BY <1>6, <2>1, <2>2
  <2>3. CASE f # t
    BY <1>1, <1>6, <2>1, <2>3
  <2> QED
    BY <2>1, <2>2, <2>3
<1>9. ASSUME NEW v \in 0..k
      PROVE  /\ task'.newId[v] = cur'[t] - (k + 1) + v
             /\ name'[t][task'.newId[v]] = name'[f][v]
  <2>1. v \in Used(f)
    BY <1>1, <1>8 DEF Used
  <2>2. name'[f][v] = name[f][v]
    BY <1>1, <1>6, <2>1
  <2>3. CASE v < k
    <3>1. v \in 0..(k - 1) /\ task'.newId[v] = task.newId[v]
      BY <1>1, <1>7, <2>3
    <3>2. task.newId[v] = cur[t] - k + v /\ name[t][task.newId[v]] = name[f][v]
      BY <1>1, <3>1
    <3>3. task.newId[v] \in Used(t)
      BY <1>1, <1>6, <2>3, <3>1, <3>2 DEF Used
    <3> QED
      BY <1>1, <1>6, <2>2, <3>1, <3>2, <3>3, SMTT(20)
  <2>4. CASE v = k
    <3>1. task'.newId[k] = cur[t]
      BY <1>1, <1>7
    <3>2. name'[t][task'.newId[v]] = name'[f][v]
      BY <1>6, <2>2, <2>4, <3>1
    <3>3. task'.newId[v] = cur'[t] - (k + 1) + v
      <4>1. cur[t] = (cur[t] + 1) - (k + 1) + k
        BY <1>1, <1>6
      <4> QED
        BY <1>6, <2>4, <3>1, <4>1
    <3> QED
      BY <3>2, <3>3
  <2> QED
    BY <1>1, <2>3, <2>4
<1>10. TaskOK'
  <2>1. task'.newId \in [0..(task'.next - 1) -> Nat]
    BY <1>1, <1>6, <1>7
  <2>2. task'.on \in BOOLEAN
    BY <1>7, Zenon
  <2>3. CopyOnTrack'
    <3>1. /\ task'.next <= task'.total /\ task'.total <= cur'[f] /\ task'.next <= cur'[t]
          /\ task'.next - 1 = k /\ task'.next = k + 1
      BY <1>1, <1>6, <1>7, <1>8, SMTT(20)
    <3> QED
      BY <1>7, <1>9, <3>1 DEF CopyOnTrack
  <2>4. edges'[task'.from] \subseteq (0..(task'.total - 1)) \X (0..(task'.total - 1))
    <3>1. edges[f] \subseteq (0..(task.total - 1)) \X (0..(task.total - 1))
      BY DEF IInv, TaskOK, CopyVertex, f
    <3> QED
      BY <1>5, <1>7, <3>1
  <2>5. task'.total = Shown(task.from)'
    <3>1. task.total = IF t = f THEN cur[f] - k ELSE cur[f]
      BY DEF IInv, TaskOK, CopyVertex, Shown, t, f, k
    <3>2. task'.total = IF t = f THEN cur'[f] - (k + 1) ELSE cur'[f]
      <4>1. CASE t = f
        <5>1. (cur[t] + 1) - (k + 1) = cur[t] - k
          BY <1>1, <1>6
        <5>2. task.total = cur[t] - k /\ cur'[f] = cur[t] + 1
          BY <1>6, <3>1, <4>1
        <5> QED
          BY <1>7, <4>1, <5>1, <5>2
      <4>2. CASE t # f
        BY <1>1, <1>6, <1>7, <3>1, <4>2
      <4> QED
        BY <4>1, <4>2
    <3> QED
      BY <1>7, <3>2 DEF Shown
  <2> QED
    BY <1>1, <1>7, <2>1, <2>2, <2>3, <2>4, <2>5 DEF TaskOK
<1>11. FileOK'
  BY FileKeeps DEF IInv, CopyVertex, output
<1> QED
  BY <1>6, <1>10, <1>11 DEF IInv, CopyVertex

LEMMA CopyEdgesKeeps == ASSUME IInv, CopyEdges PROVE IInv'
<1> DEFINE t == task.to
           f == task.from
           new == edges[t] \cup {<<task.newId[e[1]], task.newId[e[2]]>> : e \in edges[f]}
<1>1. /\ t \in Graphs /\ f \in Graphs /\ task.total \in Nat
      /\ task.total <= cur[f] /\ task.total <= cur[t]
      /\ \A v \in 0..(task.total - 1) : task.newId[v] = cur[t] - task.total + v
      /\ edges[f] \subseteq (0..(task.total - 1)) \X (0..(task.total - 1))
  BY DEF IInv, TaskOK, CopyOnTrack, CopyEdges
<1>2. GraphOK(f) /\ GraphOK(t)
  BY <1>1 DEF IInv
<1>3. new \in SUBSET (Used(t) \X Used(t))
  <2>1. \A v \in 0..(task.total - 1) : task.newId[v] \in Used(t)
    BY <1>1, <1>2 DEF GraphOK, Used
  <2>2. \A e \in edges[f] : e[1] \in 0..(task.total - 1) /\ e[2] \in 0..(task.total - 1)
    BY <1>1
  <2>3. \A e \in edges[f] : <<task.newId[e[1]], task.newId[e[2]]>> \in Used(t) \X Used(t)
    BY <2>1, <2>2
  <2> QED
    BY <1>2, <2>3 DEF GraphOK
<1>4. Shape' /\ \A h \in Graphs : GraphOK(h)'
  BY <1>1, <1>3, EdgesKeep DEF CopyEdges
<1>5. TaskOK'
  BY NoTask DEF CopyEdges, Idle
<1>6. FileOK'
  BY FileKeeps DEF IInv, CopyEdges, output
<1> QED
  BY <1>4, <1>5, <1>6 DEF IInv, CopyEdges

LEMMA DumpKeeps == ASSUME IInv, NEW g \in Graphs, DumpGraphGML(g) PROVE IInv'
<1>1. /\ Shape' /\ \A h \in Graphs : GraphOK(h)' /\ UNCHANGED cur
      /\ vcount'[g] = cur[g] /\ name'[g] \in [Used(g) -> Names]
  BY TrimKeeps DEF DumpGraphGML
<1>2. /\ file'.size = vcount'[g] /\ file'.id = id'[g] /\ file'.name = name'[g]
      /\ file'.edges = edges'[g] /\ file'.shifted = (g \in shifted)
  BY DEF DumpGraphGML
<1>3. Pages' = Used(g) /\ Pages' = Used(g)' /\ Pages' = All(g)'
  BY <1>1, <1>2 DEF Pages, Used, All
<1>4. FileOK'
  <2>1. file'.size \in Nat /\ file'.id \in [Pages' -> Int]
    BY <1>1, <1>2, <1>3 DEF GraphOK
  <2>2. file'.name \in [Pages' -> Names]
    BY <1>1, <1>2, <1>3
  <2>3. file'.edges \subseteq Pages' \X Pages'
    BY <1>1, <1>2, <1>3 DEF GraphOK
  <2>4. file'.shifted \in BOOLEAN
    <3>1. (g \in shifted) \in BOOLEAN
      OBVIOUS
    <3> QED
      BY <1>2, <3>1
  <2>5. ~file'.shifted => \A v \in Pages' : file'.id[v] = v
    <3>1. ~file'.shifted => g \notin shifted'
      BY <1>2 DEF DumpGraphGML
    <3> QED
      BY <1>1, <1>2, <1>3, <3>1 DEF GraphOK
  <2> QED
    BY <2>1, <2>2, <2>3, <2>4, <2>5 DEF FileOK
<1> QED
  BY <1>1, <1>4, CallKeeps DEF DumpGraphGML, IInv

LEMMA ReadKeeps == ASSUME IInv, NEW g \in Graphs, ReadGraphGML(g) PROVE IInv'
<1>1. Shape'
  BY DEF IInv, Shape, ReadGraphGML
<1>2. /\ vcount'[g] = file.size /\ cur'[g] = file.size /\ id'[g] = file.id
      /\ name'[g] = file.name /\ edges'[g] = file.edges
  BY DEF IInv, Shape, ReadGraphGML
<1>3. FileOK
  BY DEF IInv
<1>4. All(g)' = Pages /\ Used(g)' = Pages
  BY <1>2 DEF All, Used, Pages
<1>5. GraphOK(g)'
  <2>1. /\ vcount'[g] \in Nat /\ cur'[g] \in Nat /\ cur'[g] <= vcount'[g]
    BY <1>2, <1>3 DEF FileOK
  <2>2. id'[g] \in [All(g)' -> Int] /\ edges'[g] \subseteq Used(g)' \X Used(g)'
    BY <1>2, <1>3, <1>4 DEF FileOK
  <2>3. /\ name'[g] \in [All(g)' -> Names]
        /\ \A v \in All(g)' : name'[g][v] # Blank /\ v \in Used(g)'
    BY <1>2, <1>3, <1>4, GraphAssumption DEF FileOK
  <2>4. g \notin shifted' => ~file.shifted
    BY DEF ReadGraphGML
  <2>5. g \notin shifted' => \A v \in Used(g)' : id'[g][v] = v
    BY <1>2, <1>3, <1>4, <2>4 DEF FileOK
  <2> QED
    BY <2>1, <2>2, <2>3, <2>5 DEF GraphOK
<1>6. ASSUME NEW h \in Graphs \ {g} PROVE GraphOK(h)'
  <2>1. /\ vcount'[h] = vcount[h] /\ cur'[h] = cur[h] /\ id'[h] = id[h]
        /\ name'[h] = name[h] /\ edges'[h] = edges[h]
    BY DEF IInv, Shape, ReadGraphGML
  <2>2. h \in shifted' <=> h \in shifted
    BY DEF ReadGraphGML
  <2> QED
    BY <2>1, <2>2 DEF IInv, GraphOK, All, Used
<1>7. shifted' \subseteq Graphs /\ FileOK'
  BY FileKeeps DEF IInv, ReadGraphGML, output
<1> QED
  BY <1>1, <1>5, <1>6, <1>7, CallKeeps DEF ReadGraphGML

THEOREM StepInv == IInv /\ [Next]_vars => IInv'
<1> SUFFICES ASSUME IInv, [Next]_vars PROVE IInv'
  OBVIOUS
<1>1. ASSUME NEW g \in Graphs, NEW n \in Names, AddVertex(g, n) PROVE IInv'
  <2>1. Shape' /\ \A h \in Graphs : GraphOK(h)'
    BY <1>1, NewVertexKeeps DEF AddVertex
  <2> QED
    BY <1>1, <2>1, FileKeeps, CallKeeps DEF AddVertex, output, IInv
<1>2. ASSUME NEW g \in Graphs, NEW a \in Used(g), NEW b \in Used(g), AddEdge(g, a, b)
      PROVE  IInv'
  <2>1. edges[g] \cup {<<a, b>>} \in SUBSET (Used(g) \X Used(g))
    BY DEF IInv, GraphOK
  <2>2. Shape' /\ \A h \in Graphs : GraphOK(h)'
    BY <1>2, <2>1, EdgesKeep DEF AddEdge
  <2> QED
    BY <1>2, <2>2, FileKeeps, CallKeeps DEF AddEdge, output, IInv
<1>3. ASSUME NEW g \in Graphs, NEW a \in Used(g), NEW b \in Used(g), DeleteEdge(g, a, b)
      PROVE  IInv'
  <2>1. edges[g] \ {<<a, b>>} \in SUBSET (Used(g) \X Used(g))
    BY DEF IInv, GraphOK
  <2>2. Shape' /\ \A h \in Graphs : GraphOK(h)'
    BY <1>3, <2>1, EdgesKeep DEF DeleteEdge
  <2> QED
    BY <1>3, <2>2, FileKeeps, CallKeeps DEF DeleteEdge, output, IInv
<1>4. ASSUME NEW g \in Graphs, NEW v \in Used(g), DeleteVertex(g, v) PROVE IInv'
  <2>1. Shape' /\ \A h \in Graphs : GraphOK(h)'
    BY <1>4, DeleteVertexKeeps
  <2>2. shifted' \subseteq Graphs
    BY <1>4 DEF IInv, DeleteVertex
  <2> QED
    BY <1>4, <2>1, <2>2, FileKeeps, CallKeeps DEF DeleteVertex, output, IInv
<1>5. ASSUME NEW g \in Graphs, DeleteExtraTailVertices(g) PROVE IInv'
  <2>1. Shape' /\ \A h \in Graphs : GraphOK(h)'
    BY <1>5, TrimKeeps DEF DeleteExtraTailVertices
  <2> QED
    BY <1>5, <2>1, FileKeeps, CallKeeps DEF DeleteExtraTailVertices, output, IInv
<1>6. CASE UNCHANGED vars
  BY <1>6 DEF vars, graph, output, IInv, Shape, GraphOK, All, Used, FileOK, Pages,
              TaskOK, CopyOnTrack, Shown
<1> QED
  BY <1>1, <1>2, <1>3, <1>4, <1>5, <1>6, StartCopyKeeps, DumpKeeps, ReadKeeps,
     CopyVertexKeeps, CopyEdgesKeeps DEF Next

THEOREM Invariant == Spec => []IInv
  BY InitInv, StepInv, PTL DEF Spec
-----------------------------------------------------------------------------
\* Every variable keeps its type (graph.h, baguatool.h:160).
THEOREM TypeCorrect == Spec => []TypeOK
<1>1. IInv => TypeOK
  <2> SUFFICES ASSUME IInv PROVE TypeOK
    OBVIOUS
  <2>1. vcount \in [Graphs -> Nat] /\ cur \in [Graphs -> Nat]
    BY DEF IInv, Shape, GraphOK
  <2>2. ASSUME NEW g \in Graphs
        PROVE  /\ id[g] \in [All(g) -> Int]
               /\ name[g] \in [All(g) -> Names \cup {Blank}]
               /\ edges[g] \subseteq All(g) \X All(g)
    <3>1. GraphOK(g)
      BY DEF IInv
    <3>2. Used(g) \subseteq All(g)
      BY <3>1 DEF GraphOK, Used, All
    <3> QED
      BY <3>1, <3>2 DEF GraphOK
  <2> QED
    BY <2>1, <2>2 DEF IInv, TypeOK
<1> QED
  BY <1>1, Invariant, PTL

\* No vertex of the pool is in use, has attributes or an edge (graph.cpp 41-48, 365-381).
THEOREM NoPhantoms == Spec => []NoPhantomVertex
<1>1. IInv => NoPhantomVertex
  BY DEF IInv, GraphOK, NoPhantomVertex
<1> QED
  BY <1>1, Invariant, PTL

\* The attribute "id" is the number of its vertex while none was deleted in front of
\* another (graph.cpp:48, 346).
THEOREM IdsCorrect == Spec => []IdsNameVertices
<1>1. IInv => IdsNameVertices
  BY DEF IInv, GraphOK, IdsNameVertices
<1> QED
  BY <1>1, Invariant, PTL
-----------------------------------------------------------------------------
(* Class Graph implements LabelledGraph                                      *)

LEMMA AbstractInit == Init => Abstract!Init
<1> SUFFICES ASSUME Init PROVE Abstract!Init
  OBVIOUS
<1>1. \A g \in Graphs : /\ Shown(g) = 0 /\ edges[g] = {}
                        /\ name[g] = [v \in 0..-1 |-> Blank]
  BY DEF Init, Shown, Idle
<1> QED
  BY <1>1 DEF Init, Abstract!Init, Sizes, Nodes

LEMMA AddRefines ==
    ASSUME IInv, NEW g \in Graphs, NEW n \in Names, AddVertex(g, n)
    PROVE  Abstract!Add(g, n)
<1>1. /\ cur[g] \in Nat /\ cur'[g] = cur[g] + 1
      /\ name'[g][cur[g]] = n
      /\ \A v \in Used(g) : name'[g][v] = name[g][v]
      /\ \A h \in Graphs \ {g} : cur'[h] = cur[h] /\ name'[h] = name[h]
  BY NewVertexKeeps DEF AddVertex
<1>2. \A h \in Graphs : Shown(h) = cur[h] /\ Shown(h)' = cur'[h]
  BY DEF AddVertex, Call, Shown
<1>3. Sizes[g] = cur[g] /\ Nodes[g] = [v \in 0..(cur[g] - 1) |-> name[g][v]]
  BY <1>2 DEF Sizes, Nodes
<1>4. Sizes' = [Sizes EXCEPT ![g] = cur[g] + 1]
  BY <1>1, <1>2 DEF Sizes
<1>5. Nodes' = [Nodes EXCEPT ![g] = [i \in 0..cur[g] |-> IF i < cur[g] THEN Nodes[g][i] ELSE n]]
  <2>1. Nodes'[g] = [v \in 0..cur[g] |-> name'[g][v]]
    BY <1>1, <1>2 DEF Nodes
  <2>2. \A v \in 0..cur[g] : name'[g][v] = IF v < cur[g] THEN Nodes[g][v] ELSE n
    BY <1>1, <1>3 DEF Used
  <2>3. Nodes'[g] = [i \in 0..cur[g] |-> IF i < cur[g] THEN Nodes[g][i] ELSE n]
    BY <2>1, <2>2
  <2>4. \A h \in Graphs \ {g} : Nodes'[h] = Nodes[h]
    BY <1>1, <1>2 DEF Nodes
  <2>5. Nodes = [h \in Graphs |-> Nodes[h]] /\ Nodes' = [h \in Graphs |-> Nodes'[h]]
    BY DEF Nodes
  <2> QED
    BY <2>3, <2>4, <2>5
<1> QED
  BY <1>3, <1>4, <1>5 DEF AddVertex, Abstract!Add, Abstract!written, output

LEMMA EdgesRefine ==
    ASSUME IInv, NEW g \in Graphs, NEW a \in Used(g), NEW b \in Used(g)
    PROVE  /\ AddEdge(g, a, b) => Abstract!Connect(g, a, b)
           /\ DeleteEdge(g, a, b) => Abstract!Disconnect(g, a, b)
<1>1. AddEdge(g, a, b) \/ DeleteEdge(g, a, b) => UNCHANGED <<Sizes, Nodes, output>>
  BY DEF AddEdge, DeleteEdge, Sizes, Nodes, Shown
<1> QED
  BY <1>1 DEF AddEdge, DeleteEdge, Abstract!Connect, Abstract!Disconnect,
              Abstract!written, output

LEMMA DeleteVertexRefines ==
    ASSUME IInv, NEW g \in Graphs, NEW v \in Used(g), DeleteVertex(g, v)
    PROVE  Abstract!Remove(g, v)
<1>1. \A h \in Graphs : Shown(h) = cur[h] /\ Shown(h)' = cur'[h]
  BY DEF DeleteVertex, Call, Shown
<1>2. /\ vcount[g] \in Nat /\ cur[g] \in Nat \ {0} /\ cur[g] <= vcount[g] /\ v \in 0..(cur[g] - 1)
  BY DEF IInv, GraphOK, Used
<1>3. /\ cur'[g] = cur[g] - 1
      /\ name'[g] = [w \in 0..(vcount[g] - 2) |->
                         IF w < v THEN name[g][w] ELSE name[g][w + 1]]
      /\ \A h \in Graphs \ {g} : cur'[h] = cur[h] /\ name'[h] = name[h]
  BY DEF IInv, Shape, DeleteVertex
<1>4. Sizes[g] = cur[g] /\ Nodes[g] = [w \in 0..(cur[g] - 1) |-> name[g][w]]
  BY <1>1 DEF Sizes, Nodes
<1>5. Sizes' = [Sizes EXCEPT ![g] = cur[g] - 1]
  BY <1>1, <1>3, ZenonT(40) DEF Sizes
<1>6. Nodes' = [Nodes EXCEPT ![g] =
                   [i \in 0..(cur[g] - 2) |-> IF i < v THEN Nodes[g][i] ELSE Nodes[g][i + 1]]]
  <2>1. Nodes'[g] = [w \in 0..(cur[g] - 2) |-> name'[g][w]]
    <3>1. (cur[g] - 1) - 1 = cur[g] - 2
      BY <1>2
    <3> QED
      BY <1>1, <1>3, <3>1 DEF Nodes
  <2>2. \A w \in 0..(cur[g] - 2) :
            name'[g][w] = IF w < v THEN Nodes[g][w] ELSE Nodes[g][w + 1]
    BY <1>2, <1>3, <1>4
  <2>3. Nodes'[g] = [i \in 0..(cur[g] - 2) |-> IF i < v THEN Nodes[g][i] ELSE Nodes[g][i + 1]]
    BY <2>1, <2>2
  <2>4. \A h \in Graphs \ {g} : Nodes'[h] = Nodes[h]
    BY <1>1, <1>3 DEF Nodes
  <2>5. Nodes = [h \in Graphs |-> Nodes[h]] /\ Nodes' = [h \in Graphs |-> Nodes'[h]]
    BY DEF Nodes
  <2> QED
    BY <2>3, <2>4, <2>5
<1>7. edges' = [edges EXCEPT ![g] = Abstract!Renumber(@, v)]
  BY DEF DeleteVertex, Abstract!Renumber
<1> QED
  BY <1>4, <1>5, <1>6, <1>7 DEF DeleteVertex, Abstract!Remove, Abstract!written, output

\* The cut and the first two parts of AddGraph show nothing.
LEMMA TrimHides ==
    ASSUME IInv, NEW g \in Graphs, ~task.on, Trim(g), UNCHANGED shifted,
           task'.on => task'.next = 0
    PROVE  UNCHANGED <<Sizes, Nodes, edges>>
<1>1. /\ UNCHANGED <<cur, edges>>
      /\ \A h \in Graphs : \A v \in Used(h) : name'[h][v] = name[h][v]
  BY TrimKeeps
<1>2. \A h \in Graphs : cur[h] \in Nat
  BY DEF IInv, GraphOK
<1>3. \A h \in Graphs : Shown(h) = cur[h] /\ Shown(h)' = cur[h]
  BY <1>1, <1>2 DEF Shown
<1> QED
  BY <1>1, <1>3 DEF Sizes, Nodes, Used

LEMMA CopyVertexHides ==
    ASSUME IInv, CopyVertex
    PROVE  UNCHANGED <<Sizes, Nodes, edges, output>>
<1> DEFINE t == task.to
           k == task.next
<1>1. /\ t \in Graphs /\ task.from \in Graphs /\ k \in Nat /\ k < task.total
      /\ task.total \in Nat /\ task.total <= cur[task.from] /\ k <= cur[t]
  BY DEF IInv, TaskOK, CopyOnTrack, CopyVertex
<1>2. name[task.from][k] \in Names
  BY <1>1, SMTT(20) DEF IInv, GraphOK, Used, All
<1>3. NewVertex(t, name[task.from][k]) /\ UNCHANGED <<edges, shifted, output>>
  BY DEF CopyVertex
<1>4. task.on /\ task'.on /\ task'.to = t /\ task'.next = k + 1
  BY DEF CopyVertex, Copying
<1> HIDE DEF t, k
<1>5. /\ cur[t] \in Nat /\ cur'[t] = cur[t] + 1
      /\ \A v \in Used(t) : name'[t][v] = name[t][v]
      /\ \A h \in Graphs \ {t} : cur'[h] = cur[h] /\ name'[h] = name[h]
  BY <1>1, <1>2, <1>3, NewVertexKeeps
<1>6. \A h \in Graphs \ {t} : Shown(h)' = Shown(h)
  BY <1>4, <1>5 DEF Shown, t
<1>7. Shown(t) = cur[t] - k /\ (IF task'.to = t THEN cur'[t] - task'.next ELSE cur'[t]) = cur[t] - k
  BY <1>1, <1>4, <1>5 DEF Shown, t, k
<1>8. \A h \in Graphs : Shown(h)' = Shown(h)
  BY <1>4, <1>5, <1>6, <1>7 DEF Shown
<1>9. \A h \in Graphs : \A v \in 0..(Shown(h) - 1) : name'[h][v] = name[h][v]
  <2>1. \A v \in 0..(Shown(t) - 1) : v \in Used(t)
    BY <1>1, <1>5, <1>7 DEF Used
  <2> QED
    BY <1>5, <2>1
<1> QED
  BY <1>3, <1>8, <1>9 DEF Sizes, Nodes

LEMMA CopyEdgesRefines ==
    ASSUME IInv, CopyEdges
    PROVE  Abstract!Attach(task.to, task.from)
<1> DEFINE t == task.to
           f == task.from
           n == task.total
<1>1. /\ t \in Graphs /\ f \in Graphs /\ n \in Nat /\ n <= cur[t] /\ n <= cur[f]
      /\ \A v \in 0..(n - 1) : /\ task.newId[v] = cur[t] - n + v
                               /\ name[t][task.newId[v]] = name[f][v]
      /\ edges[f] \subseteq (0..(n - 1)) \X (0..(n - 1))
      /\ n = Shown(f) /\ Shown(t) = cur[t] - n
  BY DEF IInv, TaskOK, CopyOnTrack, CopyEdges, Shown
<1>2. cur[t] \in Nat
  BY <1>1 DEF IInv, GraphOK
<1>3. /\ edges' = [edges EXCEPT ![t] =
                     @ \cup {<<task.newId[e[1]], task.newId[e[2]]>> : e \in edges[f]}]
      /\ UNCHANGED <<cur, name, output>> /\ ~task'.on
  BY DEF CopyEdges, Idle
<1>4. \A h \in Graphs : Shown(h)' = cur[h]
  BY <1>3 DEF Shown
<1>5. \A h \in Graphs \ {t} : Shown(h) = cur[h]
  BY DEF Shown
<1>6. Sizes[t] = cur[t] - n /\ Sizes[f] = n /\ Nodes[f] = [v \in 0..(n - 1) |-> name[f][v]]
      /\ Nodes[t] = [v \in 0..(cur[t] - n - 1) |-> name[t][v]]
  BY <1>1 DEF Sizes, Nodes
<1> HIDE DEF t, f, n
<1>7. Sizes[t] + Sizes[f] = cur[t]
  BY <1>1, <1>2, <1>6
<1>8. Sizes' = [Sizes EXCEPT ![t] = cur[t]]
  BY <1>1, <1>4, <1>5 DEF Sizes
<1>9. Nodes' = [Nodes EXCEPT ![t] =
                   [i \in 0..(cur[t] - 1) |->
                       IF i < Sizes[t] THEN Nodes[t][i] ELSE Nodes[f][i - Sizes[t]]]]
  <2>1. Nodes'[t] = [v \in 0..(cur[t] - 1) |-> name[t][v]]
    BY <1>1, <1>3, <1>4 DEF Nodes
  <2>2. \A i \in 0..(cur[t] - 1) :
            name[t][i] = IF i < Sizes[t] THEN Nodes[t][i] ELSE Nodes[f][i - Sizes[t]]
    <3> TAKE i \in 0..(cur[t] - 1)
    <3>1. CASE i < Sizes[t]
      BY <1>1, <1>2, <1>6, <3>1
    <3>2. CASE ~(i < Sizes[t])
      <4>1. i - Sizes[t] \in 0..(n - 1) /\ cur[t] - n + (i - Sizes[t]) = i
        BY <1>1, <1>2, <1>6, <3>2
      <4> QED
        BY <1>1, <1>6, <3>2, <4>1
    <3> QED
      BY <3>1, <3>2
  <2>3. \A h \in Graphs \ {t} : Nodes'[h] = Nodes[h]
    BY <1>3, <1>4, <1>5 DEF Nodes
  <2>4. Nodes = [h \in Graphs |-> Nodes[h]] /\ Nodes' = [h \in Graphs |-> Nodes'[h]]
    BY DEF Nodes
  <2> QED
    BY <2>1, <2>2, <2>3, <2>4
<1>10. edges' = [edges EXCEPT ![t] = @ \cup Abstract!Shift(edges[f], Sizes[t])]
  <2>1. \A e \in edges[f] :
            task.newId[e[1]] = e[1] + Sizes[t] /\ task.newId[e[2]] = e[2] + Sizes[t]
    BY <1>1, <1>2, <1>6
  <2>2. {<<task.newId[e[1]], task.newId[e[2]]>> : e \in edges[f]}
        = Abstract!Shift(edges[f], Sizes[t])
    BY <2>1 DEF Abstract!Shift
  <2> QED
    BY <1>3, <2>2
<1>11. /\ Sizes' = [Sizes EXCEPT ![t] = @ + Sizes[f]]
       /\ Nodes' = [Nodes EXCEPT ![t] =
                       [i \in 0..(Sizes[t] + Sizes[f] - 1) |->
                           IF i < Sizes[t] THEN @[i] ELSE Nodes[f][i - Sizes[t]]]]
  <2>1. Sizes[t] + Sizes[f] - 1 = cur[t] - 1
    BY <1>1, <1>2, <1>6
  <2> QED
    BY <1>7, <1>8, <1>9, <2>1
<1>12. Abstract!Attach(t, f)
  BY <1>3, <1>10, <1>11 DEF Abstract!Attach, Abstract!written, output
<1> QED
  BY <1>12 DEF t, f

LEMMA DumpRefines ==
    ASSUME IInv, NEW g \in Graphs, DumpGraphGML(g)
    PROVE  Abstract!Store(g)
<1>1. UNCHANGED <<Sizes, Nodes, edges>>
  BY TrimHides DEF DumpGraphGML, Call
<1>2. /\ vcount'[g] = cur[g] /\ UNCHANGED cur /\ name'[g] \in [Used(g) -> Names]
      /\ \A v \in Used(g) : name'[g][v] = name[g][v]
  BY TrimKeeps DEF DumpGraphGML
<1>3. Sizes[g] = cur[g] /\ Nodes[g] = [v \in Used(g) |-> name[g][v]]
  BY DEF DumpGraphGML, Call, Shown, Sizes, Nodes, Used
<1>4. file'.size = vcount'[g] /\ file'.name = name'[g] /\ file'.edges = edges'[g]
  BY DEF DumpGraphGML
<1>5. name'[g] = Nodes[g]
  BY <1>2, <1>3
<1>6. dumped' = TRUE
  BY DEF DumpGraphGML
<1> QED
  BY <1>1, <1>2, <1>3, <1>4, <1>5, <1>6 DEF Abstract!Store

LEMMA ReadRefines ==
    ASSUME IInv, NEW g \in Graphs, ReadGraphGML(g)
    PROVE  Abstract!Load(g)
<1>1. \A h \in Graphs : Shown(h) = cur[h] /\ Shown(h)' = cur'[h]
  BY DEF ReadGraphGML, Call, Shown
<1>2. /\ cur'[g] = file.size /\ name'[g] = file.name
      /\ \A h \in Graphs \ {g} : cur'[h] = cur[h] /\ name'[h] = name[h]
  BY DEF IInv, Shape, ReadGraphGML
<1>3. Sizes' = [Sizes EXCEPT ![g] = file.size]
  BY <1>1, <1>2 DEF Sizes
<1>4. Nodes' = [Nodes EXCEPT ![g] = file.name]
  <2>1. file.name = [v \in 0..(file.size - 1) |-> file.name[v]]
    BY DEF IInv, FileOK, Pages
  <2>2. Nodes'[g] = file.name
    BY <1>1, <1>2, <2>1 DEF Nodes
  <2>3. \A h \in Graphs \ {g} : Nodes'[h] = Nodes[h]
    BY <1>1, <1>2 DEF Nodes
  <2>4. Nodes = [h \in Graphs |-> Nodes[h]] /\ Nodes' = [h \in Graphs |-> Nodes'[h]]
    BY DEF Nodes
  <2> QED
    BY <2>2, <2>3, <2>4
<1> QED
  BY <1>3, <1>4 DEF ReadGraphGML, Abstract!Load, Abstract!written, output

\* A call of class Graph is a step of LabelledGraph; the copying of vertices and the
\* cutting of spare ones are not seen.
THEOREM StepRefines == IInv /\ [Next]_vars => [Abstract!Next]_(Abstract!vars)
<1> SUFFICES ASSUME IInv, [Next]_vars PROVE [Abstract!Next]_(Abstract!vars)
  OBVIOUS
<1>1. ASSUME UNCHANGED <<Sizes, Nodes, edges, output>> PROVE UNCHANGED Abstract!vars
  BY <1>1 DEF output, Abstract!vars, Abstract!written
<1>2. ASSUME NEW g \in Graphs, NEW n \in Names, AddVertex(g, n) PROVE Abstract!Next
  BY <1>2, AddRefines DEF Abstract!Next
<1>3. ASSUME NEW g \in Graphs, NEW a \in Used(g), NEW b \in Used(g),
             AddEdge(g, a, b) \/ DeleteEdge(g, a, b)
      PROVE  Abstract!Next
  <2>1. a \in 0..(Sizes[g] - 1) /\ b \in 0..(Sizes[g] - 1)
    BY <1>3 DEF AddEdge, DeleteEdge, Call, Sizes, Shown, Used
  <2> QED
    BY <1>3, <2>1, EdgesRefine DEF Abstract!Next
<1>4. ASSUME NEW g \in Graphs, NEW v \in Used(g), DeleteVertex(g, v) PROVE Abstract!Next
  <2>1. v \in 0..(Sizes[g] - 1)
    BY <1>4 DEF DeleteVertex, Call, Sizes, Shown, Used
  <2> QED
    BY <1>4, <2>1, DeleteVertexRefines DEF Abstract!Next
<1>5. ASSUME NEW g \in Graphs, DeleteExtraTailVertices(g) PROVE UNCHANGED Abstract!vars
  BY <1>1, <1>5, TrimHides DEF DeleteExtraTailVertices, Call
<1>6. ASSUME NEW g \in Graphs, NEW h \in Graphs, StartCopy(g, h) PROVE UNCHANGED Abstract!vars
  <2>1. task'.next = 0
    BY <1>6 DEF StartCopy, Copying
  <2> QED
    BY <1>1, <1>6, <2>1, TrimHides DEF StartCopy, Call
<1>7. ASSUME NEW g \in Graphs, DumpGraphGML(g) PROVE Abstract!Next
  BY <1>7, DumpRefines DEF Abstract!Next
<1>8. ASSUME NEW g \in Graphs, ReadGraphGML(g) PROVE Abstract!Next
  BY <1>8, ReadRefines DEF Abstract!Next
<1>9. CASE CopyVertex
  BY <1>1, <1>9, CopyVertexHides
<1>10. CASE CopyEdges
  <2>1. task.to \in Graphs /\ task.from \in Graphs
    BY <1>10 DEF IInv, TaskOK, CopyEdges
  <2> QED
    BY <1>10, <2>1, CopyEdgesRefines DEF Abstract!Next
<1>11. CASE UNCHANGED vars
  <2>1. UNCHANGED <<Sizes, Nodes, edges, output>>
    BY <1>11 DEF vars, graph, Sizes, Nodes, Shown
  <2> QED
    BY <1>1, <2>1
<1> QED
  BY <1>2, <1>3, <1>4, <1>5, <1>6, <1>7, <1>8, <1>9, <1>10, <1>11 DEF Next

\* Class Graph keeps the graphs it is given: whatever its calls, what is in use looks
\* as if every vertex had been added by itself and every graph appended at once.
THEOREM Refinement == Spec => KeepsItsGraphs
<1>1. Init => Abstract!Init
  BY AbstractInit
<1>2. IInv /\ [Next]_vars => [Abstract!Next]_(Abstract!vars)
  BY StepRefines
<1> QED
  BY <1>1, <1>2, Invariant, PTL DEF Spec, KeepsItsGraphs, Abstract!Spec

-----------------------------------------------------------------------------
(* The graph of a function: places, which are the function and its loops       *)

Places == {0} \cup Loops
Up == [k \in Loops |-> fn.loops[k].parent]
Within == [k \in Places |-> IF k = 0 THEN DOMAIN Blocks ELSE fn.loops[k].blocks]

\* The places in place k, itself included.
Closed(S) == \A k \in Loops : Up[k] \in S => k \in S
Under == [k \in Places |-> {j \in Places : \A S \in SUBSET Places : k \in S /\ Closed(S) => j \in S}]

\* The places whose calls are asked for.
Callers == {0} \cup {l \in Loops : HasCallees(l)}

Task == [do : {"loop", "calls"}, of : Places, at : Nat, blocks : Seq(DOMAIN Blocks)]

\* The place whose calls a task extracts, and the places a task has still to do with.
Of(t) == vertex[t.at].of
Part(t, k) == IF t.do = "loop" THEN Under[t.of] ELSE {k}
Extent(t) == Part(t, Of(t))

\* The tasks that a place with vertex `at' gives.
Opened(k, at) == Nested(k, at) \o (IF k \in Callers THEN <<CallsOf(Within[k], at)>> ELSE <<>>)

MadeOf(kind) == {vertex[v].of : v \in {w \in DOMAIN vertex : vertex[w].kind = kind}}

VerticesOK ==
    /\ Size \in Nat \ {0} /\ DOMAIN vertex = 0..(Size - 1)
    /\ \A v \in DOMAIN vertex : LET x == vertex[v]
                                IN  \/ x.kind = "function" /\ x.of = 0
                                    \/ x.kind = "loop" /\ x.of \in Loops
                                    \/ x.kind = "call" /\ x.of \in TheCalls

\* Nothing is below a call or itself, and every vertex is below one at most.
EdgesOK ==
    /\ edge \subseteq (DOMAIN vertex) \X (DOMAIN vertex)
    /\ \A e \in edge : e[1] # e[2] /\ vertex[e[1]].kind # "call"
    /\ \A d, e \in edge : d[2] = e[2] => d = e

\* What stands below what, and what should when these loops and calls have vertices.
Below == {<<vertex[e[1]].of, vertex[e[2]].kind, vertex[e[2]].of>> : e \in edge}
Above == [b \in TheCalls |-> IF Owners(b) = {} THEN {0}
                             ELSE {l \in Owners(b) : \A k \in Owners(b) : Inside(l, k)}]
Nesting(ls, cs) == {<<Up[l], "loop", l>> : l \in ls} \cup UNION {{<<a, "call", b>> : a \in Above[b]} : b \in cs}

Extracted(ls, cs) == Size = 1 + Cardinality(ls) + Cardinality(cs) /\ Below = Nesting(ls, cs)

\* A task hangs its vertices below that of their place; what is not visited of the place is
\* left to do.
TaskFits(t) ==
    /\ t.at \in DOMAIN vertex /\ vertex[t.at].kind # "call"
    /\ t.do = "loop" => t.of \in Loops /\ Of(t) = Up[t.of]
    /\ t.do = "calls" => /\ Of(t) \in Callers
                         /\ \A i \in DOMAIN t.blocks : t.blocks[i] \in Within[Of(t)]
                         /\ \A b \in Within[Of(t)] \ visited : \E i \in DOMAIN t.blocks : t.blocks[i] = b

\* No place has two tasks, and the tasks of the places in a place come before its calls.
TasksApart ==
    \A i, j \in DOMAIN todo : i < j =>
        /\ Extent(todo[i]) \cap Extent(todo[j]) = {}
        /\ todo[i].do = "calls" => Extent(todo[j]) \cap Under[Of(todo[i])] = {}

\* Every place has a task or its vertex, and its calls if it is asked for them.
Through(k) == /\ k = 0 \/ k \in MadeOf("loop")
              /\ k \in Callers => Within[k] \subseteq visited
PlacesCovered == \A k \in Places : Through(k) \/ \E i \in DOMAIN todo : k \in Extent(todo[i])

TodoOK ==
    /\ todo \in Seq(Task) /\ visited \subseteq DOMAIN Blocks
    /\ \A i \in DOMAIN todo : TaskFits(todo[i])
    /\ TasksApart
    /\ PlacesCovered
    /\ \A i \in DOMAIN todo : todo[i].do = "loop" => Extent(todo[i]) \cap MadeOf("loop") = {}
    /\ MadeOf("call") = TheCalls \cap visited
    /\ Extracted(MadeOf("loop"), MadeOf("call"))

FInv == fn \in Functions /\ VerticesOK /\ EdgesOK /\ TodoOK /\ fn.shared \subseteq visited
-----------------------------------------------------------------------------

LEMMA LayoutIs ==
    ASSUME fn \in Functions
    PROVE  /\ Len(fn.loops) \in Nat /\ Loops = 1..Len(fn.loops) /\ Places = 0..Len(fn.loops)
           /\ Len(Blocks) \in Nat \ {0} /\ DOMAIN Blocks = 1..Len(Blocks)
           /\ \A k \in Loops : /\ k # 0 /\ Within[k] = fn.loops[k].blocks /\ fn.loops[k].header \in Within[k]
                               /\ Up[k] \in Places /\ Up[k] < k
                               /\ Within[k] \subseteq Within[Up[k]] /\ Within[k] \subseteq DOMAIN Blocks
           /\ \A j, k \in Loops : j # k /\ Up[j] = Up[k] => Within[j] \cap Within[k] = {}
<1> DEFINE L == [parent : Nat, header : Nat, blocks : SUBSET (DOMAIN fn.blocks)]
<1>1. /\ fn.blocks \in Seq(Block) /\ fn.blocks # <<>>
      /\ fn.loops \in Seq(L)
      /\ \A l \in DOMAIN fn.loops :
            /\ fn.loops[l].header \in fn.loops[l].blocks
            /\ fn.loops[l].parent < l
            /\ fn.loops[l].parent # 0 => fn.loops[l].blocks \subseteq fn.loops[fn.loops[l].parent].blocks
            /\ \A k \in DOMAIN fn.loops \ {l} :
                  fn.loops[k].parent = fn.loops[l].parent => fn.loops[k].blocks \cap fn.loops[l].blocks = {}
  BY LayoutAssumption, Zenon
<1>2. Len(Blocks) \in Nat \ {0} /\ DOMAIN Blocks = 1..Len(Blocks)
  BY <1>1 DEF Blocks
<1> HIDE DEF L
<1>3. Len(fn.loops) \in Nat /\ Loops = 1..Len(fn.loops) /\ \A k \in Loops : fn.loops[k] \in L
  BY <1>1 DEF Loops
<1>4. Places = 0..Len(fn.loops)
  BY <1>3 DEF Places
<1>5. \A x \in L : x.parent \in Nat /\ x.blocks \subseteq DOMAIN Blocks
  BY DEF L, Blocks
<1>6. ASSUME NEW k \in Loops
      PROVE  /\ k # 0 /\ Within[k] = fn.loops[k].blocks /\ fn.loops[k].header \in Within[k]
             /\ Up[k] \in Places /\ Up[k] < k
             /\ Within[k] \subseteq Within[Up[k]] /\ Within[k] \subseteq DOMAIN Blocks
  <2>1. k # 0 /\ Within[k] = fn.loops[k].blocks
    BY <1>3 DEF Within, Places
  <2>2. /\ Up[k] \in Nat /\ Up[k] < k /\ fn.loops[k].header \in Within[k]
        /\ fn.loops[k].blocks \subseteq DOMAIN Blocks
        /\ Up[k] # 0 => fn.loops[k].blocks \subseteq fn.loops[Up[k]].blocks
    BY <1>1, <1>3, <1>5, <2>1 DEF Up, Loops
  <2>3. Up[k] \in Places
    BY <1>3, <1>4, <2>2
  <2> QED BY <2>1, <2>2, <2>3 DEF Within
<1>7. \A j, k \in Loops : j # k /\ Up[j] = Up[k] => Within[j] \cap Within[k] = {}
  BY <1>1, <1>6 DEF Up, Loops
<1> QED BY <1>2, <1>3, <1>4, <1>6, <1>7

LEMMA UnderIs ==
    ASSUME fn \in Functions, NEW k \in Places
    PROVE  /\ Under[k] \subseteq Places /\ k \in Under[k] /\ Closed(Under[k])
           /\ \A j \in Under[k] : /\ k <= j /\ Within[j] \subseteq Within[k] /\ Under[j] \subseteq Under[k]
                                  /\ j # k => /\ j \in Loops /\ Up[j] \in Under[k]
                                              /\ \E c \in Loops : Up[c] = k /\ j \in Under[c]
<1>1. Under[k] \subseteq Places /\ k \in Under[k]
  BY DEF Under
<1>2. Closed(Under[k])
  <2> SUFFICES ASSUME NEW j \in Loops, Up[j] \in Under[k], NEW S \in SUBSET Places, k \in S, Closed(S)
               PROVE  j \in S
    BY DEF Under, Closed, Places
  <2>1. Up[j] \in S
    BY DEF Under
  <2> QED BY <2>1 DEF Closed
<1>3. ASSUME NEW S \in SUBSET Places, k \in S, Closed(S) PROVE Under[k] \subseteq S
  BY <1>3 DEF Under
<1>4. \A j \in Under[k] : Under[j] \subseteq Under[k]
  BY <1>1, <1>2 DEF Under
<1>5. \A j \in Under[k] : k <= j
  <2> DEFINE S == {j \in Places : k <= j}
  <2>1. Closed(S)
    BY LayoutIs DEF Closed
  <2>2. k \in S
    BY LayoutIs
  <2> QED BY <1>3, <2>1, <2>2
<1>6. \A j \in Under[k] : Within[j] \subseteq Within[k]
  <2> DEFINE S == {j \in Places : Within[j] \subseteq Within[k]}
  <2>1. Closed(S)
    BY LayoutIs DEF Closed, Places
  <2> QED BY <1>3, <2>1
<1>7. \A j \in Under[k] : j # k => j \in Loops /\ Up[j] \in Under[k]
  <2> DEFINE S == {j \in Under[k] : j # k => j \in Loops /\ Up[j] \in Under[k]}
  <2>1. Closed(S)
    BY <1>2 DEF Closed
  <2> QED BY <1>1, <1>3, <2>1
<1>8. \A j \in Under[k] : j # k => \E c \in Loops : Up[c] = k /\ j \in Under[c]
  <2> DEFINE S == {j \in Places : j # k => \E c \in Loops : Up[c] = k /\ j \in Under[c]}
  <2>1. Closed(S)
    <3> SUFFICES ASSUME NEW j \in Loops, Up[j] \in S PROVE \E c \in Loops : Up[c] = k /\ j \in Under[c]
      BY DEF Closed, Places
    <3>1. CASE Up[j] = k
      BY <3>1 DEF Under, Places
    <3>2. CASE Up[j] # k
      <4>1. PICK c \in Loops : Up[c] = k /\ Up[j] \in Under[c]
        BY <3>2
      <4>2. j \in Under[c]
        BY <4>1 DEF Under, Closed, Places
      <4> QED BY <4>1, <4>2
    <3> QED BY <3>1, <3>2
  <2> QED BY <1>3, <2>1
<1> QED BY <1>1, <1>2, <1>4, <1>5, <1>6, <1>7, <1>8

\* Everything is in the function, and two loops in one place share nothing.
LEMMA AllUnderFunction == ASSUME fn \in Functions PROVE Under[0] = Places
<1> DEFINE T == Places \ Under[0]
<1>0. 0 \in Places /\ Under[0] \subseteq Places
  BY UnderIs DEF Places
<1>1. SUFFICES ASSUME T # {} PROVE FALSE
  BY <1>0
<1>2. 0 \in Places /\ T \in SUBSET Nat
  BY LayoutIs
<1>3. PICK k \in T : \A j \in T : k <= j
  <2> HIDE DEF T
  <2> QED BY <1>1, <1>2, LeastNumber
<1>4. k # 0 /\ k \in Loops
  BY <1>2, UnderIs DEF Places
<1>5. Up[k] \in Under[0]
  BY <1>2, <1>3, <1>4, LayoutIs
<1> QED BY <1>2, <1>4, <1>5, UnderIs DEF Closed

LEMMA SiblingsApart ==
    ASSUME fn \in Functions, NEW c \in Loops, NEW d \in Loops, c # d, Up[c] = Up[d]
    PROVE  Under[c] \cap Under[d] = {}
<1> DEFINE T == Under[c] \cap Under[d]
<1>1. SUFFICES ASSUME T # {} PROVE FALSE
  OBVIOUS
<1>2. c \in Places /\ d \in Places
  BY DEF Places
<1>3. T \in SUBSET Nat
  BY <1>2, UnderIs, LayoutIs
<1>4. PICK k \in T : \A j \in T : k <= j
  <2> HIDE DEF T
  <2> QED BY <1>1, <1>3, LeastNumber
<1>5. k # c
  <2>1. SUFFICES ASSUME c \in Under[d] PROVE FALSE
    BY <1>4
  <2>2. Up[c] \in Under[d]
    BY <1>2, <2>1, UnderIs
  <2>3. d <= Up[d] /\ Up[d] < d /\ d \in Int /\ Up[d] \in Int
    BY <1>2, <2>2, UnderIs, LayoutIs
  <2> QED BY <2>3
<1>6. k # d
  <2>1. SUFFICES ASSUME d \in Under[c] PROVE FALSE
    BY <1>4
  <2>2. Up[d] \in Under[c]
    BY <1>2, <2>1, UnderIs
  <2>3. c <= Up[c] /\ Up[c] < c /\ c \in Int /\ Up[c] \in Int
    BY <1>2, <2>2, UnderIs, LayoutIs
  <2> QED BY <2>3
<1>7. k \in Loops /\ Up[k] \in T
  BY <1>2, <1>4, <1>5, <1>6, UnderIs
<1>8. Up[k] < k /\ k <= Up[k] /\ k \in Int /\ Up[k] \in Int
  BY <1>3, <1>4, <1>7, LayoutIs
<1> QED BY <1>8

\* Of two places with a block in common one is in the other.
LEMMA PlacesNest ==
    ASSUME fn \in Functions, NEW k \in Places, NEW l \in Places, Within[k] \cap Within[l] # {}
    PROVE  k \in Under[l] \/ l \in Under[k]
<1> DEFINE T == {j \in Places : Within[j] \cap Within[l] # {} /\ j \notin Under[l] /\ l \notin Under[j]}
<1>1. SUFFICES ASSUME T # {} PROVE FALSE
  OBVIOUS
<1>2. T \in SUBSET Nat
  BY LayoutIs
<1>3. PICK j \in T : \A i \in T : j <= i
  <2> HIDE DEF T
  <2> QED BY <1>1, <1>2, LeastNumber
<1>4. j \in Loops
  BY AllUnderFunction DEF Places
<1>5. Up[j] \in Places /\ Up[j] < j /\ Within[j] \subseteq Within[Up[j]] /\ j \in Nat /\ Up[j] \in Nat
  BY <1>4, LayoutIs
<1>6. Up[j] \notin T /\ Within[Up[j]] \cap Within[l] # {}
  BY <1>3, <1>5
<1>7. Up[j] \notin Under[l]
  BY <1>3, <1>4, UnderIs DEF Closed
<1>8. l \in Under[Up[j]] /\ l # Up[j]
  BY <1>5, <1>6, <1>7, UnderIs
<1>9. PICK c \in Loops : Up[c] = Up[j] /\ l \in Under[c]
  BY <1>5, <1>8, UnderIs
<1>10. c # j /\ c \in Places /\ Within[l] \subseteq Within[c]
  BY <1>3, <1>9, UnderIs DEF Places
<1>11. Within[c] \cap Within[j] = {}
  BY <1>4, <1>9, <1>10, LayoutIs
<1> QED BY <1>3, <1>10, <1>11

\* The loops directly in a place get a task each.
LEMMA NestedIs ==
    ASSUME fn \in Functions, NEW k \in Places, NEW at \in Nat
    PROVE  /\ Nested(k, at) \in Seq(Task)
           /\ \A i \in DOMAIN Nested(k, at) : \E c \in Loops : Up[c] = k /\ Nested(k, at)[i] = Loop(c, at)
           /\ \A i, j \in DOMAIN Nested(k, at) : i # j => Nested(k, at)[i].of # Nested(k, at)[j].of
           /\ \A c \in Loops : Up[c] = k => \E i \in DOMAIN Nested(k, at) : Nested(k, at)[i] = Loop(c, at)
<1> DEFINE inner == {c \in Loops : fn.loops[c].parent = k}
           H == {fn.loops[c].header : c \in inner}
           headers == Ascending(H)
           loop(i) == CHOOSE c \in inner : fn.loops[c].header = headers[i]
<1>1. Nested(k, at) = [i \in DOMAIN headers |-> Loop(loop(i), at)]
  BY DEF Nested
<1>0. \A c \in Loops : c \in inner <=> Up[c] = k
  BY DEF Up
<1>2. H \in SUBSET Int /\ IsFiniteSet(H)
  <2>1. H \in SUBSET (1..Len(Blocks)) /\ H \in SUBSET Int
    BY LayoutIs
  <2>2. IsFiniteSet(1..Len(Blocks))
    BY LayoutIs, FS_Interval
  <2> HIDE DEF H
  <2> QED BY <2>1, <2>2, FS_Subset
<1>3. /\ Cardinality(H) \in Nat /\ DOMAIN headers = 1..Cardinality(H)
      /\ headers \in Seq(H)
      /\ \A m, n \in 1..Cardinality(H) : m < n => headers[m] < headers[n]
      /\ \A i \in H : \E n \in 1..Cardinality(H) : headers[n] = i
  <2> HIDE DEF H
  <2> QED BY <1>2, AscendingIs
<1>4. \A i \in DOMAIN headers : headers[i] \in H
  <2> HIDE DEF H
  <2> QED BY <1>3
<1>5. \A i \in DOMAIN headers : loop(i) \in inner /\ fn.loops[loop(i)].header = headers[i]
  BY <1>4
<1> HIDE DEF loop, headers
<1>6. \A i, j \in DOMAIN headers : i # j => headers[i] # headers[j]
  <2> SUFFICES ASSUME NEW i \in 1..Cardinality(H), NEW j \in 1..Cardinality(H), i # j
               PROVE headers[i] # headers[j]
    BY <1>3
  <2>1. headers[i] \in Int /\ headers[j] \in Int
    BY <1>2, <1>3, <1>4
  <2>2. i < j \/ j < i
    BY <1>3
  <2> HIDE DEF H
  <2>3. headers[i] < headers[j] \/ headers[j] < headers[i]
    BY <1>3, <2>2
  <2> QED BY <2>1, <2>3
<1>7. Nested(k, at) \in Seq(Task)
  <2>1. \A i \in DOMAIN headers : Loop(loop(i), at) \in Task
    <3>1. \A c \in Loops : Loop(c, at) \in Task
      BY DEF Loop, Task, Places
    <3> QED BY <1>5, <3>1
  <2>2. Nested(k, at) \in [1..Cardinality(H) -> Task]
    BY <1>1, <1>3, <2>1
  <2> HIDE DEF H
  <2> QED BY <1>3, <2>2, SeqDef
<1>8. DOMAIN Nested(k, at) = DOMAIN headers
  BY <1>1
<1>9. \A i \in DOMAIN headers : \E c \in Loops : Up[c] = k /\ Nested(k, at)[i] = Loop(c, at)
  BY <1>0, <1>1, <1>5
<1>10. \A i, j \in DOMAIN headers : i # j => Nested(k, at)[i].of # Nested(k, at)[j].of
  <2>1. \A i \in DOMAIN headers : Nested(k, at)[i].of = loop(i)
    BY <1>1 DEF Loop
  <2> QED BY <1>5, <1>6, <2>1
<1>11. ASSUME NEW c \in Loops, Up[c] = k PROVE \E i \in DOMAIN headers : Nested(k, at)[i] = Loop(c, at)
  <2>1. PICK i \in DOMAIN headers : headers[i] = fn.loops[c].header
    BY <1>0, <1>3, <1>11
  <2>2. loop(i) \in Loops /\ Up[loop(i)] = k /\ fn.loops[loop(i)].header = fn.loops[c].header
    BY <1>0, <1>5, <2>1
  <2>3. loop(i) = c
    BY <1>11, <2>2, LayoutIs
  <2> QED BY <1>1, <2>3
<1> QED BY <1>7, <1>8, <1>9, <1>10, <1>11

\* The calls of a place are its blocks.
LEMMA CallsOfIs ==
    ASSUME fn \in Functions, NEW bs \in SUBSET (DOMAIN Blocks), NEW at \in Nat
    PROVE  /\ CallsOf(bs, at) \in Task /\ CallsOf(bs, at).do = "calls" /\ CallsOf(bs, at).at = at
           /\ \A i \in DOMAIN CallsOf(bs, at).blocks : CallsOf(bs, at).blocks[i] \in bs
           /\ \A b \in bs : \E i \in DOMAIN CallsOf(bs, at).blocks : CallsOf(bs, at).blocks[i] = b
<1>1. bs \in SUBSET Int /\ IsFiniteSet(bs)
  <2>1. Len(Blocks) \in Nat /\ DOMAIN Blocks = 1..Len(Blocks)
    BY LayoutIs
  <2>2. IsFiniteSet(1..Len(Blocks))
    BY <2>1, FS_Interval
  <2>3. bs \in SUBSET (1..Len(Blocks)) /\ bs \in SUBSET Int
    BY <2>1
  <2> QED BY <2>2, <2>3, FS_Subset
<1>2. /\ Ascending(bs) \in Seq(bs) /\ DOMAIN Ascending(bs) = 1..Cardinality(bs)
      /\ \A b \in bs : \E i \in 1..Cardinality(bs) : Ascending(bs)[i] = b
  BY <1>1, AscendingIs
<1>3. Ascending(bs) \in Seq(DOMAIN Blocks)
  BY <1>2
<1>4. \A i \in DOMAIN Ascending(bs) : Ascending(bs)[i] \in bs
  <2>1. \A s \in Seq(bs) : \A i \in DOMAIN s : s[i] \in bs
    OBVIOUS
  <2> QED BY <1>2, <2>1, Zenon
<1>5. CallsOf(bs, at) = [do |-> "calls", of |-> 0, at |-> at, blocks |-> Ascending(bs)]
  BY DEF CallsOf
<1> QED BY <1>2, <1>3, <1>4, <1>5 DEF Task, Places

\* What depends on the function only stays as it is.
LEMMA SameFunction ==
    ASSUME fn' = fn
    PROVE  /\ Loops' = Loops /\ Blocks' = Blocks /\ Places' = Places /\ TheCalls' = TheCalls
           /\ Task' = Task /\ Up' = Up /\ Within' = Within /\ Under' = Under /\ Callers' = Callers
           /\ Above' = Above
<1>1. Loops' = Loops /\ Blocks' = Blocks
  BY DEF Loops, Blocks
<1>2. Places' = Places /\ TheCalls' = TheCalls
  BY <1>1 DEF Places, TheCalls
<1>3. Task' = Task
  BY <1>1, <1>2 DEF Task
<1>4. Up' = Up /\ Within' = Within
  BY <1>1, <1>2 DEF Up, Within
<1>5. \A S : Closed(S)' <=> Closed(S)
  BY <1>1, <1>4 DEF Closed
<1>6. Under' = Under
  BY <1>2, <1>5 DEF Under
<1>7. \A k : HasCallees(k)' <=> HasCallees(k)
  BY <1>1 DEF HasCallees
<1>11. Callers' = Callers
  BY <1>1, <1>7 DEF Callers
<1>12. \A b : Owners(b)' = Owners(b)
  BY <1>1, <1>7 DEF Owners
<1>8. \A j, k : Inside(j, k)' <=> Inside(j, k)
  BY DEF Inside
<1>9. Above' = Above
  BY <1>2, <1>8, <1>12 DEF Above
<1> QED BY <1>1, <1>2, <1>3, <1>4, <1>6, <1>9, <1>11

LEMMA AddedIs ==
    ASSUME VerticesOK, EdgesOK, fn' = fn, NEW x, NEW at \in DOMAIN vertex, vertex[at].kind # "call",
           (x.kind = "loop" /\ x.of \in Loops) \/ (x.kind = "call" /\ x.of \in TheCalls),
           Added(x, at)
    PROVE  /\ VerticesOK' /\ EdgesOK' /\ Size' = Size + 1 /\ DOMAIN vertex' = 0..Size
           /\ \A v \in DOMAIN vertex : vertex'[v] = vertex[v]
           /\ vertex'[Size] = x
           /\ Below' = Below \cup {<<vertex[at].of, x.kind, x.of>>}
           /\ \A kind : MadeOf(kind)' = MadeOf(kind) \cup (IF kind = x.kind THEN {x.of} ELSE {})
<1>1. /\ Size \in Nat \ {0} /\ DOMAIN vertex = 0..(Size - 1)
      /\ vertex' = [v \in 0..Size |-> IF v = Size THEN x ELSE vertex[v]]
      /\ edge' = edge \cup {<<at, Size>>}
  BY DEF VerticesOK, Added
<1>2. /\ DOMAIN vertex' = 0..Size /\ vertex'[Size] = x /\ Size \notin DOMAIN vertex
      /\ \A v \in DOMAIN vertex : vertex'[v] = vertex[v]
      /\ 0..Size = DOMAIN vertex \cup {Size}
  BY <1>1
<1>3. Size' = Size + 1
  <2>1. \A n \in Nat : Cardinality(0..n) = n + 1
    BY FS_Interval
  <2> QED BY <1>1, <1>2, <2>1 DEF Size
<1>4. VerticesOK'
  <2>1. DOMAIN vertex' = 0..(Size' - 1) /\ Size' \in Nat \ {0}
    BY <1>1, <1>2, <1>3
  <2>2. ASSUME NEW v \in DOMAIN vertex'
        PROVE  \/ vertex'[v].kind = "function" /\ vertex'[v].of = 0
               \/ vertex'[v].kind = "loop" /\ vertex'[v].of \in Loops
               \/ vertex'[v].kind = "call" /\ vertex'[v].of \in TheCalls
    BY <1>2 DEF VerticesOK
  <2> QED BY <2>1, <2>2, SameFunction DEF VerticesOK
<1>5. \A e \in edge : e[1] \in DOMAIN vertex /\ e[2] \in DOMAIN vertex /\ e = <<e[1], e[2]>>
  BY DEF EdgesOK
<1>6. EdgesOK'
  <2>1. edge' \subseteq (DOMAIN vertex') \X (DOMAIN vertex')
    BY <1>1, <1>2, <1>5
  <2>2. \A e \in edge' : e[1] # e[2] /\ vertex'[e[1]].kind # "call"
    BY <1>1, <1>2, <1>5 DEF EdgesOK
  <2>3. \A d, e \in edge' : d[2] = e[2] => d = e
    BY <1>1, <1>2, <1>5 DEF EdgesOK
  <2> QED BY <2>1, <2>2, <2>3 DEF EdgesOK
<1>7. Below' = Below \cup {<<vertex[at].of, x.kind, x.of>>}
  <2> DEFINE f(e) == <<vertex[e[1]].of, vertex[e[2]].kind, vertex[e[2]].of>>
             g(e) == <<vertex'[e[1]].of, vertex'[e[2]].kind, vertex'[e[2]].of>>
  <2>1. \A e \in edge : g(e) = f(e)
    BY <1>2, <1>5
  <2>2. g(<<at, Size>>) = <<vertex[at].of, x.kind, x.of>>
    BY <1>2
  <2>3. Below = {f(e) : e \in edge} /\ Below' = {g(e) : e \in edge'}
    BY DEF Below
  <2> HIDE DEF f, g
  <2> QED BY <1>1, <2>1, <2>2, <2>3
<1>8. ASSUME NEW kind PROVE MadeOf(kind)' = MadeOf(kind) \cup (IF kind = x.kind THEN {x.of} ELSE {})
  <2>1. MadeOf(kind)' = {vertex'[v].of : v \in {w \in DOMAIN vertex' : vertex'[w].kind = kind}}
    BY DEF MadeOf
  <2> QED BY <1>2, <2>1 DEF MadeOf
<1> QED BY <1>2, <1>3, <1>4, <1>6, <1>7, <1>8

\* The tasks of a place have its parts, each once, and its calls come last.
LEMMA OpenedIs ==
    ASSUME fn \in Functions, NEW k \in Places, NEW at \in Nat, NEW q, q = Opened(k, at)
    PROVE  /\ q \in Seq(Task)
           /\ \A i \in DOMAIN q :
                /\ q[i].at = at /\ Part(q[i], k) \subseteq Under[k]
                /\ q[i].do = "loop" => q[i].of \in Loops /\ Up[q[i].of] = k /\ k \notin Part(q[i], k)
                /\ q[i].do = "calls" => /\ k \in Callers
                                        /\ \A n \in DOMAIN q[i].blocks : q[i].blocks[n] \in Within[k]
                                        /\ \A b \in Within[k] : \E n \in DOMAIN q[i].blocks : q[i].blocks[n] = b
           /\ \A i, j \in DOMAIN q : i < j => Part(q[i], k) \cap Part(q[j], k) = {} /\ q[i].do = "loop"
           /\ \A j \in Under[k] : \/ \E i \in DOMAIN q : j \in Part(q[i], k)
                                  \/ j = k /\ k \notin Callers
<1> DEFINE p == Nested(k, at)
           c == CallsOf(Within[k], at)
           cs == IF k \in Callers THEN <<c>> ELSE <<>>
           n == Len(p)
<1>1. /\ p \in Seq(Task)
      /\ \A i \in DOMAIN p : \E l \in Loops : Up[l] = k /\ p[i] = Loop(l, at)
      /\ \A i, j \in DOMAIN p : i # j => p[i].of # p[j].of
      /\ \A l \in Loops : Up[l] = k => \E i \in DOMAIN p : p[i] = Loop(l, at)
  BY NestedIs
<1>2. Within[k] \in SUBSET (DOMAIN Blocks)
  BY LayoutIs DEF Within, Places
<1>3. /\ c \in Task /\ c.do = "calls" /\ c.at = at
      /\ \A i \in DOMAIN c.blocks : c.blocks[i] \in Within[k]
      /\ \A b \in Within[k] : \E i \in DOMAIN c.blocks : c.blocks[i] = b
  BY <1>2, CallsOfIs
<1>4. q = p \o cs
  BY DEF Opened
<1> HIDE DEF p, c
<1>5. /\ q \in Seq(Task) /\ n \in Nat /\ DOMAIN p = 1..n
      /\ \A i \in DOMAIN q : \/ i \in DOMAIN p /\ q[i] = p[i]
                             \/ i = n + 1 /\ q[i] = c /\ k \in Callers
      /\ \A i \in DOMAIN p : i \in DOMAIN q /\ q[i] = p[i]
      /\ k \in Callers => n + 1 \in DOMAIN q /\ q[n + 1] = c
  <2>1. CASE k \in Callers
    <3>1. q = p \o <<c>>
      BY <1>4, <2>1
    <3> QED BY <1>1, <1>3, <2>1, <3>1
  <2>2. CASE k \notin Callers
    <3>1. q = p \o <<>>
      BY <1>4, <2>2
    <3>2. q = p
      BY <1>1, <3>1
    <3> QED BY <1>1, <2>2, <3>2
  <2> QED BY <2>1, <2>2
<1>6. \A i \in DOMAIN p : /\ p[i].do = "loop" /\ p[i].at = at /\ p[i].of \in Loops /\ Up[p[i].of] = k
                          /\ Part(p[i], k) = Under[p[i].of]
  BY <1>1 DEF Loop, Part
<1>7. Part(c, k) = {k}
  BY <1>3 DEF Part
<1>8. k \in Under[k] /\ \A l \in Loops : Up[l] = k => Under[l] \subseteq Under[k] /\ k \notin Under[l]
  <2>1. ASSUME NEW l \in Loops, Up[l] = k PROVE Under[l] \subseteq Under[k] /\ k \notin Under[l]
    <3>1. l \in Places /\ l \in Under[k]
      BY <2>1, UnderIs DEF Places, Closed
    <3>2. k < l /\ k \in Int /\ l \in Int
      BY <2>1, LayoutIs
    <3> QED BY <3>1, <3>2, UnderIs
  <2> QED BY <2>1, UnderIs
<1>9. ASSUME NEW i \in DOMAIN q
      PROVE  /\ q[i].at = at /\ Part(q[i], k) \subseteq Under[k]
             /\ q[i].do = "loop" => q[i].of \in Loops /\ Up[q[i].of] = k /\ k \notin Part(q[i], k)
             /\ q[i].do = "calls" => /\ k \in Callers
                                     /\ \A m \in DOMAIN q[i].blocks : q[i].blocks[m] \in Within[k]
                                     /\ \A b \in Within[k] : \E m \in DOMAIN q[i].blocks : q[i].blocks[m] = b
  <2>1. CASE i \in DOMAIN p /\ q[i] = p[i]
    BY <1>6, <1>8, <2>1
  <2>2. CASE q[i] = c /\ k \in Callers
    BY <1>3, <1>7, <1>8, <2>2
  <2> QED BY <1>5, <2>1, <2>2
<1>10. ASSUME NEW i \in DOMAIN q, NEW j \in DOMAIN q, i < j
       PROVE  Part(q[i], k) \cap Part(q[j], k) = {} /\ q[i].do = "loop"
  <2>1. i \in DOMAIN p /\ q[i] = p[i]
    BY <1>5, <1>10
  <2>2. CASE j \in DOMAIN p /\ q[j] = p[j]
    <3>1. p[i].of # p[j].of
      BY <1>1, <1>5, <1>10, <2>1, <2>2
    <3> QED BY <1>6, <2>1, <2>2, <3>1, SiblingsApart
  <2>3. CASE q[j] = c
    BY <1>6, <1>7, <1>8, <2>1, <2>3
  <2> QED BY <1>5, <2>2, <2>3
<1>11. ASSUME NEW j \in Under[k]
       PROVE  (\E i \in DOMAIN q : j \in Part(q[i], k)) \/ (j = k /\ k \notin Callers)
  <2>1. CASE j = k
    BY <1>5, <1>7, <2>1
  <2>2. CASE j # k
    <3>1. PICK l \in Loops : Up[l] = k /\ j \in Under[l]
      BY <2>2, UnderIs
    <3>2. PICK i \in DOMAIN p : p[i] = Loop(l, at)
      BY <1>1, <3>1
    <3>3. Part(p[i], k) = Under[l]
      BY <3>2 DEF Loop, Part
    <3> QED BY <1>5, <3>1, <3>2, <3>3
  <2> QED BY <2>1, <2>2
<1> QED BY <1>5, <1>9, <1>10, <1>11

\* Extraction starts with the parts of the function.
LEMMA FunctionInitOK == ASSUME FunctionInit PROVE FInv
<1>1. /\ fn \in Functions /\ vertex[0].kind = "function" /\ vertex[0].of = 0 /\ DOMAIN vertex = {0}
      /\ edge = {} /\ visited = fn.shared /\ fn.shared \subseteq DOMAIN Blocks
  BY LayoutAssumption DEF FunctionInit, Blocks
<1>3. 0 \in Places /\ 0 \in Nat /\ 0 \in Callers /\ Within[0] = DOMAIN Blocks
  BY DEF Places, Callers, Within
<1>2. todo = Opened(0, 0)
  BY <1>3 DEF FunctionInit, Opened
<1>4. Size = 1
  BY <1>1, FS_Singleton DEF Size
<1>5. VerticesOK /\ EdgesOK
  BY <1>1, <1>4 DEF VerticesOK, EdgesOK
<1>6. MadeOf("loop") = {} /\ MadeOf("call") = {} /\ TheCalls \cap visited = {}
  BY <1>1 DEF MadeOf, TheCalls
<1>7. Extracted({}, {})
  <2>1. Cardinality({}) = 0
    BY FS_EmptySet
  <2>2. Below = {} /\ Nesting({}, {}) = {}
    BY <1>1 DEF Below, Nesting
  <2> QED BY <1>4, <2>1, <2>2 DEF Extracted
<1>8. /\ todo \in Seq(Task)
      /\ \A i \in DOMAIN todo :
            /\ todo[i].at = 0
            /\ todo[i].do = "loop" => todo[i].of \in Loops /\ Up[todo[i].of] = 0
            /\ todo[i].do = "calls" =>
                  /\ \A n \in DOMAIN todo[i].blocks : todo[i].blocks[n] \in Within[0]
                  /\ \A b \in Within[0] : \E n \in DOMAIN todo[i].blocks : todo[i].blocks[n] = b
      /\ \A i, j \in DOMAIN todo : i < j => Part(todo[i], 0) \cap Part(todo[j], 0) = {} /\ todo[i].do = "loop"
      /\ \A j \in Under[0] : \E i \in DOMAIN todo : j \in Part(todo[i], 0)
  BY <1>1, <1>2, <1>3, OpenedIs, SMTT(60)
<1>9. \A i \in DOMAIN todo : Of(todo[i]) = 0 /\ Extent(todo[i]) = Part(todo[i], 0)
  BY <1>1, <1>8 DEF Of, Extent
<1>10. \A i \in DOMAIN todo : TaskFits(todo[i])
  BY <1>1, <1>3, <1>8, <1>9 DEF TaskFits
<1>11. TasksApart
  BY <1>8, <1>9 DEF TasksApart
<1>12. PlacesCovered
  BY <1>1, <1>8, <1>9, AllUnderFunction DEF PlacesCovered
<1> QED BY <1>1, <1>5, <1>6, <1>7, <1>8, <1>10, <1>11, <1>12 DEF FInv, TodoOK

\* What stands below what when a loop or a call of its place is added.
With(S, x) == S \cup {x}

LEMMA LoopNested ==
    ASSUME NEW ls, NEW cs, NEW x
    PROVE  Nesting(With(ls, x), cs) = With(Nesting(ls, cs), <<Up[x], "loop", x>>)
<1> DEFINE U(s) == {<<Up[l], "loop", l>> : l \in s}
<1>1. U(With(ls, x)) = U(ls) \cup {<<Up[x], "loop", x>>}
  BY DEF With
<1> QED BY <1>1 DEF Nesting, With

LEMMA CallNested ==
    ASSUME NEW ls, NEW cs, NEW x, NEW l, Above[x] = {l}
    PROVE  Nesting(ls, With(cs, x)) = With(Nesting(ls, cs), <<l, "call", x>>)
<1> DEFINE A(b) == {<<a, "call", b>> : a \in Above[b]}
           U(s) == {<<Up[k], "loop", k>> : k \in s}
<1>1. \A s : Nesting(ls, s) = U(ls) \cup UNION {A(b) : b \in s}
  BY DEF Nesting
<1>2. A(x) = {<<l, "call", x>>}
  OBVIOUS
<1> HIDE DEF A, U
<1>3. UNION {A(b) : b \in With(cs, x)} = (UNION {A(b) : b \in cs}) \cup A(x)
  BY DEF With
<1> QED BY <1>1, <1>2, <1>3 DEF With

LEMMA MadeIsFinite ==
    ASSUME fn \in Functions, VerticesOK
    PROVE  /\ MadeOf("loop") \subseteq Loops /\ IsFiniteSet(MadeOf("loop")) /\ Cardinality(MadeOf("loop")) \in Nat
           /\ MadeOf("call") \subseteq TheCalls /\ IsFiniteSet(MadeOf("call")) /\ Cardinality(MadeOf("call")) \in Nat
<1>1. MadeOf("loop") \subseteq Loops /\ MadeOf("call") \subseteq TheCalls
  BY DEF MadeOf, VerticesOK
<1>2. Len(fn.loops) \in Int /\ Loops = 1..Len(fn.loops) /\ Len(Blocks) \in Int /\ TheCalls \subseteq 1..Len(Blocks)
  BY LayoutIs DEF TheCalls
<1>3. IsFiniteSet(1..Len(fn.loops)) /\ IsFiniteSet(1..Len(Blocks))
  BY <1>2, FS_Interval
<1>4. IsFiniteSet(MadeOf("loop")) /\ IsFiniteSet(MadeOf("call"))
  <2>1. MadeOf("loop") \subseteq 1..Len(fn.loops) /\ MadeOf("call") \subseteq 1..Len(Blocks)
    BY <1>1, <1>2
  <2> QED BY <1>3, <2>1, FS_Subset
<1> QED BY <1>1, <1>4, FS_CardinalityType

\* The first element of a list gives way to others.
LEMMA ListGrows ==
    ASSUME NEW T, NEW s \in Seq(T), s # <<>>, NEW q \in Seq(T), NEW r, r = q \o Tail(s)
    PROVE  /\ Len(q) \in Nat /\ DOMAIN q = 1..Len(q) /\ r \in Seq(T) /\ DOMAIN s \subseteq Nat
           /\ \A i \in DOMAIN r : \/ i \in DOMAIN q /\ r[i] = q[i]
                                 \/ /\ i \in Nat /\ Len(q) < i /\ i - Len(q) + 1 \in DOMAIN s
                                    /\ r[i] = s[i - Len(q) + 1]
           /\ \A i \in DOMAIN q : i \in DOMAIN r /\ r[i] = q[i]
           /\ \A j \in DOMAIN s : 1 < j => j + Len(q) - 1 \in DOMAIN r /\ r[j + Len(q) - 1] = s[j]
<1>1. /\ Tail(s) \in Seq(T) /\ Len(Tail(s)) = Len(s) - 1 /\ DOMAIN s = 1..Len(s) /\ Len(s) \in Nat
      /\ \A i \in 1..(Len(s) - 1) : Tail(s)[i] = s[i + 1]
  OBVIOUS
<1>2. Len(q) \in Nat /\ DOMAIN q = 1..Len(q)
  OBVIOUS
<1>3. /\ r \in Seq(T) /\ DOMAIN r = 1..(Len(q) + Len(s) - 1)
      /\ \A i \in 1..(Len(q) + Len(s) - 1) : r[i] = IF i <= Len(q) THEN q[i] ELSE Tail(s)[i - Len(q)]
  BY <1>1, <1>2
<1>4. ASSUME NEW i \in DOMAIN r
      PROVE  \/ i \in DOMAIN q /\ r[i] = q[i]
             \/ i \in Nat /\ Len(q) < i /\ i - Len(q) + 1 \in DOMAIN s /\ r[i] = s[i - Len(q) + 1]
  <2>1. CASE i <= Len(q)
    BY <1>2, <1>3, <2>1
  <2>2. CASE ~(i <= Len(q))
    <3>1. i \in Nat /\ i - Len(q) \in 1..(Len(s) - 1) /\ r[i] = Tail(s)[i - Len(q)]
      BY <1>1, <1>2, <1>3, <2>2
    <3>2. Tail(s)[i - Len(q)] = s[i - Len(q) + 1]
      BY <1>1, <3>1
    <3>3. Len(q) < i /\ i - Len(q) + 1 \in DOMAIN s
      BY <1>1, <1>2, <2>2, <3>1
    <3> QED BY <3>1, <3>2, <3>3
  <2> QED BY <2>1, <2>2
<1>5. ASSUME NEW j \in DOMAIN s, 1 < j PROVE j + Len(q) - 1 \in DOMAIN r /\ r[j + Len(q) - 1] = s[j]
  <2>1. j - 1 \in 1..(Len(s) - 1) /\ j + Len(q) - 1 \in 1..(Len(q) + Len(s) - 1) /\ ~(j + Len(q) - 1 <= Len(q))
    BY <1>1, <1>2, <1>5
  <2>2. r[j + Len(q) - 1] = Tail(s)[j + Len(q) - 1 - Len(q)]
    BY <1>3, <2>1
  <2>3. j + Len(q) - 1 - Len(q) = j - 1 /\ j - 1 + 1 = j
    BY <1>1, <1>2
  <2>4. Tail(s)[j - 1] = s[j]
    BY <1>1, <2>1, <2>3
  <2> QED BY <1>3, <2>1, <2>2, <2>3, <2>4
<1>6. \A i \in DOMAIN q : i \in DOMAIN r /\ r[i] = q[i]
  BY <1>1, <1>2, <1>3
<1>7. DOMAIN s \subseteq Nat
  BY <1>1
<1> QED BY <1>2, <1>3, <1>4, <1>5, <1>6, <1>7

\* A loop gets its vertex; what is in it takes its place in the list.
LEMMA ExtractLoopOK == ASSUME FInv, ExtractLoop PROVE FInv'
<1> DEFINE t == todo[1]
           l == t.of
           x == LoopVertex(l)
           q == Opened(l, Size)
           n == Len(q)
<1>1. /\ fn \in Functions /\ VerticesOK /\ EdgesOK /\ TodoOK
      /\ todo \in Seq(Task) /\ visited \subseteq DOMAIN Blocks
      /\ \A i \in DOMAIN todo : todo[i] \in Task /\ TaskFits(todo[i])
  <2>1. \A s \in Seq(Task) : \A i \in DOMAIN s : s[i] \in Task
    OBVIOUS
  <2> QED BY <2>1 DEF FInv, TodoOK
<1>2. /\ todo # <<>> /\ t.do = "loop" /\ Added(x, t.at)
      /\ todo' = Nested(l, Size)
                 \o (IF HasCallees(l) THEN <<CallsOf(fn.loops[l].blocks, Size)>> ELSE <<>>)
                 \o Tail(todo)
      /\ fn' = fn /\ visited' = visited
  BY DEF ExtractLoop
<1>3. 1 \in DOMAIN todo
  BY <1>1, <1>2
<1>4. l \in Loops /\ Of(t) = Up[l] /\ t.at \in DOMAIN vertex /\ vertex[t.at].kind # "call"
  BY <1>1, <1>2, <1>3 DEF TaskFits
<1>5. x.kind = "loop" /\ x.of = l
  BY DEF LoopVertex
<1> HIDE DEF x
<1>6. /\ VerticesOK' /\ EdgesOK' /\ Size' = Size + 1 /\ DOMAIN vertex' = 0..Size
      /\ \A v \in DOMAIN vertex : vertex'[v] = vertex[v]
      /\ vertex'[Size] = x
      /\ Below' = Below \cup {<<vertex[t.at].of, "loop", l>>}
      /\ \A kind : MadeOf(kind)' = MadeOf(kind) \cup (IF kind = "loop" THEN {l} ELSE {})
  BY <1>1, <1>2, <1>4, <1>5, AddedIs
<1>7. MadeOf("loop")' = MadeOf("loop") \cup {l} /\ MadeOf("call")' = MadeOf("call")
  BY <1>6
<1>8. /\ l \in Places /\ l # 0 /\ Size \in Nat /\ DOMAIN vertex \subseteq DOMAIN vertex' /\ Size \in DOMAIN vertex'
      /\ l \in Callers <=> HasCallees(l)
      /\ Within[l] = fn.loops[l].blocks
  BY <1>1, <1>4, <1>6, LayoutIs, SMTT(60) DEF Places, VerticesOK, Callers
<1>9. todo' = q \o Tail(todo)
  <2> DEFINE c == <<CallsOf(fn.loops[l].blocks, Size)>>
  <2>1. (IF HasCallees(l) THEN c ELSE <<>>) = (IF l \in Callers THEN <<CallsOf(Within[l], Size)>> ELSE <<>>)
    <3>1. (l \in Callers <=> HasCallees(l)) /\ <<CallsOf(Within[l], Size)>> = c
      BY <1>8
    <3> HIDE DEF c
    <3> QED BY <3>1
  <2>2. todo' = Nested(l, Size) \o (IF HasCallees(l) THEN c ELSE <<>>) \o Tail(todo)
    BY <1>2, Zenon
  <2> QED BY <2>1, <2>2, Zenon DEF Opened
<1>10. /\ q \in Seq(Task)
       /\ \A i \in DOMAIN q :
            /\ q[i].at = Size /\ Part(q[i], l) \subseteq Under[l]
            /\ q[i].do = "loop" => q[i].of \in Loops /\ Up[q[i].of] = l /\ l \notin Part(q[i], l)
            /\ q[i].do = "calls" => /\ l \in Callers
                                    /\ \A m \in DOMAIN q[i].blocks : q[i].blocks[m] \in Within[l]
                                    /\ \A b \in Within[l] : \E m \in DOMAIN q[i].blocks : q[i].blocks[m] = b
       /\ \A i, j \in DOMAIN q : i < j => Part(q[i], l) \cap Part(q[j], l) = {} /\ q[i].do = "loop"
       /\ \A j \in Under[l] : (\E i \in DOMAIN q : j \in Part(q[i], l)) \/ (j = l /\ l \notin Callers)
  BY <1>1, <1>8, OpenedIs
<1> HIDE DEF q
<1>11. /\ n \in Nat /\ DOMAIN q = 1..n /\ todo' \in Seq(Task) /\ DOMAIN todo \subseteq Nat
       /\ \A i \in DOMAIN todo' : \/ i \in DOMAIN q /\ todo'[i] = q[i]
                                  \/ /\ i \in Nat /\ n < i /\ i - n + 1 \in DOMAIN todo
                                     /\ todo'[i] = todo[i - n + 1]
       /\ \A i \in DOMAIN q : i \in DOMAIN todo' /\ todo'[i] = q[i]
       /\ \A j \in DOMAIN todo : 1 < j => j + n - 1 \in DOMAIN todo' /\ todo'[j + n - 1] = todo[j]
  <2>1. todo \in Seq(Task) /\ todo # <<>> /\ q \in Seq(Task) /\ todo' = q \o Tail(todo)
    BY <1>1, <1>2, <1>9, <1>10
  <2> QED BY <2>1, ListGrows, SMTT(60)
<1> DEFINE of(u) == vertex'[u.at].of
           ext(u) == IF u.do = "loop" THEN Under[u.of] ELSE {of(u)}
<1>12. Under' = Under /\ Up' = Up /\ Within' = Within /\ Callers' = Callers /\ Loops' = Loops /\ Places' = Places
       /\ Task' = Task /\ Blocks' = Blocks /\ TheCalls' = TheCalls /\ Above' = Above
  BY <1>2, SameFunction
\* the tasks of the loop
<1>13. \A i \in DOMAIN q : of(q[i]) = l /\ ext(q[i]) = Part(q[i], l)
  BY <1>5, <1>6, <1>10 DEF Part
\* and those that were there
<1>14. \A j \in DOMAIN todo : /\ todo[j].at \in DOMAIN vertex /\ vertex'[todo[j].at] = vertex[todo[j].at]
                              /\ of(todo[j]) = Of(todo[j]) /\ ext(todo[j]) = Extent(todo[j])
  BY <1>1, <1>6 DEF TaskFits, Of, Extent, Part
<1>15. ext(t) = Under[l] /\ l \in Under[l] /\ Under[l] \subseteq Places
  BY <1>1, <1>2, <1>8, UnderIs
<1>16. \A i, j \in DOMAIN todo : i < j => /\ ext(todo[i]) \cap ext(todo[j]) = {}
                                          /\ todo[i].do = "calls" => ext(todo[j]) \cap Under[of(todo[i])] = {}
  BY <1>1, <1>14 DEF TodoOK, TasksApart
<1>17. \A j \in DOMAIN todo : 1 < j => ext(todo[j]) \cap Under[l] = {}
  BY <1>3, <1>11, <1>15, <1>16
<1> HIDE DEF ext
<1>18. \A i, j \in DOMAIN q : i < j => ext(q[i]) \cap ext(q[j]) = {} /\ q[i].do = "loop"
  BY <1>10, <1>13
<1>19. \A i \in DOMAIN q : ext(q[i]) \subseteq Under[l] /\ (q[i].do = "loop" => l \notin ext(q[i]))
  BY <1>10, <1>13
<1>20. \A k \in Under[l] : (\E i \in DOMAIN q : k \in ext(q[i])) \/ (k = l /\ l \notin Callers)
  BY <1>10, <1>13
<1>21. ASSUME NEW i \in DOMAIN todo', NEW u, u = todo'[i]
       PROVE  /\ u.at \in DOMAIN vertex' /\ vertex'[u.at].kind # "call"
              /\ u.do = "loop" => u.of \in Loops /\ of(u) = Up[u.of]
              /\ u.do = "calls" => /\ of(u) \in Callers
                                   /\ \A m \in DOMAIN u.blocks : u.blocks[m] \in Within[of(u)]
                                   /\ \A b \in Within[of(u)] \ visited : \E m \in DOMAIN u.blocks : u.blocks[m] = b
  <2>1. CASE i \in DOMAIN q /\ u = q[i]
    <3>1. u.at = Size /\ of(u) = l /\ vertex'[Size].kind # "call"
      BY <1>5, <1>6, <1>10, <1>13, <2>1
    <3> HIDE DEF of
    <3> QED BY <1>8, <1>10, <2>1, <3>1
  <2>2. CASE \E j \in DOMAIN todo : u = todo[j]
    <3>1. PICK j \in DOMAIN todo : u = todo[j]
      BY <2>2
    <3>2. TaskFits(u) /\ u.at \in DOMAIN vertex /\ vertex'[u.at] = vertex[u.at] /\ of(u) = Of(u)
      BY <1>1, <1>14, <3>1
    <3> HIDE DEF of
    <3> QED BY <1>8, <3>2 DEF TaskFits
  <2> QED BY <1>11, <1>21, <2>1, <2>2
<1>22. (\A i \in DOMAIN todo : TaskFits(todo[i]))'
  <2>1. ASSUME NEW i \in DOMAIN todo' PROVE (TaskFits(todo[i]))'
    <3> DEFINE u == todo'[i]
    <3>1. /\ u.at \in DOMAIN vertex' /\ vertex'[u.at].kind # "call"
          /\ u.do = "loop" => u.of \in Loops /\ of(u) = Up[u.of]
          /\ u.do = "calls" => /\ of(u) \in Callers
                               /\ \A m \in DOMAIN u.blocks : u.blocks[m] \in Within[of(u)]
                               /\ \A b \in Within[of(u)] \ visited : \E m \in DOMAIN u.blocks : u.blocks[m] = b
      <4>1. u = todo'[i]
        OBVIOUS
      <4> HIDE DEF u, of
      <4> QED BY <1>21, <4>1
    <3>2. Loops' = Loops /\ Up' = Up /\ Callers' = Callers /\ Within' = Within /\ visited' = visited
      BY <1>2, <1>12
    <3> QED BY <3>1, <3>2, Zenon DEF TaskFits, Of
  <2> QED BY <2>1
<1>23. ASSUME NEW i \in DOMAIN todo', NEW j \in DOMAIN todo', i < j
       PROVE  /\ ext(todo'[i]) \cap ext(todo'[j]) = {}
              /\ todo'[i].do = "calls" => ext(todo'[j]) \cap Under[of(todo'[i])] = {}
  <2> HIDE DEF of
  <2>1. CASE i \in DOMAIN q /\ j \in DOMAIN q
    BY <1>11, <1>18, <1>23, <2>1
  <2>2. CASE i \in DOMAIN q /\ j \notin DOMAIN q
    <3>1. n < j /\ j - n + 1 \in DOMAIN todo /\ todo'[j] = todo[j - n + 1] /\ j \in Nat
      BY <1>11, <2>2
    <3>2. 1 < j - n + 1
      BY <1>11, <3>1
    <3>3. ext(todo'[j]) \cap Under[l] = {}
      BY <1>17, <3>1, <3>2
    <3>4. todo'[i] = q[i] /\ of(q[i]) = l /\ ext(q[i]) \subseteq Under[l]
      BY <1>11, <1>13, <1>19, <2>2
    <3> QED BY <3>3, <3>4
  <2>3. CASE i \notin DOMAIN q
    <3>1. i \in Nat /\ n < i /\ i - n + 1 \in DOMAIN todo /\ todo'[i] = todo[i - n + 1]
      BY <1>11, <2>3
    <3>2. j \in Nat /\ n < j /\ j - n + 1 \in DOMAIN todo /\ todo'[j] = todo[j - n + 1]
      BY <1>11, <1>23, <3>1
    <3>3. i - n + 1 < j - n + 1
      BY <1>11, <1>23, <3>1, <3>2
    <3> QED BY <1>16, <3>1, <3>2, <3>3
  <2> QED BY <2>1, <2>2, <2>3
<1>24. TasksApart'
  BY <1>12, <1>23 DEF TasksApart, Extent, Part, Of, ext
<1>25. ASSUME NEW k \in Places
       PROVE  \/ /\ k = 0 \/ k \in MadeOf("loop")'
                 /\ k \in Callers => Within[k] \subseteq visited'
              \/ \E i \in DOMAIN todo' : k \in ext(todo'[i])
  <2>1. CASE Through(k)
    BY <1>2, <1>7, <2>1 DEF Through
  <2>2. CASE \E j \in DOMAIN todo : k \in ext(todo[j])
    <3>1. PICK j \in DOMAIN todo : k \in ext(todo[j])
      BY <2>2
    <3>2. CASE j = 1
      <4>1. k \in Under[l]
        BY <1>15, <3>1, <3>2
      <4>2. CASE k = l /\ l \notin Callers
        BY <1>7, <4>2
      <4>3. CASE \E i \in DOMAIN q : k \in ext(q[i])
        BY <1>11, <4>3
      <4> QED BY <1>20, <4>1, <4>2, <4>3
    <3>3. CASE j # 1
      <4>1. 1 < j
        BY <1>1, <3>3
      <4> QED BY <1>11, <3>1, <4>1
    <3> QED BY <3>2, <3>3
  <2> QED BY <1>1, <1>14, <2>1, <2>2 DEF TodoOK, PlacesCovered
<1>26. PlacesCovered'
  <2>1. ASSUME NEW k \in Places PROVE (Through(k))' \/ \E i \in DOMAIN todo' : k \in ext(todo'[i])
    BY <1>12, <1>25 DEF Through
  <2> QED BY <1>12, <2>1 DEF PlacesCovered, Extent, Part, Of, ext
<1>27. l \notin MadeOf("loop") /\ Under[l] \cap MadeOf("loop") = {}
  BY <1>1, <1>2, <1>3, <1>14, <1>15 DEF TodoOK
<1>28. ASSUME NEW i \in DOMAIN todo', todo'[i].do = "loop" PROVE ext(todo'[i]) \cap MadeOf("loop")' = {}
  <2>1. CASE i \in DOMAIN q
    BY <1>7, <1>11, <1>19, <1>27, <1>28, <2>1
  <2>2. CASE i \notin DOMAIN q
    <3>1. i \in Nat /\ n < i /\ i - n + 1 \in DOMAIN todo /\ todo'[i] = todo[i - n + 1]
      BY <1>11, <2>2
    <3>2. 1 < i - n + 1
      BY <1>11, <3>1
    <3>3. l \notin ext(todo'[i])
      BY <1>15, <1>17, <3>1, <3>2
    <3>4. ext(todo'[i]) \cap MadeOf("loop") = {}
      BY <1>1, <1>14, <1>28, <3>1 DEF TodoOK
    <3> QED BY <1>7, <3>3, <3>4
  <2> QED BY <2>1, <2>2
<1>29. (\A i \in DOMAIN todo : todo[i].do = "loop" => Extent(todo[i]) \cap MadeOf("loop") = {})'
  BY <1>12, <1>28 DEF Extent, Part, Of, ext
<1>30. Extracted(MadeOf("loop"), MadeOf("call"))'
  <2>1. Size = 1 + Cardinality(MadeOf("loop")) + Cardinality(MadeOf("call"))
    BY <1>1 DEF TodoOK, Extracted
  <2>7. Below = Nesting(MadeOf("loop"), MadeOf("call"))
    BY <1>1 DEF TodoOK, Extracted
  <2>2. IsFiniteSet(MadeOf("loop")) /\ Cardinality(MadeOf("loop")) \in Nat /\ Cardinality(MadeOf("call")) \in Nat
    BY <1>1, MadeIsFinite
  <2>3. Cardinality(MadeOf("loop") \cup {l}) = Cardinality(MadeOf("loop")) + 1
    BY <1>27, <2>2, FS_AddElement
  <2>4. Size' = 1 + Cardinality(MadeOf("loop")') + Cardinality(MadeOf("call")')
    <3>1. Size' = Size + 1
      BY <1>6
    <3>2. /\ Cardinality(MadeOf("loop")') = Cardinality(MadeOf("loop")) + 1
          /\ Cardinality(MadeOf("call")') = Cardinality(MadeOf("call"))
      BY <1>7, <2>3, Zenon
    <3> QED BY <2>1, <2>2, <3>1, <3>2
  <2>5. Below' = Nesting(MadeOf("loop")', MadeOf("call")')
    <3>1. Below' = With(Below, <<Up[l], "loop", l>>)
      BY <1>4, <1>6 DEF Of, With
    <3>2. MadeOf("loop")' = With(MadeOf("loop"), l) /\ MadeOf("call")' = MadeOf("call")
      BY <1>7 DEF With
    <3>3. Nesting(With(MadeOf("loop"), l), MadeOf("call"))
            = With(Nesting(MadeOf("loop"), MadeOf("call")), <<Up[l], "loop", l>>)
      BY LoopNested
    <3> QED BY <2>7, <3>1, <3>2, <3>3
  <2>6. Below' = (Nesting(MadeOf("loop"), MadeOf("call")))'
    BY <1>12, <2>5 DEF Nesting
  <2> QED BY <2>4, <2>6 DEF Extracted
<1>31. MadeOf("call")' = TheCalls' \cap visited' /\ visited' \subseteq DOMAIN Blocks'
  BY <1>1, <1>2, <1>7, <1>12 DEF TodoOK
<1>32. todo' \in Seq(Task')
  BY <1>11, <1>12
<1>33. TodoOK'
  BY <1>22, <1>24, <1>26, <1>29, <1>30, <1>31, <1>32 DEF TodoOK
<1>34. fn.shared \subseteq visited
  BY DEF FInv
<1> QED BY <1>1, <1>2, <1>6, <1>33, <1>34 DEF FInv

\* What FInv says of the next task when it is one of calls.
LEMMA CallsNext ==
    ASSUME FInv, todo # <<>>, todo[1].do = "calls"
    PROVE  /\ fn \in Functions /\ 1 \in DOMAIN todo /\ todo \in Seq(Task) /\ todo[1] \in Task
           /\ \A i \in DOMAIN todo : todo[i] \in Task /\ TaskFits(todo[i])
           /\ DOMAIN todo = 1..Len(todo) /\ Len(todo) \in Nat
           /\ visited \subseteq DOMAIN Blocks
           /\ Of(todo[1]) \in Places /\ Of(todo[1]) \in Callers
           /\ Of(todo[1]) = 0 \/ Of(todo[1]) \in MadeOf("loop")
           /\ Within[Of(todo[1])] \subseteq DOMAIN Blocks
           /\ Extent(todo[1]) = {Of(todo[1])}
           /\ \A j \in DOMAIN todo : 1 < j => Extent(todo[j]) \cap Under[Of(todo[1])] = {}
<1> DEFINE t == todo[1]
<1>1. fn \in Functions /\ VerticesOK /\ todo \in Seq(Task) /\ visited \subseteq DOMAIN Blocks /\ TasksApart
      /\ \A i \in DOMAIN todo : TaskFits(todo[i])
  BY DEF FInv, TodoOK
<1>2. DOMAIN todo = 1..Len(todo) /\ Len(todo) \in Nat /\ 1 \in DOMAIN todo
      /\ \A i \in DOMAIN todo : todo[i] \in Task
  <2>1. \A s \in Seq(Task) : DOMAIN s = 1..Len(s) /\ Len(s) \in Nat /\ (s # <<>> => 1 \in DOMAIN s)
                             /\ \A i \in DOMAIN s : s[i] \in Task
    OBVIOUS
  <2> QED BY <1>1, <2>1, Zenon
<1>3. t.at \in DOMAIN vertex /\ vertex[t.at].kind # "call" /\ Of(t) \in Callers
  BY <1>1, <1>2 DEF TaskFits
<1>4. (vertex[t.at].kind = "function" /\ Of(t) = 0) \/ (vertex[t.at].kind = "loop" /\ Of(t) \in Loops)
  BY <1>1, <1>3 DEF VerticesOK, Of
<1>5. Of(t) = 0 \/ Of(t) \in MadeOf("loop")
  BY <1>3, <1>4 DEF MadeOf, Of
<1>6. Of(t) \in Places
  BY <1>4 DEF Places
<1>7. Within[Of(t)] \subseteq DOMAIN Blocks
  <2>1. CASE Of(t) = 0
    BY <1>6, <2>1 DEF Within
  <2>2. CASE Of(t) \in Loops
    BY <1>1, <2>2, LayoutIs
  <2> QED BY <1>4, <2>1, <2>2
<1>8. Extent(t) = {Of(t)}
  BY DEF Extent, Part
<1>9. \A j \in DOMAIN todo : 1 < j => Extent(todo[j]) \cap Under[Of(t)] = {}
  BY <1>1, <1>2 DEF TasksApart
<1> QED BY <1>1, <1>2, <1>3, <1>5, <1>6, <1>7, <1>8, <1>9

\* A call that is reached for the first time stands where it should: the places in the one
\* being extracted that have calls have had theirs.
LEMMA OwnerIs ==
    ASSUME FInv, todo # <<>>, todo[1].do = "calls",
           NEW b \in TheCalls, b \in Within[Of(todo[1])], b \notin visited
    PROVE  Above[b] = {Of(todo[1])}
<1> DEFINE p == Of(todo[1])
<1>1. /\ fn \in Functions /\ p \in Places /\ p \in Callers /\ Extent(todo[1]) = {p}
      /\ DOMAIN todo = 1..Len(todo) /\ Len(todo) \in Nat
      /\ \A j \in DOMAIN todo : 1 < j => Extent(todo[j]) \cap Under[p] = {}
  BY CallsNext
<1>2. PlacesCovered
  BY DEF FInv, TodoOK
<1> HIDE DEF p
<1>3. \A k \in Owners(b) : k \in Loops /\ k \in Places /\ b \in Within[k] /\ k \in Callers /\ Within[k] = fn.loops[k].blocks
  BY <1>1, LayoutIs DEF Owners, Callers, Places
<1>4. ASSUME NEW k \in Owners(b), k # p PROVE k \notin Under[p]
  <2>1. ~Through(k)
    BY <1>3 DEF Through
  <2>2. PICK i \in DOMAIN todo : k \in Extent(todo[i])
    BY <1>2, <1>3, <2>1 DEF PlacesCovered
  <2>3. i # 1
    BY <1>1, <1>4, <2>2
  <2>4. 1 < i
    BY <1>1, <2>3
  <2> QED BY <1>1, <2>2, <2>4
<1>5. CASE p = 0
  <2>1. Owners(b) = {}
    <3>1. \A k \in Owners(b) : k # 0 /\ k \in Under[0]
      BY <1>1, <1>3, LayoutIs, AllUnderFunction
    <3> QED BY <1>4, <1>5, <3>1
  <2> QED BY <1>5, <2>1 DEF Above, p
<1>6. CASE p # 0
  <2>1. p \in Loops /\ HasCallees(p) /\ Within[p] = fn.loops[p].blocks
    BY <1>1, <1>6, LayoutIs DEF Places, Callers
  <2>2. b \in Within[p]
    BY DEF p
  <2>3. p \in Owners(b)
    BY <2>1, <2>2 DEF Owners
  <2>4. \A k \in Owners(b) : k # p => p \in Under[k]
    <3> SUFFICES ASSUME NEW k \in Owners(b), k # p PROVE p \in Under[k]
      OBVIOUS
    <3>1. k \notin Under[p] /\ k \in Places /\ Within[k] \cap Within[p] # {}
      BY <1>3, <1>4, <2>2
    <3> QED BY <1>1, <3>1, PlacesNest
  <2>5. \A k \in Owners(b) : Inside(p, k)
    <3> SUFFICES ASSUME NEW k \in Owners(b) PROVE Inside(p, k)
      OBVIOUS
    <3>1. CASE k = p
      BY <3>1 DEF Inside
    <3>2. CASE k # p
      <4>1. Within[p] \subseteq Within[k]
        BY <1>1, <1>3, <2>4, <3>2, UnderIs
      <4> QED BY <1>3, <2>1, <4>1 DEF Inside
    <3> QED BY <3>1, <3>2
  <2>6. ASSUME NEW k \in Owners(b), Inside(k, p) PROVE k = p
    <3>1. SUFFICES ASSUME k # p PROVE FALSE
      OBVIOUS
    <3>2. p \in Under[k] /\ k \in Places
      BY <1>3, <2>4, <3>1
    <3>3. PICK c \in Loops : Up[c] = k /\ p \in Under[c]
      BY <1>1, <3>1, <3>2, UnderIs
    <3>4. Within[p] \subseteq Within[c] /\ Within[c] = fn.loops[c].blocks
      BY <1>1, <3>3, UnderIs, LayoutIs DEF Places
    <3>5. Within[k] \subseteq Within[p]
      BY <1>3, <2>1, <2>6 DEF Inside
    <3>6. fn.loops[c].parent = k
      BY <3>3 DEF Up
    <3>7. ~HasCallees(k)
      BY <1>3, <3>3, <3>4, <3>5, <3>6 DEF HasCallees
    <3> QED BY <3>7 DEF Owners
  <2>7. Owners(b) # {} /\ {l \in Owners(b) : \A k \in Owners(b) : Inside(l, k)} = {p}
    BY <2>3, <2>5, <2>6
  <2>8. Above[b] = {p}
    BY <2>7 DEF Above
  <2> QED BY <2>8 DEF p
<1> QED BY <1>5, <1>6

\* What is visited only grows while calls are extracted, and so does what is done with.
LEMMA ThroughStays ==
    ASSUME fn' = fn, visited \subseteq visited', MadeOf("loop")' = MadeOf("loop"), NEW k, Through(k)
    PROVE  (Through(k))'
<1>1. Callers' = Callers /\ Within' = Within
  BY SameFunction
<1> QED BY <1>1 DEF Through

\* A block is visited, and gets a vertex if it is a call seen for the first time.
LEMMA ExtractCallOK == ASSUME FInv, ExtractCall PROVE FInv'
<1> DEFINE t == todo[1]
           p == Of(t)
           b == t.blocks[1]
           x == [kind |-> "call", of |-> b, saddr |-> Blocks[b].last, eaddr |-> Blocks[b].last]
           first == b \notin visited /\ Blocks[b].call
<1>1. /\ todo # <<>> /\ t.do = "calls" /\ t.blocks # <<>>
      /\ IF first THEN Added(x, t.at) ELSE UNCHANGED <<vertex, edge>>
      /\ visited' = visited \cup {b}
      /\ todo' = [todo EXCEPT ![1].blocks = Tail(@)]
      /\ fn' = fn
  BY DEF ExtractCall
<1>2. /\ fn \in Functions /\ 1 \in DOMAIN todo /\ todo \in Seq(Task) /\ t \in Task
      /\ \A i \in DOMAIN todo : todo[i] \in Task /\ TaskFits(todo[i])
      /\ DOMAIN todo = 1..Len(todo) /\ Len(todo) \in Nat
      /\ visited \subseteq DOMAIN Blocks
      /\ p \in Places /\ Within[p] \subseteq DOMAIN Blocks
  BY <1>1, CallsNext
<1>3. VerticesOK /\ EdgesOK /\ TodoOK
  BY DEF FInv
<1>4. /\ t.at \in DOMAIN vertex /\ vertex[t.at].kind # "call"
      /\ p \in Callers
      /\ \A i \in DOMAIN t.blocks : t.blocks[i] \in Within[p]
      /\ \A a \in Within[p] \ visited : \E i \in DOMAIN t.blocks : t.blocks[i] = a
  BY <1>1, <1>2 DEF TaskFits
<1>5. /\ t.blocks \in Seq(DOMAIN Blocks) /\ 1 \in DOMAIN t.blocks
      /\ Tail(t.blocks) \in Seq(DOMAIN Blocks)
      /\ \A i \in DOMAIN t.blocks : i # 1 => i - 1 \in DOMAIN Tail(t.blocks) /\ Tail(t.blocks)[i - 1] = t.blocks[i]
      /\ \A i \in DOMAIN Tail(t.blocks) : i + 1 \in DOMAIN t.blocks /\ Tail(t.blocks)[i] = t.blocks[i + 1]
  <2>1. t.blocks \in Seq(DOMAIN Blocks) /\ t.blocks # <<>>
    BY <1>1, <1>2 DEF Task
  <2>2. \A S : \A s \in Seq(S) : s # <<>> =>
            /\ 1 \in DOMAIN s /\ Tail(s) \in Seq(S)
            /\ \A i \in DOMAIN s : i # 1 => i - 1 \in DOMAIN Tail(s) /\ Tail(s)[i - 1] = s[i]
            /\ \A i \in DOMAIN Tail(s) : i + 1 \in DOMAIN s /\ Tail(s)[i] = s[i + 1]
    OBVIOUS
  <2> QED BY <2>1, <2>2
<1>6. b \in Within[p] /\ b \in DOMAIN Blocks
  BY <1>2, <1>4, <1>5
<1>7. x.kind = "call" /\ x.of = b
  OBVIOUS
<1>24. fn.shared \subseteq visited
  BY DEF FInv
<1>8. first => b \in TheCalls /\ Above[b] = {p}
  <2> HIDE DEF p
  <2>1. first => b \in TheCalls
    BY <1>6, <1>24 DEF TheCalls
  <2>2. ASSUME first PROVE Above[b] = {Of(t)}
    BY <1>1, <1>6, <2>1, <2>2, OwnerIs DEF p
  <2> QED BY <2>1, <2>2 DEF p
<1> HIDE DEF x, p, b
\* the vertices
<1>9. /\ VerticesOK' /\ EdgesOK'
      /\ \A v \in DOMAIN vertex : v \in DOMAIN vertex' /\ vertex'[v] = vertex[v]
      /\ MadeOf("loop")' = MadeOf("loop")
      /\ MadeOf("call")' = (IF first THEN With(MadeOf("call"), b) ELSE MadeOf("call"))
      /\ Size' = (IF first THEN Size + 1 ELSE Size)
      /\ Below' = (IF first THEN With(Below, <<p, "call", b>>) ELSE Below)
  <2>1. CASE first
    <3>1. /\ VerticesOK' /\ EdgesOK' /\ Size' = Size + 1 /\ DOMAIN vertex' = 0..Size
          /\ \A v \in DOMAIN vertex : vertex'[v] = vertex[v]
          /\ Below' = Below \cup {<<vertex[t.at].of, "call", b>>}
          /\ \A kind : MadeOf(kind)' = MadeOf(kind) \cup (IF kind = "call" THEN {b} ELSE {})
      BY <1>1, <1>3, <1>4, <1>7, <1>8, <2>1, AddedIs
    <3>2. DOMAIN vertex \subseteq DOMAIN vertex'
      BY <1>3, <3>1 DEF VerticesOK
    <3>3. MadeOf("loop")' = MadeOf("loop") /\ MadeOf("call")' = With(MadeOf("call"), b)
      BY <3>1 DEF With
    <3>4. Below' = With(Below, <<p, "call", b>>)
      BY <3>1 DEF p, Of, With
    <3> QED BY <2>1, <3>1, <3>2, <3>3, <3>4
  <2>2. CASE ~first
    <3>1. vertex' = vertex /\ edge' = edge /\ fn' = fn
      BY <1>1, <2>2
    <3>2. Size' = Size /\ Below' = Below /\ MadeOf("loop")' = MadeOf("loop") /\ MadeOf("call")' = MadeOf("call")
      BY <3>1 DEF Size, Below, MadeOf
    <3>3. VerticesOK'
      BY <1>3, <3>1, <3>2, SameFunction DEF VerticesOK
    <3>4. EdgesOK'
      BY <1>3, <3>1 DEF EdgesOK
    <3> QED BY <2>2, <3>1, <3>2, <3>3, <3>4
  <2> QED BY <2>1, <2>2
<1>10. /\ Under' = Under /\ Up' = Up /\ Within' = Within /\ Callers' = Callers /\ Loops' = Loops /\ Places' = Places
       /\ Task' = Task /\ Blocks' = Blocks /\ TheCalls' = TheCalls /\ Above' = Above
  BY <1>1, SameFunction
\* the list
<1>11. /\ todo' \in Seq(Task) /\ DOMAIN todo' = DOMAIN todo
       /\ \A i \in DOMAIN todo : /\ todo'[i].do = todo[i].do /\ todo'[i].of = todo[i].of /\ todo'[i].at = todo[i].at
                                 /\ i # 1 => todo'[i] = todo[i]
       /\ todo'[1].blocks = Tail(t.blocks)
  <2>1. todo' = [todo EXCEPT ![1] = [t EXCEPT !.blocks = Tail(t.blocks)]]
    BY <1>1
  <2>2. [t EXCEPT !.blocks = Tail(t.blocks)] \in Task
    BY <1>2, <1>5 DEF Task
  <2>3. t = todo[1] /\ t \in Task
    BY <1>2
  <2> DEFINE u == [t EXCEPT !.blocks = Tail(t.blocks)]
  <2>4. u.do = t.do /\ u.of = t.of /\ u.at = t.at /\ u.blocks = Tail(t.blocks)
    BY <2>3 DEF Task
  <2>5. u \in Task /\ todo' = [todo EXCEPT ![1] = u]
    BY <2>1, <2>2
  <2> HIDE DEF u
  <2> QED BY <1>2, <2>4, <2>5
<1> DEFINE of(u) == vertex'[u.at].of
           ext(u) == IF u.do = "loop" THEN Under[u.of] ELSE {of(u)}
<1>12. \A i \in DOMAIN todo : of(todo'[i]) = Of(todo[i]) /\ ext(todo'[i]) = Extent(todo[i])
  <2> SUFFICES ASSUME NEW i \in DOMAIN todo PROVE of(todo'[i]) = Of(todo[i]) /\ ext(todo'[i]) = Extent(todo[i])
    OBVIOUS
  <2>1. todo[i].at \in DOMAIN vertex
    BY <1>2 DEF TaskFits
  <2>2. todo'[i].do = todo[i].do /\ todo'[i].of = todo[i].of /\ todo'[i].at = todo[i].at
    BY <1>11
  <2>3. of(todo'[i]) = Of(todo[i])
    BY <1>9, <2>1, <2>2 DEF Of
  <2> HIDE DEF of
  <2> QED BY <2>2, <2>3 DEF Extent, Part
<1> HIDE DEF ext, of
<1>13. ASSUME NEW i \in DOMAIN todo', NEW u, u = todo'[i]
       PROVE  /\ u.at \in DOMAIN vertex' /\ vertex'[u.at].kind # "call"
              /\ u.do = "loop" => u.of \in Loops /\ of(u) = Up[u.of]
              /\ u.do = "calls" => /\ of(u) \in Callers
                                   /\ \A m \in DOMAIN u.blocks : u.blocks[m] \in Within[of(u)]
                                   /\ \A a \in Within[of(u)] \ visited' : \E m \in DOMAIN u.blocks : u.blocks[m] = a
  <2>1. TaskFits(todo[i]) /\ i \in DOMAIN todo
    BY <1>2, <1>11
  <2>2. /\ u.at \in DOMAIN vertex' /\ vertex'[u.at].kind # "call"
        /\ u.do = "loop" => u.of \in Loops /\ of(u) = Up[u.of]
    BY <1>9, <1>11, <1>12, <1>13, <2>1 DEF TaskFits
  <2>3. CASE i = 1
    <3>1. u.blocks = Tail(t.blocks) /\ of(u) = p
      BY <1>11, <1>12, <1>13, <2>1, <2>3 DEF p
    <3>2. \A m \in DOMAIN u.blocks : u.blocks[m] \in Within[p]
      BY <1>4, <1>5, <3>1
    <3>3. ASSUME NEW a \in Within[p] \ visited' PROVE \E m \in DOMAIN u.blocks : u.blocks[m] = a
      <4>1. a # b /\ a \in Within[p] \ visited
        BY <1>1
      <4>2. PICK m \in DOMAIN t.blocks : t.blocks[m] = a
        BY <1>4, <4>1
      <4>3. m # 1
        BY <4>1, <4>2 DEF b
      <4> QED BY <1>5, <3>1, <4>2, <4>3
    <3> QED BY <1>4, <2>2, <3>1, <3>2, <3>3
  <2>4. CASE i # 1
    <3>1. u = todo[i] /\ of(u) = Of(u)
      BY <1>11, <1>12, <1>13, <2>1, <2>4
    <3> QED BY <1>1, <2>1, <2>2, <3>1 DEF TaskFits
  <2> QED BY <2>3, <2>4
<1>14. (\A i \in DOMAIN todo : TaskFits(todo[i]))'
  <2>1. ASSUME NEW i \in DOMAIN todo' PROVE (TaskFits(todo[i]))'
    <3> DEFINE u == todo'[i]
    <3>1. /\ u.at \in DOMAIN vertex' /\ vertex'[u.at].kind # "call"
          /\ u.do = "loop" => u.of \in Loops /\ of(u) = Up[u.of]
          /\ u.do = "calls" => /\ of(u) \in Callers
                               /\ \A m \in DOMAIN u.blocks : u.blocks[m] \in Within[of(u)]
                               /\ \A a \in Within[of(u)] \ visited' : \E m \in DOMAIN u.blocks : u.blocks[m] = a
      <4>1. u = todo'[i]
        OBVIOUS
      <4> HIDE DEF u
      <4> QED BY <1>13, <4>1
    <3> QED BY <1>10, <3>1, Zenon DEF TaskFits, Of, of
  <2> QED BY <2>1
<1>15. TasksApart'
  <2>1. \A i, j \in DOMAIN todo' : i < j =>
           /\ ext(todo'[i]) \cap ext(todo'[j]) = {}
           /\ todo'[i].do = "calls" => ext(todo'[j]) \cap Under[of(todo'[i])] = {}
    BY <1>3, <1>11, <1>12 DEF TodoOK, TasksApart
  <2> QED BY <1>10, <2>1 DEF TasksApart, Extent, Part, Of, ext, of
<1>16. PlacesCovered'
  <2>1. ASSUME NEW k \in Places PROVE (Through(k))' \/ \E i \in DOMAIN todo' : k \in ext(todo'[i])
    <3>1. CASE Through(k)
      BY <1>1, <1>9, <3>1, ThroughStays
    <3>2. CASE \E i \in DOMAIN todo : k \in Extent(todo[i])
      BY <1>11, <1>12, <3>2
    <3> QED BY <1>3, <3>1, <3>2 DEF TodoOK, PlacesCovered
  <2> QED BY <1>10, <2>1 DEF PlacesCovered, Extent, Part, Of, ext, of
<1>17. (\A i \in DOMAIN todo : todo[i].do = "loop" => Extent(todo[i]) \cap MadeOf("loop") = {})'
  <2>1. \A i \in DOMAIN todo' : todo'[i].do = "loop" => ext(todo'[i]) \cap MadeOf("loop")' = {}
    BY <1>3, <1>9, <1>11, <1>12 DEF TodoOK
  <2> QED BY <1>10, <2>1 DEF Extent, Part, Of, ext, of
<1>18. Size = 1 + Cardinality(MadeOf("loop")) + Cardinality(MadeOf("call"))
       /\ Below = Nesting(MadeOf("loop"), MadeOf("call")) /\ MadeOf("call") = TheCalls \cap visited
  BY <1>3 DEF TodoOK, Extracted
<1>19. Size' = 1 + Cardinality(MadeOf("loop")') + Cardinality(MadeOf("call")')
  <2>1. IsFiniteSet(MadeOf("call")) /\ Cardinality(MadeOf("loop")) \in Nat /\ Cardinality(MadeOf("call")) \in Nat
    BY <1>2, <1>3, MadeIsFinite
  <2>2. CASE first
    <3>1. b \notin MadeOf("call")
      BY <1>18, <2>2
    <3>2. Cardinality(MadeOf("call") \cup {b}) = Cardinality(MadeOf("call")) + 1
      BY <2>1, <3>1, FS_AddElement
    <3>3. Cardinality(MadeOf("call")') = Cardinality(MadeOf("call")) + 1
      BY <1>9, <2>2, <3>2 DEF With
    <3>4. Cardinality(MadeOf("loop")') = Cardinality(MadeOf("loop")) /\ Size' = Size + 1
      BY <1>9, <2>2
    <3> QED BY <1>18, <2>1, <3>3, <3>4
  <2>3. CASE ~first
    <3>1. /\ Cardinality(MadeOf("loop")') = Cardinality(MadeOf("loop")) /\ Size' = Size
          /\ Cardinality(MadeOf("call")') = Cardinality(MadeOf("call"))
      BY <1>9, <2>3
    <3> QED BY <1>18, <3>1
  <2> QED BY <2>2, <2>3
<1>20. Below' = Nesting(MadeOf("loop")', MadeOf("call")')
  <2>1. CASE first
    <3>1. Below' = With(Below, <<p, "call", b>>)
      BY <1>9, <2>1
    <3>2. MadeOf("loop")' = MadeOf("loop") /\ MadeOf("call")' = With(MadeOf("call"), b)
      BY <1>9, <2>1
    <3>3. Nesting(MadeOf("loop"), With(MadeOf("call"), b))
            = With(Nesting(MadeOf("loop"), MadeOf("call")), <<p, "call", b>>)
      BY <1>8, <2>1, CallNested
    <3> QED BY <1>18, <3>1, <3>2, <3>3
  <2>2. CASE ~first
    BY <1>9, <1>18, <2>2
  <2> QED BY <2>1, <2>2
<1>21. (Extracted(MadeOf("loop"), MadeOf("call")))'
  <2>1. Below' = (Nesting(MadeOf("loop"), MadeOf("call")))'
    BY <1>10, <1>20 DEF Nesting
  <2> QED BY <1>19, <2>1 DEF Extracted
<1>22. MadeOf("call")' = TheCalls' \cap visited' /\ visited' \subseteq DOMAIN Blocks'
  <2>1. visited' \subseteq DOMAIN Blocks'
    BY <1>1, <1>2, <1>6, <1>10
  <2>2. b \notin visited => (b \in TheCalls <=> Blocks[b].call)
    BY <1>6, <1>24 DEF TheCalls
  <2>3. MadeOf("call")' = TheCalls \cap visited'
    BY <1>1, <1>9, <1>18, <2>2 DEF With
  <2> QED BY <1>10, <2>1, <2>3
<1>23. TodoOK'
  BY <1>10, <1>11, <1>14, <1>15, <1>16, <1>17, <1>21, <1>22 DEF TodoOK
<1> QED BY <1>1, <1>2, <1>9, <1>23, <1>24 DEF FInv

\* The calls of a place are done with: so is the place.
LEMMA CallsExtractedOK == ASSUME FInv, CallsExtracted PROVE FInv'
<1> DEFINE t == todo[1]
           p == Of(t)
<1>1. /\ todo # <<>> /\ t.do = "calls" /\ t.blocks = <<>> /\ todo' = Tail(todo)
      /\ fn' = fn /\ visited' = visited /\ vertex' = vertex /\ edge' = edge
  BY DEF CallsExtracted
<1>2. /\ fn \in Functions /\ todo \in Seq(Task) /\ 1 \in DOMAIN todo
      /\ \A i \in DOMAIN todo : todo[i] \in Task /\ TaskFits(todo[i])
      /\ DOMAIN todo = 1..Len(todo) /\ Len(todo) \in Nat
      /\ p = 0 \/ p \in MadeOf("loop")
      /\ Extent(t) = {p}
  BY <1>1, CallsNext
<1>3. VerticesOK /\ EdgesOK /\ TodoOK
  BY DEF FInv
<1>4. Through(p)
  <2>1. \A a \in Within[p] \ visited : \E i \in DOMAIN t.blocks : t.blocks[i] = a
    BY <1>1, <1>2 DEF TaskFits
  <2>2. Within[p] \subseteq visited
    BY <1>1, <2>1
  <2> QED BY <1>2, <2>2 DEF Through
<1> HIDE DEF p
<1>5. /\ Under' = Under /\ Up' = Up /\ Within' = Within /\ Callers' = Callers /\ Loops' = Loops /\ Places' = Places
      /\ Task' = Task /\ Blocks' = Blocks /\ TheCalls' = TheCalls /\ Above' = Above
  BY <1>1, SameFunction
<1>6. /\ todo' \in Seq(Task) /\ DOMAIN todo' \subseteq Nat
      /\ \A i \in DOMAIN todo' : i + 1 \in DOMAIN todo /\ todo'[i] = todo[i + 1]
      /\ \A i \in DOMAIN todo : i # 1 => i - 1 \in DOMAIN todo' /\ todo'[i - 1] = todo[i]
  BY <1>1, <1>2
<1>7. /\ Size' = Size /\ Below' = Below /\ MadeOf("loop")' = MadeOf("loop") /\ MadeOf("call")' = MadeOf("call")
  BY <1>1 DEF Size, Below, MadeOf
<1>8. VerticesOK' /\ EdgesOK'
  BY <1>1, <1>3, <1>5, <1>7 DEF VerticesOK, EdgesOK
<1>9. \A k : (Through(k))' <=> Through(k)
  BY <1>1, <1>5, <1>7 DEF Through
<1> DEFINE of(u) == vertex[u.at].of
           ext(u) == IF u.do = "loop" THEN Under[u.of] ELSE {of(u)}
<1>10. \A u : of(u) = Of(u) /\ ext(u) = Extent(u)
  BY DEF Of, Extent, Part
<1> HIDE DEF ext, of
<1>11. (\A i \in DOMAIN todo : TaskFits(todo[i]))'
  <2>1. ASSUME NEW i \in DOMAIN todo' PROVE (TaskFits(todo[i]))'
    <3> DEFINE u == todo'[i]
    <3>1. TaskFits(u)
      BY <1>2, <1>6
    <3>2. /\ u.at \in DOMAIN vertex /\ vertex[u.at].kind # "call"
          /\ u.do = "loop" => u.of \in Loops /\ vertex[u.at].of = Up[u.of]
          /\ u.do = "calls" => /\ vertex[u.at].of \in Callers
                               /\ \A m \in DOMAIN u.blocks : u.blocks[m] \in Within[vertex[u.at].of]
                               /\ \A a \in Within[vertex[u.at].of] \ visited : \E m \in DOMAIN u.blocks : u.blocks[m] = a
      <4> HIDE DEF u
      <4> QED BY <3>1 DEF TaskFits, Of
    <3> QED BY <1>1, <1>5, <3>2, Zenon DEF TaskFits, Of
  <2> QED BY <2>1
<1>12. TasksApart'
  <2>1. ASSUME NEW i \in DOMAIN todo', NEW j \in DOMAIN todo', i < j
        PROVE  /\ ext(todo'[i]) \cap ext(todo'[j]) = {}
               /\ todo'[i].do = "calls" => ext(todo'[j]) \cap Under[of(todo'[i])] = {}
    <3>1. /\ i + 1 \in DOMAIN todo /\ j + 1 \in DOMAIN todo /\ i + 1 < j + 1
          /\ todo'[i] = todo[i + 1] /\ todo'[j] = todo[j + 1]
      BY <1>6, <2>1
    <3> QED BY <1>3, <1>10, <3>1 DEF TodoOK, TasksApart
  <2> QED BY <1>1, <1>5, <2>1, SMTT(60) DEF TasksApart, Extent, Part, Of, ext, of
<1>13. PlacesCovered'
  <2>1. ASSUME NEW k \in Places PROVE (Through(k))' \/ \E i \in DOMAIN todo' : k \in ext(todo'[i])
    <3>1. CASE Through(k)
      BY <1>9, <3>1
    <3>2. CASE \E i \in DOMAIN todo : k \in Extent(todo[i])
      <4>1. PICK i \in DOMAIN todo : k \in Extent(todo[i])
        BY <3>2
      <4>2. CASE i = 1
        BY <1>2, <1>4, <1>9, <4>1, <4>2
      <4>3. CASE i # 1
        BY <1>6, <1>10, <4>1, <4>3
      <4> QED BY <4>2, <4>3
    <3> QED BY <1>3, <3>1, <3>2 DEF TodoOK, PlacesCovered
  <2> QED BY <1>1, <1>5, <2>1 DEF PlacesCovered, Extent, Part, Of, ext, of
<1>14. (\A i \in DOMAIN todo : todo[i].do = "loop" => Extent(todo[i]) \cap MadeOf("loop") = {})'
  <2>1. \A i \in DOMAIN todo' : todo'[i].do = "loop" => ext(todo'[i]) \cap MadeOf("loop")' = {}
    BY <1>3, <1>6, <1>7, <1>10 DEF TodoOK
  <2> QED BY <1>1, <1>5, <2>1 DEF Extent, Part, Of, ext, of
<1>15. (Extracted(MadeOf("loop"), MadeOf("call")))'
  <2>1. Below' = (Nesting(MadeOf("loop"), MadeOf("call")))'
    BY <1>3, <1>5, <1>7 DEF TodoOK, Extracted, Nesting
  <2>2. Size' = 1 + Cardinality(MadeOf("loop")') + Cardinality(MadeOf("call")')
    BY <1>3, <1>7 DEF TodoOK, Extracted
  <2> QED BY <2>1, <2>2 DEF Extracted
<1>16. MadeOf("call")' = TheCalls' \cap visited' /\ visited' \subseteq DOMAIN Blocks'
  BY <1>1, <1>3, <1>5, <1>7 DEF TodoOK
<1>17. TodoOK'
  BY <1>5, <1>6, <1>11, <1>12, <1>13, <1>14, <1>15, <1>16 DEF TodoOK
<1>18. fn.shared \subseteq visited
  BY DEF FInv
<1> QED BY <1>1, <1>2, <1>8, <1>17, <1>18 DEF FInv

\* Sorting gives each child the attributes and the children of another: a renaming.
LEMMA Renamed ==
    ASSUME VerticesOK, EdgesOK, NEW C \in SUBSET (DOMAIN vertex), NEW ids, ids = Ascending(C),
           NEW order \in Orders(ids), Permute(ids, order)
    PROVE  \E r \in [DOMAIN vertex -> DOMAIN vertex] :
              /\ \A w \in DOMAIN vertex : (r[w] \in C <=> w \in C) /\ (w \notin C => r[w] = w)
              /\ \A v, w \in DOMAIN vertex : r[v] = r[w] => v = w
              /\ \A v \in DOMAIN vertex : \E w \in DOMAIN vertex : r[w] = v
              /\ DOMAIN vertex' = DOMAIN vertex /\ \A w \in DOMAIN vertex : vertex'[w] = vertex[r[w]]
              /\ edge' \subseteq (DOMAIN vertex) \X (DOMAIN vertex)
              /\ \A v, w \in DOMAIN vertex : <<v, w>> \in edge' <=> <<r[v], w>> \in edge
<1> DEFINE D == DOMAIN vertex
           at(c) == CHOOSE i \in DOMAIN ids : ids[i] = c
           s == [c \in C |-> order[at(c)]]
           r == [w \in D |-> IF w \in C THEN s[w] ELSE w]
<1>1. IsFiniteSet(C) /\ C \in SUBSET Int
  <2>1. Size \in Nat /\ D = 0..(Size - 1) /\ 0 \in Int /\ Size - 1 \in Int
    BY DEF VerticesOK
  <2>2. IsFiniteSet(0..(Size - 1))
    BY <2>1, FS_Interval
  <2>3. C \subseteq 0..(Size - 1) /\ C \in SUBSET Int
    BY <2>1
  <2> QED BY <2>2, <2>3, FS_Subset
<1>2. /\ Cardinality(C) \in Nat /\ ids \in Seq(C) /\ DOMAIN ids = 1..Cardinality(C)
      /\ \A m, n \in 1..Cardinality(C) : m < n => ids[m] < ids[n]
      /\ \A c \in C : \E i \in 1..Cardinality(C) : ids[i] = c
  BY <1>1, AscendingIs
<1>3. \A i \in DOMAIN ids : ids[i] \in C
  BY <1>2
<1>4. Range(ids) = C
  BY <1>2, <1>3 DEF Range
<1>5. \A i, j \in DOMAIN ids : ids[i] = ids[j] => i = j
  <2> SUFFICES ASSUME NEW i \in 1..Cardinality(C), NEW j \in 1..Cardinality(C), ids[i] = ids[j] PROVE i = j
    BY <1>2
  <2>1. ids[i] \in Int /\ ids[j] \in Int
    BY <1>1, <1>2, <1>3
  <2>2. ~(i < j) /\ ~(j < i)
    <3>1. ~(ids[i] < ids[j]) /\ ~(ids[j] < ids[i])
      BY <2>1
    <3> QED BY <1>2, <3>1
  <2> QED BY <1>2, <2>2
<1>6. order \in [DOMAIN ids -> C] /\ \A i, j \in DOMAIN ids : order[i] = order[j] => i = j
  BY <1>4 DEF Orders, IsInjective
<1>7. /\ \A c \in C : at(c) \in DOMAIN ids /\ ids[at(c)] = c
      /\ \A i \in DOMAIN ids : at(ids[i]) = i
  <2>1. \A c \in C : at(c) \in DOMAIN ids /\ ids[at(c)] = c
    BY <1>2
  <2> HIDE DEF at
  <2> QED BY <1>3, <1>5, <2>1
<1>8. /\ DOMAIN vertex' = D
      /\ \A w \in D : vertex'[w] = IF w \in C THEN vertex[order[at(w)]] ELSE vertex[w]
      /\ edge' = {e \in edge : e[1] \notin C}
                 \cup UNION {{<<ids[i], e[2]>> : e \in {d \in edge : d[1] = order[i]}} : i \in DOMAIN ids}
  BY <1>4 DEF Permute
<1> HIDE DEF at
<1>9. s \in [C -> C] /\ \A c \in C : s[c] = order[at(c)]
  BY <1>6, <1>7
<1>10. \A b, c \in C : s[b] = s[c] => b = c
  <2> SUFFICES ASSUME NEW b \in C, NEW c \in C, s[b] = s[c] PROVE b = c
    OBVIOUS
  <2>1. order[at(b)] = order[at(c)]
    BY <1>9
  <2>2. at(b) = at(c)
    BY <1>6, <1>7, <2>1
  <2> QED BY <1>7, <2>2
<1> HIDE DEF s
<1>11. \A b \in C : \E c \in C : s[c] = b
  <2>1. s \in Injection(C, C)
    BY <1>9, <1>10 DEF Injection, IsInjective
  <2>2. s \in Surjection(C, C)
    BY <1>1, <2>1, FS_Injection
  <2> QED BY <2>2 DEF Surjection
<1>12. /\ r \in [D -> D]
       /\ \A w \in C : r[w] = s[w] /\ r[w] \in C
       /\ \A w \in D \ C : r[w] = w
  BY <1>9
<1>13. edge \subseteq D \X D
  BY DEF EdgesOK
<1> HIDE DEF r, D
<1>14. C \subseteq D
  BY DEF D
<1>15. \A w \in D : (r[w] \in C <=> w \in C) /\ (w \notin C => r[w] = w)
  BY <1>12
<1>16. \A v, w \in D : r[v] = r[w] => v = w
  BY <1>10, <1>12
<1>17. \A v \in D : \E w \in D : r[w] = v
  BY <1>11, <1>12, <1>14
<1>18. \A w \in D : vertex'[w] = vertex[r[w]]
  BY <1>8, <1>9, <1>12
<1>19. \A x : x \in edge' <=> \/ x \in edge /\ x[1] \notin C
                              \/ \E i \in DOMAIN ids : \E e \in edge : e[1] = order[i] /\ x = <<ids[i], e[2]>>
  BY <1>8
<1>20. edge' \subseteq D \X D
  BY <1>3, <1>13, <1>14, <1>19
<1>21. ASSUME NEW v \in D, NEW w \in D PROVE <<v, w>> \in edge' <=> <<r[v], w>> \in edge
  <2>1. CASE v \notin C
    <3>1. r[v] = v
      BY <1>12, <2>1
    <3>2. \A i \in DOMAIN ids : ids[i] # v
      BY <1>3, <2>1
    <3> QED BY <1>19, <2>1, <3>1, <3>2
  <2>2. CASE v \in C
    <3>1. r[v] = order[at(v)] /\ at(v) \in DOMAIN ids /\ ids[at(v)] = v
      BY <1>7, <1>9, <1>12, <2>2
    <3>2. ASSUME <<r[v], w>> \in edge PROVE <<v, w>> \in edge'
      BY <1>19, <3>1, <3>2
    <3>3. ASSUME <<v, w>> \in edge' PROVE <<r[v], w>> \in edge
      <4>1. PICK i \in DOMAIN ids, e \in edge : e[1] = order[i] /\ <<v, w>> = <<ids[i], e[2]>>
        BY <1>19, <2>2, <3>3
      <4>2. i = at(v) /\ e[1] = r[v] /\ e[2] = w
        BY <1>5, <3>1, <4>1
      <4>3. e = <<e[1], e[2]>>
        BY <1>13
      <4> QED BY <4>2, <4>3
    <3> QED BY <3>2, <3>3
  <2> QED BY <2>1, <2>2
<1> QED BY <1>8, <1>12, <1>15, <1>16, <1>17, <1>18, <1>20, <1>21 DEF D

\* The children of a vertex change places, with all that hangs below them.
LEMMA SortChildrenOK == ASSUME FInv, SortChildren PROVE FInv'
<1> DEFINE v == queue[1]
           D == DOMAIN vertex
           C == {e[2] : e \in {d \in edge : d[1] = v}}
           label(e) == <<vertex[e[1]].of, vertex[e[2]].kind, vertex[e[2]].of>>
           relabel(e) == <<vertex'[e[1]].of, vertex'[e[2]].kind, vertex'[e[2]].of>>
<1>1. fn \in Functions /\ VerticesOK /\ EdgesOK /\ TodoOK
  BY DEF FInv
<1>2. todo = <<>> /\ todo' = <<>> /\ fn' = fn /\ visited' = visited
  BY DEF SortChildren
<1>3. C \in SUBSET D /\ edge \subseteq D \X D
  BY <1>1 DEF EdgesOK
<1>4. PICK order \in Orders(Ascending(C)) : Permute(Ascending(C), order)
  BY DEF SortChildren, Children
<1>5. PICK r \in [D -> D] :
              /\ \A w \in D : (r[w] \in C <=> w \in C) /\ (w \notin C => r[w] = w)
              /\ \A u, w \in D : r[u] = r[w] => u = w
              /\ \A u \in D : \E w \in D : r[w] = u
              /\ DOMAIN vertex' = D /\ \A w \in D : vertex'[w] = vertex[r[w]]
              /\ edge' \subseteq D \X D
              /\ \A u, w \in D : <<u, w>> \in edge' <=> <<r[u], w>> \in edge
  <2> HIDE DEF C
  <2> QED BY <1>1, <1>3, <1>4, Renamed
<1>6. \A c \in C : <<v, c>> \in edge /\ \A u \in D : <<u, c>> \in edge => u = v
  <2> SUFFICES ASSUME NEW c \in C PROVE <<v, c>> \in edge /\ \A u \in D : <<u, c>> \in edge => u = v
    OBVIOUS
  <2>1. PICK e \in edge : e[1] = v /\ e[2] = c
    OBVIOUS
  <2>2. e = <<v, c>>
    BY <1>3, <2>1
  <2> QED BY <1>1, <2>2 DEF EdgesOK
<1>7. \A c \in C : c # v
  BY <1>1, <1>6 DEF EdgesOK
<1>8. \A w : <<v, w>> \in edge => w \in C
  OBVIOUS
<1> HIDE DEF C, D, v
<1>9. ASSUME C # {} PROVE v \in D /\ r[v] = v
  <2>1. PICK c \in C : <<v, c>> \in edge
    BY <1>6, <1>9
  <2>2. v \in D /\ v \notin C
    BY <1>3, <1>7, <2>1
  <2> QED BY <1>5, <2>2
<1>10. Size' = Size
  BY <1>5 DEF Size, D
<1>11. VerticesOK'
  <2>1. DOMAIN vertex' = 0..(Size' - 1) /\ Size' \in Nat \ {0}
    BY <1>1, <1>5, <1>10 DEF VerticesOK, D
  <2>2. \A w \in DOMAIN vertex' : r[w] \in D /\ vertex'[w] = vertex[r[w]]
    BY <1>5
  <2>3. Loops' = Loops /\ TheCalls' = TheCalls
    BY <1>2, SameFunction
  <2>4. ASSUME NEW w \in DOMAIN vertex'
        PROVE  \/ vertex'[w].kind = "function" /\ vertex'[w].of = 0
               \/ vertex'[w].kind = "loop" /\ vertex'[w].of \in Loops
               \/ vertex'[w].kind = "call" /\ vertex'[w].of \in TheCalls
    <3>1. \A u \in D : \/ vertex[u].kind = "function" /\ vertex[u].of = 0
                       \/ vertex[u].kind = "loop" /\ vertex[u].of \in Loops
                       \/ vertex[u].kind = "call" /\ vertex[u].of \in TheCalls
      BY <1>1 DEF VerticesOK, D
    <3>2. r[w] \in D /\ vertex'[w] = vertex[r[w]]
      BY <2>2
    <3> QED BY <3>1, <3>2
  <2> QED BY <2>1, <2>3, <2>4 DEF VerticesOK
<1>12. EdgesOK'
  <2>1. \A e \in edge' : e[1] \in D /\ e[2] \in D /\ e = <<e[1], e[2]>> /\ <<r[e[1]], e[2]>> \in edge
    BY <1>5
  <2>2. ASSUME NEW e \in edge' PROVE e[1] # e[2] /\ vertex'[e[1]].kind # "call"
    <3>1. vertex'[e[1]].kind # "call"
      <4>1. e[1] \in D /\ vertex'[e[1]] = vertex[r[e[1]]] /\ <<r[e[1]], e[2]>> \in edge
        BY <1>5, <2>1
      <4>2. \A d \in edge : vertex[d[1]].kind # "call"
        BY <1>1 DEF EdgesOK
      <4>3. vertex[<<r[e[1]], e[2]>>[1]].kind # "call"
        BY <4>1, <4>2
      <4> QED BY <4>1, <4>3
    <3>2. SUFFICES ASSUME e[1] = e[2] PROVE FALSE
      BY <3>1
    <3>3. CASE e[1] \in C
      <4>1. r[e[1]] = v /\ r[e[1]] \in C
        BY <1>5, <1>6, <2>1, <3>2, <3>3, ZenonT(60)
      <4> QED BY <1>7, <4>1
    <3>4. CASE e[1] \notin C
      <4>1. <<e[1], e[1]>> \in edge
        BY <1>5, <2>1, <3>2, <3>4
      <4> QED BY <1>1, <4>1 DEF EdgesOK
    <3> QED BY <3>3, <3>4
  <2>3. ASSUME NEW d \in edge', NEW e \in edge', d[2] = e[2] PROVE d = e
    <3>1. <<r[d[1]], d[2]>> = <<r[e[1]], e[2]>>
      BY <1>1, <2>1, <2>3, ZenonT(60) DEF EdgesOK
    <3>2. r[d[1]] = r[e[1]]
      BY <3>1
    <3> QED BY <1>5, <2>1, <2>3, <3>2
  <2> QED BY <1>5, <2>2, <2>3 DEF EdgesOK
<1>13. Below' = Below
  <2>1. Below = {label(e) : e \in edge} /\ Below' = {relabel(e) : e \in edge'}
    BY DEF Below
  <2>2. ASSUME NEW e \in edge' PROVE \E d \in edge : relabel(e) = label(d)
    <3>1. PICK a \in D, b \in D : e = <<a, b>> /\ <<r[a], b>> \in edge
      BY <1>5
    <3>2. relabel(e) = <<vertex[r[a]].of, vertex[r[b]].kind, vertex[r[b]].of>>
      BY <1>5, <3>1
    <3>3. CASE b \in C
      <4>1. r[a] = v /\ r[b] \in C
        BY <1>5, <1>6, <3>1, <3>3
      <4>2. <<v, r[b]>> \in edge
        BY <1>6, <4>1
      <4> QED BY <3>2, <4>1, <4>2
    <3>4. CASE b \notin C
      <4>1. r[b] = b
        BY <1>5, <3>4
      <4> QED BY <3>1, <3>2, <4>1
    <3> QED BY <3>3, <3>4
  <2>3. ASSUME NEW d \in edge PROVE \E e \in edge' : relabel(e) = label(d)
    <3>1. PICK a \in D, b \in D : d = <<a, b>>
      BY <1>3
    <3>2. PICK u \in D, w \in D : r[u] = a /\ r[w] = b
      BY <1>5
    <3>3. vertex'[u] = vertex[a] /\ vertex'[w] = vertex[b]
      BY <1>5, <3>2
    <3>4. <<u, w>> \in edge'
      <4>1. CASE b \in C
        <5>1. a = v /\ w \in C
          <6>1. <<a, b>> \in edge
            BY <3>1
          <6>2. a = v
            BY <1>6, <4>1, <6>1
          <6>3. r[w] \in C
            BY <3>2, <4>1
          <6> QED BY <1>5, <6>2, <6>3
        <5>2. <<v, w>> \in edge
          BY <1>6, <5>1
        <5> QED BY <1>5, <3>2, <5>1, <5>2
      <4>2. CASE b \notin C
        <5>1. w = b
          BY <1>5, <3>2, <4>2
        <5> QED BY <1>5, <3>1, <3>2, <5>1
      <4> QED BY <4>1, <4>2
    <3>5. relabel(<<u, w>>) = label(d)
      BY <3>1, <3>3
    <3> QED BY <3>4, <3>5
  <2> HIDE DEF label, relabel
  <2> QED BY <2>1, <2>2, <2>3
<1>14. ASSUME NEW kind PROVE MadeOf(kind)' = MadeOf(kind)
  <2>1. \A x : x \in MadeOf(kind) <=> \E w \in D : vertex[w].kind = kind /\ x = vertex[w].of
    BY DEF MadeOf, D
  <2>2. \A x : x \in MadeOf(kind)' <=> \E w \in D : vertex'[w].kind = kind /\ x = vertex'[w].of
    BY <1>5 DEF MadeOf
  <2>3. ASSUME NEW w \in D PROVE r[w] \in D /\ vertex'[w] = vertex[r[w]] /\ \E u \in D : vertex'[u] = vertex[w]
    BY <1>5
  <2>4. ASSUME NEW x \in MadeOf(kind)' PROVE x \in MadeOf(kind)
    <3>1. PICK w \in D : vertex'[w].kind = kind /\ x = vertex'[w].of
      BY <2>2
    <3>2. r[w] \in D /\ vertex[r[w]].kind = kind /\ x = vertex[r[w]].of
      BY <2>3, <3>1
    <3> QED BY <2>1, <3>2
  <2>5. ASSUME NEW x \in MadeOf(kind) PROVE x \in MadeOf(kind)'
    <3>1. PICK w \in D : vertex[w].kind = kind /\ x = vertex[w].of
      BY <2>1
    <3>2. PICK u \in D : vertex'[u] = vertex[w]
      BY <2>3
    <3>3. vertex'[u].kind = kind /\ x = vertex'[u].of
      BY <3>1, <3>2
    <3> QED BY <2>2, <3>3
  <2> QED BY <2>4, <2>5
<1>15. TodoOK'
  <2>1. /\ Within' = Within /\ Callers' = Callers /\ Places' = Places /\ Up' = Up /\ Above' = Above
        /\ Blocks' = Blocks /\ TheCalls' = TheCalls /\ Task' = Task
    BY <1>2, SameFunction
  <2>2. \A k \in Places : Through(k)
    BY <1>1, <1>2 DEF TodoOK, PlacesCovered
  <2>3. MadeOf("loop")' = MadeOf("loop") /\ MadeOf("call")' = MadeOf("call")
    BY <1>14
  <2>4. PlacesCovered'
    BY <1>2, <2>1, <2>2, <2>3 DEF PlacesCovered, Through
  <2>5. (Extracted(MadeOf("loop"), MadeOf("call")))'
    <3>1. Below' = (Nesting(MadeOf("loop"), MadeOf("call")))'
      BY <1>1, <1>13, <2>1, <2>3 DEF TodoOK, Extracted, Nesting
    <3>2. Size' = 1 + Cardinality(MadeOf("loop")') + Cardinality(MadeOf("call")')
      BY <1>1, <1>10, <2>3 DEF TodoOK, Extracted
    <3> QED BY <3>1, <3>2 DEF Extracted
  <2>6. TasksApart' /\ todo' \in Seq(Task') /\ visited' \subseteq DOMAIN Blocks'
    BY <1>1, <1>2, <2>1 DEF TodoOK, TasksApart
  <2>7. MadeOf("call")' = TheCalls' \cap visited'
    BY <1>1, <1>2, <2>1, <2>3 DEF TodoOK
  <2>8. DOMAIN todo' = {}
    BY <1>2
  <2> QED BY <2>4, <2>5, <2>6, <2>7, <2>8 DEF TodoOK
<1>16. fn.shared \subseteq visited
  BY DEF FInv
<1> QED BY <1>1, <1>2, <1>11, <1>12, <1>15, <1>16 DEF FInv

\* When nothing is left to do every loop and every call has its vertex.
LEMMA FInvNesting == ASSUME FInv PROVE KeepsNesting
<1>1. SUFFICES ASSUME Dumped PROVE /\ Size = 1 + Cardinality(Loops) + Cardinality(TheCalls)
                                   /\ Below = Nesting(Loops, TheCalls)
                                   /\ \A e \in edge : vertex[e[1]].kind # "call"
  <2>1. Nesting(Loops, TheCalls) = {<<fn.loops[l].parent, "loop", l>> : l \in Loops}
          \cup UNION {{<<a, "call", b>> : a \in IF Owners(b) = {} THEN {0}
                                              ELSE {l \in Owners(b) : \A k \in Owners(b) : Inside(l, k)}} : b \in TheCalls}
    <3>1. {<<Up[l], "loop", l>> : l \in Loops} = {<<fn.loops[l].parent, "loop", l>> : l \in Loops}
      BY DEF Up
    <3> DEFINE A(b) == {<<a, "call", b>> : a \in Above[b]}
               B(b) == {<<a, "call", b>> : a \in IF Owners(b) = {} THEN {0}
                                                ELSE {l \in Owners(b) : \A k \in Owners(b) : Inside(l, k)}}
    <3>2. \A b \in TheCalls : Above[b] = IF Owners(b) = {} THEN {0}
                                         ELSE {l \in Owners(b) : \A k \in Owners(b) : Inside(l, k)}
      BY DEF Above
    <3>3. \A b \in TheCalls : A(b) = B(b)
      BY <3>2
    <3>4. {A(b) : b \in TheCalls} = {B(b) : b \in TheCalls}
      <4> HIDE DEF A, B
      <4> QED BY <3>3
    <3> QED BY <3>1, <3>4, Zenon DEF Nesting
  <2> QED BY <2>1 DEF KeepsNesting, Below
<1>2. fn \in Functions /\ VerticesOK /\ EdgesOK /\ TodoOK /\ todo = <<>>
  BY <1>1 DEF FInv, Dumped
<1>3. \A k \in Places : Through(k)
  BY <1>2 DEF TodoOK, PlacesCovered
<1>4. MadeOf("loop") = Loops
  <2>1. \A k \in Loops : k # 0 /\ k \in Places
    BY <1>2, LayoutIs DEF Places
  <2>2. Loops \subseteq MadeOf("loop")
    BY <1>3, <2>1 DEF Through
  <2> QED BY <1>2, <2>2, MadeIsFinite
<1>5. MadeOf("call") = TheCalls
  <2>1. 0 \in Places /\ 0 \in Callers /\ Within[0] = DOMAIN Blocks
    BY DEF Places, Callers, Within
  <2>2. DOMAIN Blocks \subseteq visited
    BY <1>3, <2>1 DEF Through
  <2> QED BY <1>2, <2>2 DEF TodoOK, TheCalls
<1>6. Extracted(Loops, TheCalls)
  BY <1>2, <1>4, <1>5 DEF TodoOK
<1> QED BY <1>2, <1>6 DEF Extracted, EdgesOK

\* Extraction and sorting leave every loop of a function below the loop around it, and every
\* call in a block that no function analysed earlier has, once, below the innermost loop around
\* it that has calls of its own (132-269; graph.cpp 596-728), whatever blocks the map of the
\* visited ones (static_analysis.h, 46) has from other functions.
THEOREM NestingKept == FunctionSpec => []KeepsNesting
<1>1. FunctionInit => FInv
  BY FunctionInitOK
<1>2. FInv /\ [FunctionNext]_functionVars => FInv'
  <2> SUFFICES ASSUME FInv, [FunctionNext]_functionVars PROVE FInv'
    OBVIOUS
  <2>1. CASE ExtractLoop
    BY <2>1, ExtractLoopOK
  <2>2. CASE ExtractCall
    BY <2>2, ExtractCallOK
  <2>3. CASE CallsExtracted
    BY <2>3, CallsExtractedOK
  <2>4. CASE SortChildren
    BY <2>4, SortChildrenOK
  <2>5. CASE UNCHANGED functionVars
    <3>1. fn' = fn /\ todo' = todo /\ visited' = visited /\ vertex' = vertex /\ edge' = edge
      BY <2>5 DEF functionVars
    <3>2. /\ Under' = Under /\ Up' = Up /\ Within' = Within /\ Callers' = Callers /\ Loops' = Loops
          /\ Places' = Places /\ Task' = Task /\ Blocks' = Blocks /\ TheCalls' = TheCalls /\ Above' = Above
      BY <3>1, SameFunction
    <3>3. Size' = Size /\ Below' = Below /\ MadeOf("loop")' = MadeOf("loop") /\ MadeOf("call")' = MadeOf("call")
      BY <3>1 DEF Size, Below, MadeOf
    <3>4. VerticesOK' /\ EdgesOK'
      BY <3>1, <3>2, <3>3 DEF FInv, VerticesOK, EdgesOK
    <3>5. (\A i \in DOMAIN todo : TaskFits(todo[i]))'
      BY <3>1, <3>2 DEF FInv, TodoOK, TaskFits, Of
    <3>6. TasksApart'
      BY <3>1, <3>2 DEF FInv, TodoOK, TasksApart, Extent, Part, Of
    <3>7. PlacesCovered'
      BY <3>1, <3>2, <3>3 DEF FInv, TodoOK, PlacesCovered, Through, Extent, Part, Of
    <3>8. (\A i \in DOMAIN todo : todo[i].do = "loop" => Extent(todo[i]) \cap MadeOf("loop") = {})'
      BY <3>1, <3>2, <3>3 DEF FInv, TodoOK, Extent, Part, Of
    <3>9. (Extracted(MadeOf("loop"), MadeOf("call")))'
      BY <3>2, <3>3 DEF FInv, TodoOK, Extracted, Nesting
    <3>10. MadeOf("call")' = TheCalls' \cap visited' /\ todo' \in Seq(Task') /\ visited' \subseteq DOMAIN Blocks'
      BY <3>1, <3>2, <3>3 DEF FInv, TodoOK
    <3>11. TodoOK'
      BY <3>5, <3>6, <3>7, <3>8, <3>9, <3>10 DEF TodoOK
    <3>12. fn.shared \subseteq visited
      BY DEF FInv
    <3> QED BY <3>1, <3>4, <3>11, <3>12 DEF FInv
  <2> QED BY <2>1, <2>2, <2>3, <2>4, <2>5 DEF FunctionNext, Finished
<1>3. FInv => KeepsNesting
  BY FInvNesting
<1> QED BY <1>1, <1>2, <1>3, PTL DEF FunctionSpec
===============================================================================
