-------------------------------- MODULE OmpGraph ------------------------------
(***************************************************************************)
(* What the offline analysis (graph_perf.cpp) makes of the records of      *)
(* OmpSampler: it embeds the samples into the program abstraction graph,   *)
(* groups the threads by core, and copies the vertices of each parallel    *)
(* region once for each of num_threads threads.                            *)
(*                                                                         *)
(* The addresses of a call path are named for the vertices: <<"call", s>>  *)
(* for a call of GOMP_parallel, <<"fn", s>> and <<"loop", s>> for the rest *)
(* of the function it starts and for the loop in it.                       *)
(***************************************************************************)
EXTENDS OmpSampler, Selection

CONSTANTS Order,       \* the sites by their addresses
          num_threads

ASSUME OrderAssumption ==
    Order \in Seq(Sites) /\ IsInjective(Order) /\ ToSet(Order) = Sites /\ num_threads \in Nat \ {0}

VARIABLES stage,       \* "record", "embed", "group", "expand"
          data,        \* of each vertex, by number and then by group
          todo,        \* of DFS: the vertices to be entered and left
          openmp_seq, openmp_seq_record_flag,
          mnode, marc, \* root_mpag: the vertex and the thread each vertex is for, its edges
          mdata,       \* its data, by vertex and group
          src          \* src_vertex_id

analysis == <<stage, data, todo, openmp_seq, openmp_seq_record_flag, mnode, marc, mdata, src>>

Functions == Sites \cup {Serial}
Vertices == {"call", "fn", "loop"} \X Functions
Root == <<"fn", Serial>>
Recorded == BagToSet(samples)

\* The calls in the call paths that are followed by an address in the function they start:
\* ReadDynamicProgramCallGraph, which skips the first address.
Connected == UNION {{x.path[i][2] : i \in 2..(Len(x.path) - 1)} : x \in Recorded}

Kids(v) ==
    CASE v[1] = "loop" -> <<>>
      [] v[1] = "call" -> IF v[2] \in Connected THEN <<<<"fn", v[2]>>>> ELSE <<>>
      [] v[1] = "fn" -> LET inside == Selected(Order, {i \in DOMAIN Order : Outer[Order[i]] = v[2]})
                        IN  <<<<"loop", v[2]>>>> \o [i \in DOMAIN inside |-> <<"call", inside[i]>>]

\* GetVertexWithCallPath: from vertex v to what address a belongs to, through the function
\* of the call v; where nothing below v has the address the search ends.
Below(v) == UNION {{k} \cup (IF k[1] = "fn" THEN ToSet(Kids(k)) ELSE {}) : k \in ToSet(Kids(v))}
Descend(w, a) == IF w.ends THEN w
                 ELSE IF a \in Below(w.at) THEN [at |-> a, ends |-> a[1] # "call"]
                 ELSE [at |-> w.at, ends |-> TRUE]
Find(v, path) == FoldLeft(Descend, [at |-> v, ends |-> FALSE], path).at

\* Mutant: the first address of the main thread is not skipped.
FindFromMain_Whole(path) == Find(Root, path)

FindFromMain(path) == Find(Root, Tail(path))

\* created_tid_2_callpath_and_tid: the last edge with the number.
Creation(n) == LET own == {i \in DOMAIN edges : edges[i].number = n}
               IN  IF own = {} THEN Root ELSE FindFromMain(edges[Max(own)].path)

\* GetVertexWithInterThreadAnalysis
VertexOf(x) == IF x.number = MainGid THEN FindFromMain(x.path) ELSE Find(Creation(x.number), x.path)

OmpGraphInit == /\ OmpInit
                /\ stage = "record"
                /\ data = [v \in Vertices |-> EmptyBag]
                /\ todo = <<<<"in", Root>>>>
                /\ openmp_seq = <<>> /\ openmp_seq_record_flag = FALSE
                /\ mnode = <<>> /\ marc = {} /\ mdata = <<>> /\ src = 0

Total(f) == SumFunctionOnSet(f, DOMAIN f)

\* DataEmbedding
Embed ==
    /\ stage = "record" /\ ended /\ stage' = "embed"
    /\ data' = [v \in Vertices |->
                  LET here == {x \in Recorded : VertexOf(x) = v}
                  IN  [n \in {x.number : x \in here} |->
                         Total([x \in {y \in here : y.number = n} |-> samples[x]])]]
    /\ UNCHANGED <<todo, openmp_seq, openmp_seq_record_flag, mnode, marc, mdata, src>>

Grouped(d) == [g \in {n % Cores : n \in DOMAIN d} |->
                  Total([n \in {m \in DOMAIN d : m % Cores = g} |-> d[n]])]

\* OpenMPGroupThreadPerfData
Group == /\ stage = "embed" /\ stage' = "expand"
         /\ data' = [v \in Vertices |-> Grouped(data[v])]
         /\ UNCHANGED <<todo, openmp_seq, openmp_seq_record_flag, mnode, marc, mdata, src>>

Visiting(way) == stage = "expand" /\ todo # <<>> /\ Head(todo)[1] = way
Vertex == Head(todo)[2]
\* Leaving a vertex does something only for the function below a call.
Visits(v) == IF v[1] = "call" /\ Kids(v) # <<>> THEN <<<<"in", Kids(v)[1]>>, <<"out", Kids(v)[1]>>>>
             ELSE [i \in DOMAIN Kids(v) |-> <<"in", Kids(v)[i]>>]
Copy(v, i) == [of |-> v, thread |-> i]

\* in_openmp_expansion
EnterVertex ==
    /\ Visiting("in") /\ todo' = Visits(Vertex) \o Tail(todo)
    /\ IF openmp_seq_record_flag
       THEN /\ openmp_seq' = Append(openmp_seq, Vertex)
            /\ UNCHANGED <<openmp_seq_record_flag, mnode, marc, mdata, src>>
       ELSE /\ mnode' = Append(mnode, Copy(Vertex, 0))
            /\ mdata' = Append(mdata, EmptyBag)
            /\ marc' = IF src = 0 THEN marc ELSE marc \cup {<<src, Len(mnode) + 1>>}
            /\ src' = Len(mnode) + 1
            /\ openmp_seq_record_flag' = (Vertex[1] = "call" /\ Kids(Vertex) # <<>>)
            /\ UNCHANGED openmp_seq
    /\ UNCHANGED <<stage, data>>

\* A region inside the region that is recorded ended it.
LeaveVertex ==
    /\ Visiting("out") /\ ~openmp_seq_record_flag /\ todo' = Tail(todo)
    /\ UNCHANGED <<stage, data, openmp_seq, openmp_seq_record_flag, mnode, marc, mdata, src>>

Width == Len(openmp_seq)
End == Len(mnode) + 1
NewCopy(i, j) == End + (i - 1) * Width + j

\* Mutant: thread i is given the data of group i.
Scattered_ByGroup(v, i) == IF i \in DOMAIN data[v] THEN [g \in {i} |-> data[v][i]] ELSE EmptyBag

\* The data of the i-th group is for the i-th copy.
Scattered(v, i) ==
    LET groups == Ascending(DOMAIN data[v])
    IN  IF i \in DOMAIN groups THEN [g \in {groups[i]} |-> data[v][g]] ELSE EmptyBag

\* out_openmp_expansion: behind the copies of the region stands a vertex GOMP_parallel.end.
ExpandRegion ==
    /\ Visiting("out") /\ openmp_seq_record_flag /\ todo' = Tail(todo)
    /\ LET copies == [k \in 1..(num_threads * Width) |->
                         Copy(openmp_seq[((k - 1) % Width) + 1], ((k - 1) \div Width) + 1)]
       IN  /\ mnode' = mnode \o <<Copy(Vertex, 0)>> \o copies
           /\ mdata' = mdata \o <<EmptyBag>>
                       \o [k \in DOMAIN copies |-> Scattered(copies[k].of, copies[k].thread)]
    /\ marc' = marc \cup UNION {
          {<<IF j = 1 THEN src ELSE NewCopy(i, j - 1), NewCopy(i, j)>> : j \in 1..Width}
          \cup {<<NewCopy(i, Width), End>>} : i \in 1..num_threads}
    /\ src' = End
    /\ openmp_seq' = <<>> /\ openmp_seq_record_flag' = FALSE
    /\ UNCHANGED <<stage, data>>

Expanded == stage = "expand" /\ todo = <<>>

OmpGraphNext == \/ OmpNext /\ UNCHANGED analysis
                \/ (Embed \/ Group \/ EnterVertex \/ LeaveVertex \/ ExpandRegion) /\ UNCHANGED sampler
                \/ Expanded /\ UNCHANGED <<sampler, analysis>>

OmpSpec == OmpGraphInit /\ [][OmpGraphNext]_<<sampler, analysis>>
-----------------------------------------------------------------------------
(* Properties                                                                *)

TakenAt(v) == Total([x \in {y \in Recorded : Last(y.path) = v} |-> samples[x]])

\* While only the main thread opens regions, the samples that all threads took in a function
\* are embedded at its vertices, if the main thread was sampled in a region of this
\* call, and otherwise at a call of GOMP_parallel (745-770).
TimeIsWhereItWasSpent ==
    OnlyMainForks /\ stage \in {"embed", "expand"} =>
        /\ \A f \in Connected \cup {Serial} : \A part \in {"fn", "loop"} :
              Total(data[<<part, f>>]) = TakenAt(<<part, f>>)
        /\ Total([s \in Sites |-> Total(data[<<"call", s>>])])
           = Total([v \in {"fn", "loop"} \X (Sites \ Connected) |-> TakenAt(v)])

CopiesOf(v) == {i \in DOMAIN mnode : mnode[i].of = v /\ mnode[i].thread # 0}
ChainOf(i) == {j \in DOMAIN mnode : mnode[j].thread = mnode[i].thread /\ mnode[j].of[2] = mnode[i].of[2]}

\* Copying a region loses no time as long as there are no more groups than copies, and if
\* the function and its loop were sampled in the same groups, each copy has the time of one
\* of them (983-1010).
CopiesShareTheTime ==
    Expanded =>
        \A i \in {j \in DOMAIN mnode : mnode[j].thread # 0} :
            LET v == mnode[i].of
            IN  /\ Cardinality(DOMAIN data[v]) <= num_threads =>
                       Total([c \in CopiesOf(v) |-> Total(mdata[c])]) = Total(data[v])
                /\ DOMAIN data[<<"fn", v[2]>>] = DOMAIN data[<<"loop", v[2]>>] =>
                       Cardinality(UNION {DOMAIN mdata[c] : c \in ChainOf(i)}) <= 1
===============================================================================
