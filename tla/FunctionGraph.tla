------------------------------ MODULE FunctionGraph ----------------------------
(***************************************************************************)
(* The graph of one function, from the binary to the lookup of a sample:   *)
(* IntraProceduralAnalysis (static_analysis.cpp) makes a vertex of each    *)
(* loop and each call, DumpFunctionGraph sorts the children of each vertex *)
(* by their last address, and GetChildVertexWithAddr (pg.cpp) later takes  *)
(* the first child whose range, widened by 4 bytes, holds an address.  A   *)
(* frame of a call path is recorded 2 bytes below its return address.      *)
(***************************************************************************)
EXTENDS Integers, Sequences, Selection, SequencesExt, FiniteSetsExt

CONSTANTS Functions  \* layouts: [blocks, loops, shared]

\* A block [start, last, end, call, known]: `last' is the address of its last instruction,
\* `call' says that this is a call, `known' that its target is a function of the binary.
\* A loop [parent, header, blocks]: blocks includes those of the loops in it; `parent'
\* is the index of the loop around it, 0 when there is none.  Loops are nested or have
\* no block in common.  `shared' are the blocks that functions analysed earlier have too.
Block == [start : Int, last : Int, end : Int, call : BOOLEAN, known : BOOLEAN]

ASSUME LayoutAssumption ==
    \A f \in Functions :
        /\ f.blocks \in Seq(Block) /\ f.blocks # <<>> /\ f.shared \subseteq DOMAIN f.blocks
        /\ f.loops \in Seq([parent : Nat, header : Nat, blocks : SUBSET (DOMAIN f.blocks)])
        /\ \A l \in DOMAIN f.loops :
            LET loop == f.loops[l]
            IN  /\ loop.header \in loop.blocks
                /\ loop.parent < l      \* they are numbered from the outside
                /\ loop.parent # 0 => loop.blocks \subseteq f.loops[loop.parent].blocks
                /\ \A k \in DOMAIN f.loops \ {l} :
                      f.loops[k].parent = loop.parent => f.loops[k].blocks \cap loop.blocks = {}

VARIABLES fn,          \* the function
          todo,        \* what the recursion has left, the next first
          visited,     \* the blocks of fn that visited_block_map has
          vertex,      \* the vertices [kind, of, saddr, eaddr], from 0
          edge,
          queue        \* vertices the search will hand to SortChildren

functionVars == <<fn, todo, visited, vertex, edge, queue>>

Blocks == fn.blocks
Loops == DOMAIN fn.loops
Loop(l, at) == [do |-> "loop", of |-> l, at |-> at, blocks |-> <<>>]
CallsOf(bs, at) == [do |-> "calls", of |-> 0, at |-> at, blocks |-> Ascending(bs)]   \* by address

\* the loops directly in loop l, by their entries
Nested(l, at) ==
    LET inner == {k \in Loops : fn.loops[k].parent = l}
        headers == Ascending({fn.loops[k].header : k \in inner})
    IN  [i \in DOMAIN headers |-> Loop(CHOOSE k \in inner : fn.loops[k].header = headers[i], at)]

\* LoopTreeNode::numCallees: calls of known functions in l, but not in a loop of l
HasCallees(l) ==
    \E b \in fn.loops[l].blocks : /\ Blocks[b].call /\ Blocks[b].known
                                  /\ \A k \in Loops : fn.loops[k].parent = l => b \notin fn.loops[k].blocks

\* The map is one for all functions: it has the blocks of those analysed earlier.
FunctionInit ==
    /\ fn \in Functions
    /\ vertex = [v \in {0} |-> [kind |-> "function", of |-> 0, saddr |-> Blocks[1].start,
                                eaddr |-> Blocks[Len(Blocks)].last]]
    /\ edge = {}
    /\ visited = fn.shared
    /\ todo = Nested(0, 0) \o <<CallsOf(DOMAIN Blocks, 0)>>
    /\ queue = <<>>

Size == Cardinality(DOMAIN vertex)
Added(x, at) == /\ vertex' = [v \in 0..Size |-> IF v = Size THEN x ELSE vertex[v]]
                /\ edge' = edge \cup {<<at, Size>>}
-----------------------------------------------------------------------------
(* Static analysis                                                           *)

LoopVertex(l) ==
    LET bs == fn.loops[l].blocks
    IN  [kind |-> "loop", of |-> l, saddr |-> Blocks[Min(bs)].start - 8, eaddr |-> Blocks[Max(bs)].end - 8]

\* ExtractLoopStructure: one loop of the tree; then the loops in it, then its calls.
ExtractLoop ==
    /\ todo # <<>> /\ todo[1].do = "loop"
    /\ LET t == todo[1] IN
        /\ Added(LoopVertex(t.of), t.at)
        /\ todo' = Nested(t.of, Size)
                   \o (IF HasCallees(t.of) THEN <<CallsOf(fn.loops[t.of].blocks, Size)>> ELSE <<>>)
                   \o Tail(todo)
    /\ UNCHANGED <<fn, visited, queue>>

\* ExtractCallStructure: one block.
ExtractCall ==
    /\ todo # <<>> /\ todo[1].do = "calls" /\ todo[1].blocks # <<>>
    /\ LET b == todo[1].blocks[1] IN
        /\ IF b \notin visited /\ Blocks[b].call
           THEN Added([kind |-> "call", of |-> b, saddr |-> Blocks[b].last, eaddr |-> Blocks[b].last], todo[1].at)
           ELSE UNCHANGED <<vertex, edge>>
        /\ visited' = visited \cup {b}
    /\ todo' = [todo EXCEPT ![1].blocks = Tail(@)]
    /\ UNCHANGED <<fn, queue>>

CallsExtracted == /\ todo # <<>> /\ todo[1].do = "calls" /\ todo[1].blocks = <<>>
                  /\ todo' = Tail(todo)
                  /\ queue' = IF todo' = <<>> THEN <<0>> ELSE queue   \* SortByAddr(0)
                  /\ UNCHANGED <<fn, visited, vertex, edge>>
-----------------------------------------------------------------------------
(* Sorting                                                                   *)

Children(v) == Ascending({e[2] : e \in {d \in edge : d[1] = v}})

\* the orders std::sort may leave
Orders(ids) ==
    {o \in [DOMAIN ids -> Range(ids)] :
        /\ IsInjective(o)
        /\ \A i, j \in DOMAIN ids : i < j => vertex[o[i]].eaddr <= vertex[o[j]].eaddr}

\* Mutant: the attributes move, the edges stay.
Permute_Attributes(ids, order) ==
    /\ vertex' = [v \in DOMAIN vertex |-> IF v \in Range(ids) THEN vertex[order[CHOOSE i \in DOMAIN ids : ids[i] = v]]
                                                              ELSE vertex[v]]
    /\ UNCHANGED edge

\* Vertex ids[i] gets the attributes and the children of order[i], but keeps its number.
Permute(ids, order) ==
    /\ vertex' = [v \in DOMAIN vertex |-> IF v \in Range(ids) THEN vertex[order[CHOOSE i \in DOMAIN ids : ids[i] = v]]
                                                              ELSE vertex[v]]
    /\ edge' = {e \in edge : e[1] \notin Range(ids)}
               \cup UNION {{<<ids[i], e[2]>> : e \in {d \in edge : d[1] = order[i]}} : i \in DOMAIN ids}

\* Mutant: the children are left as they are.
SortChildren_Not ==
    /\ todo = <<>> /\ queue # <<>>
    /\ queue' = Tail(queue) \o Children(queue[1])
    /\ UNCHANGED <<fn, todo, visited, vertex, edge>>

\* igraph_bfs has put the children into its queue when it calls SortChildren.
SortChildren ==
    /\ todo = <<>> /\ queue # <<>>
    /\ LET ids == Children(queue[1]) IN
        /\ \E order \in Orders(ids) : Permute(ids, order)
        /\ queue' = Tail(queue) \o ids
    /\ UNCHANGED <<fn, todo, visited>>

Dumped == todo = <<>> /\ queue = <<>>
Finished == Dumped /\ UNCHANGED functionVars

FunctionNext == ExtractLoop \/ ExtractCall \/ CallsExtracted \/ SortChildren \/ Finished

FunctionSpec == FunctionInit /\ [][FunctionNext]_functionVars
-----------------------------------------------------------------------------
(* Lookup                                                                    *)

ChildrenWithAddr(v, addr) ==
    {c \in Range(Children(v)) : vertex[c].saddr - 4 <= addr /\ addr <= vertex[c].eaddr + 4}

\* GetVertexWithCallPath, for one address: down through loops to the first call; the
\* innermost loop when there is none.
WithAddr(addr) ==
    LET from[v \in DOMAIN vertex] ==
            LET found == ChildrenWithAddr(v, addr)
            IN  IF found = {} THEN v
                ELSE IF vertex[Min(found)].kind = "loop" THEN from[Min(found)] ELSE Min(found)
    IN  from[0]
-----------------------------------------------------------------------------
(* Properties                                                                *)

\* the calls in blocks that no function analysed earlier has
TheCalls == {b \in DOMAIN Blocks \ fn.shared : Blocks[b].call}

\* the loops around call b that call known functions outside their inner loops
Owners(b) == {l \in Loops : b \in fn.loops[l].blocks /\ HasCallees(l)}
Inside(k, l) == fn.loops[k].blocks \subseteq fn.loops[l].blocks

\* Extraction and sorting leave each loop below the loop around it, and each call, once,
\* below the innermost loop around it that calls known functions outside its inner loops,
\* or else below the function (132-269; graph.cpp 596-728).  The one kind of call that is
\* left out is that in a block of a function analysed earlier.
KeepsNesting ==
    Dumped =>
        LET owner(b) == {l \in Owners(b) : \A k \in Owners(b) : Inside(l, k)}
            above(b) == IF Owners(b) = {} THEN {0} ELSE owner(b)
        IN  /\ Size = 1 + Cardinality(Loops) + Cardinality(TheCalls)
            /\ {<<vertex[e[1]].of, vertex[e[2]].kind, vertex[e[2]].of>> : e \in edge}
                 = {<<fn.loops[l].parent, "loop", l>> : l \in Loops}
                   \cup UNION {{<<a, "call", b>> : a \in above(b)} : b \in TheCalls}
            /\ \A e \in edge : vertex[e[1]].kind # "call"

\* No loop of the function has a block among those of a loop beside it.
Unwoven ==
    \A k, l \in Loops : k # l /\ fn.loops[k].parent = fn.loops[l].parent =>
        \/ Max(fn.loops[k].blocks) < Min(fn.loops[l].blocks)
        \/ Max(fn.loops[l].blocks) < Min(fn.loops[k].blocks)

\* The return address of b is within the tolerance of the call before it, or of the next one
\* when that hangs elsewhere; or b is at the very end of a loop but not below it.
Crowded(b) ==
    \/ \E a \in TheCalls : a < b /\ Blocks[b].end - 2 <= Blocks[a].last + 4
    \/ \E a \in TheCalls : a > b /\ Blocks[b].end - 2 >= Blocks[a].last - 4 /\ Owners(a) # Owners(b)
    \/ \E l \in Loops : /\ ~\E k \in Owners(b) : Inside(k, l)
                        /\ LET end == Blocks[Max(fn.loops[l].blocks)].end
                           IN  end - 8 <= Blocks[b].last /\ Blocks[b].last < end

\* The return address of each call leads to the vertex of that very call, but for crowded
\* calls, and where loops are woven into each other in memory (static_analysis.cpp 248,
\* pg.cpp 108-222); calls in blocks of functions analysed earlier have none.
CallsAreFound ==
    Dumped /\ Unwoven =>
        \A b \in TheCalls : ~Crowded(b) =>
            LET v == WithAddr(Blocks[b].end - 2) IN vertex[v].kind = "call" /\ vertex[v].of = b
===============================================================================
