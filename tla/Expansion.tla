-------------------------------- MODULE Expansion -----------------------------
(***************************************************************************)
(* InterProceduralAnalysis (graph_perf.cpp): ConnectCallerCallee walks     *)
(* over the graph of `main', and at each call appends the graphs of the    *)
(* functions it may call, which are walked over first if they were not.    *)
(* A function may be called from several places, by itself, or through     *)
(* others.  The graphs are those of LabelledGraph, which GraphStore        *)
(* implements.                                                             *)
(***************************************************************************)
EXTENDS Integers, Sequences

CONSTANTS Functions, Sites,   \* functions, and the instructions that call
          Main,
          Body                \* the call instructions of each function, a sequence

Calls(f) == {Body[f][i] : i \in DOMAIN Body[f]}

ASSUME ProgramAssumption ==
    /\ Main \in Functions
    /\ Functions \cap Sites = {}
    /\ Body \in [Functions -> Seq(Sites)]

VARIABLES callees,           \* the edges of the program call graph, by their calls
          size, node, arc,   \* the program abstraction graph of each function
          scanned,           \* the graphs with the attribute "scanned"
          stack              \* the traversals that are going on

graphs == <<size, node, arc>>
vars == <<callees, graphs, scanned, stack>>

NoFile == [size |-> 0, node |-> <<>>, arc |-> {}]
G == INSTANCE LabelledGraph WITH
        Graphs <- Functions, Names <- Functions \cup Sites,
        isStored <- NoFile.size > 0, stored <- NoFile

\* A traversal of the graph of f: the vertices that are there at its start, up to
\* limit.  At vertex `at', the callees in todo are to be connected; `callee' is
\* the one to append, or the one appended at `link'.
Traversal(f) == [on |-> f, at |-> 0, limit |-> size[f],
                 step |-> "visit", todo |-> {}, callee |-> f, link |-> 0]

\* A function vertex and below it its calls.
InitGraphs ==
    /\ size = [f \in Functions |-> Len(Body[f]) + 1]
    /\ node = [f \in Functions |-> [v \in 0..Len(Body[f]) |-> IF v = 0 THEN f ELSE Body[f][v]]]
    /\ arc = [f \in Functions |-> {<<0, v>> : v \in 1..Len(Body[f])}]

Init == /\ callees \in [Sites -> SUBSET Functions]
        /\ InitGraphs
        /\ scanned = {}
        /\ stack = <<[on |-> Main, at |-> 0, limit |-> Len(Body[Main]) + 1,
                      step |-> "visit", todo |-> {}, callee |-> Main, link |-> 0]>>
-----------------------------------------------------------------------------
Depth == Len(stack)
Top == stack[Depth]
Replaced(t) == [stack EXCEPT ![Depth] = t]
CalleesOf(x) == IF x \in Sites THEN callees[x] ELSE {}
Here == CalleesOf(node[Top.on][Top.at])

\* Mutant: the traversal sees the vertices that are appended meanwhile.
NextVertex_Growing ==
    stack' = Replaced([Top EXCEPT !.at = @ + 1, !.step = "visit", !.limit = size[Top.on]])

NextVertex == stack' = Replaced([Top EXCEPT !.at = @ + 1, !.step = "visit"])

\* A vertex that is no call, or one without callees.
Skip == /\ stack # <<>> /\ Top.step = "visit" /\ Top.at < Top.limit
        /\ Here = {}
        /\ NextVertex
        /\ UNCHANGED <<callees, graphs, scanned>>

Visit == /\ stack # <<>> /\ Top.step = "visit" /\ Top.at < Top.limit
         /\ Here # {}
         /\ stack' = Replaced([Top EXCEPT !.todo = Here, !.step = "call"])
         /\ UNCHANGED <<callees, graphs, scanned>>

\* The next callee c, in the order of the program call graph; what is not scanned is
\* walked over before it is appended.
Callee(c) == Replaced([Top EXCEPT !.todo = @ \ {c}, !.callee = c, !.step = "append"])

CallKnown(c) ==
    /\ stack # <<>> /\ Top.step = "call" /\ c \in Top.todo
    /\ c \in scanned
    /\ stack' = Callee(c)
    /\ UNCHANGED <<callees, graphs, scanned>>

\* Mutant: the flag is set when the traversal has ended.
CallNew_Late(c) ==
    /\ stack # <<>> /\ Top.step = "call" /\ c \in Top.todo
    /\ c \notin scanned
    /\ stack' = Append(Callee(c), Traversal(c))
    /\ UNCHANGED <<callees, graphs, scanned>>

CallNew(c) ==
    /\ stack # <<>> /\ Top.step = "call" /\ c \in Top.todo
    /\ c \notin scanned
    /\ scanned' = scanned \cup {c}
    /\ stack' = Append(Callee(c), Traversal(c))
    /\ UNCHANGED <<callees, graphs>>

\* Mutant: the number of vertices is read after the copy.
AppendCallee_CountAfter ==
    /\ stack # <<>> /\ Top.step = "append"
    /\ G!Attach(Top.on, Top.callee)
    /\ stack' = Replaced([Top EXCEPT !.link = size'[Top.on], !.step = "link"])
    /\ UNCHANGED <<callees, scanned>>

\* Mutant: the number of vertices is the one the traversal started with.
AppendCallee_OldCount ==
    /\ stack # <<>> /\ Top.step = "append"
    /\ G!Attach(Top.on, Top.callee)
    /\ stack' = Replaced([Top EXCEPT !.link = Top.limit, !.step = "link"])
    /\ UNCHANGED <<callees, scanned>>

\* GetCurVertexNum, AddGraph
AppendCallee ==
    /\ stack # <<>> /\ Top.step = "append"
    /\ G!Attach(Top.on, Top.callee)
    /\ stack' = Replaced([Top EXCEPT !.link = size[Top.on], !.step = "link"])
    /\ UNCHANGED <<callees, scanned>>

\* Mutant: the callee is connected to the function instead of the call.
Link_Root ==
    /\ stack # <<>> /\ Top.step = "link"
    /\ G!Connect(Top.on, 0, Top.link)
    /\ stack' = Replaced([Top EXCEPT !.step = "call"])
    /\ UNCHANGED <<callees, scanned>>

Link == /\ stack # <<>> /\ Top.step = "link"
        /\ G!Connect(Top.on, Top.at, Top.link)
        /\ stack' = Replaced([Top EXCEPT !.step = "call"])
        /\ UNCHANGED <<callees, scanned>>

AllConnected ==
    /\ stack # <<>> /\ Top.step = "call" /\ Top.todo = {}
    /\ NextVertex
    /\ UNCHANGED <<callees, graphs, scanned>>

Return == /\ stack # <<>> /\ Top.step = "visit" /\ Top.at = Top.limit
          /\ stack' = SubSeq(stack, 1, Depth - 1)
          /\ UNCHANGED <<callees, graphs, scanned>>

Done == stack = <<>>

Terminated == Done /\ UNCHANGED vars

Connect == \/ Skip \/ Visit
           \/ \E c \in Functions : CallKnown(c) \/ CallNew(c)
           \/ AppendCallee \/ Link \/ AllConnected \/ Return

Next == Connect \/ Terminated

Spec == Init /\ [][Next]_vars
-----------------------------------------------------------------------------
(* Properties                                                                *)

Frame == [on : Functions, at : Nat, limit : Nat,
          step : {"visit", "call", "append", "link"},
          todo : SUBSET Functions, callee : Functions, link : Nat]

Vertices(f) == 0..(size[f] - 1)
Parents(f, v) == {e[1] : e \in {d \in arc[f] : d[2] = v}}
Children(f, v) == {e[2] : e \in {d \in arc[f] : d[1] = v}}

\* Every variable keeps its type (graph_perf.cpp 378-433).
TypeOK ==
    /\ callees \in [Sites -> SUBSET Functions]
    /\ \A f \in Functions : /\ size[f] \in Nat
                            /\ node[f] \in [Vertices(f) -> Functions \cup Sites]
                            /\ arc[f] \subseteq Vertices(f) \X Vertices(f)
    /\ scanned \subseteq Functions
    /\ stack \in Seq(Frame)

\* The root of a copy that its call is still to be connected to.
Pending(f, v) == stack # <<>> /\ Top.step = "link" /\ Top.on = f /\ Top.link = v

\* Every graph stays a tree whose parents have smaller numbers than their children,
\* also when a function is appended to itself: the root of a copy is the only
\* vertex without a parent, until the call is connected to it (424-428).
\* GetParentVertex and the depth-first expansions rely on it.
TreeShaped ==
    \A f \in Functions : \A v \in Vertices(f) :
        IF v = 0 \/ Pending(f, v) THEN Parents(f, v) = {}
        ELSE \E p \in 0..(v - 1) : Parents(f, v) = {p}

\* b may stand below a.
IsCall(a, b) == IF a \in Functions THEN b \in Calls(a) ELSE b \in callees[a]

\* What is below a function vertex are calls of this function, and what is below a
\* call are functions it can call, in every copy (411-428).
EdgesAreCalls ==
    \A f \in Functions : \A e \in arc[f] : IsCall(node[f][e[1]], node[f][e[2]])

\* Recursion ends: no function is walked over inside its own traversal, with the
\* exception of main, whose graph is not marked when the analysis starts (638-648).
NoReentry ==
    \A i, j \in 1..Depth : i < j /\ stack[i].on = stack[j].on => i = 1 /\ stack[i].on = Main

\* Call v of the graph of f has one copy of each callee below it.
OneEach(f, v) ==
    LET s == node[f][v]
    IN  \A c \in callees[s] : \E k \in Children(f, v) :
            /\ node[f][k] = c
            /\ \A l \in Children(f, v) : node[f][l] = c => l = k

\* Each function of a group has a call of the group.
Recursive == \E group \in (SUBSET Functions) \ {{}} :
                \A f \in group : \E s \in Calls(f) : callees[s] \cap group # {}

\* When nothing calls main, then in the end each call of a function that was walked
\* over is connected to one copy of each of its callees; and if there is no recursion
\* that is so of all calls in all copies: no context is missing or there twice (389-430).
FullyExpanded ==
    Done /\ (\A s \in Sites : Main \notin callees[s]) =>
        \A f \in scanned \cup {Main} :
            /\ \A v \in 1..Len(Body[f]) : OneEach(f, v)
            /\ ~Recursive => \A v \in Vertices(f) : node[f][v] \in Sites => OneEach(f, v)
===============================================================================
