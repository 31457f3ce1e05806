----------------------------- MODULE LabelledGraph ----------------------------
(***************************************************************************)
(* What class Graph (src/core/graph.cpp) promises: graphs whose vertices   *)
(* are numbered from 0 without gaps, each with a name, and a file that     *)
(* holds one of them.  Appending a graph to one adds a copy of it behind   *)
(* the vertices that are there, in one step.                               *)
(***************************************************************************)
EXTENDS Integers

CONSTANTS Graphs, Names

VARIABLES size,   \* the number of vertices of each graph
          node,   \* their names, a function on 0..size-1
          arc,    \* the edges
          isStored, stored \* the graph in the file, when there is one

written == <<isStored, stored>>
vars == <<size, node, arc, written>>

Shift(arcs, k) == {<<e[1] + k, e[2] + k>> : e \in arcs}

\* the edges that are left when vertex v is gone, with the numbers they have then
Renumber(arcs, v) ==
    LET down(x) == IF x > v THEN x - 1 ELSE x
    IN  {<<down(e[1]), down(e[2])>> : e \in {d \in arcs : d[1] # v /\ d[2] # v}}

Init == /\ size = [g \in Graphs |-> 0]
        /\ node = [g \in Graphs |-> [i \in 0..-1 |-> i]]
        /\ arc = [g \in Graphs |-> {}]
        /\ isStored = FALSE
        /\ stored = [size |-> 0, node |-> [i \in 0..-1 |-> i], arc |-> {}]

Add(g, n) ==
    /\ size' = [size EXCEPT ![g] = @ + 1]
    /\ node' = [node EXCEPT ![g] = [i \in 0..size[g] |-> IF i < size[g] THEN @[i] ELSE n]]
    /\ UNCHANGED arc /\ written' = written

Connect(g, a, b) ==
    /\ arc' = [arc EXCEPT ![g] = @ \cup {<<a, b>>}]
    /\ UNCHANGED <<size, node>> /\ written' = written

Disconnect(g, a, b) ==
    /\ arc' = [arc EXCEPT ![g] = @ \ {<<a, b>>}]
    /\ UNCHANGED <<size, node>> /\ written' = written

Remove(g, v) ==
    /\ size' = [size EXCEPT ![g] = @ - 1]
    /\ node' = [node EXCEPT ![g] =
                  [i \in 0..(size[g] - 2) |-> IF i < v THEN @[i] ELSE @[i + 1]]]
    /\ arc' = [arc EXCEPT ![g] = Renumber(@, v)]
    /\ written' = written

Attach(g, h) ==
    /\ size' = [size EXCEPT ![g] = @ + size[h]]
    /\ node' = [node EXCEPT ![g] =
                  [i \in 0..(size[g] + size[h] - 1) |->
                      IF i < size[g] THEN @[i] ELSE node[h][i - size[g]]]]
    /\ arc' = [arc EXCEPT ![g] = @ \cup Shift(arc[h], size[g])]
    /\ written' = written

Store(g) ==
    /\ isStored' = TRUE
    /\ stored' = [size |-> size[g], node |-> node[g], arc |-> arc[g]]
    /\ UNCHANGED <<size, node, arc>>

Load(g) ==
    /\ isStored
    /\ size' = [size EXCEPT ![g] = stored.size]
    /\ node' = [node EXCEPT ![g] = stored.node]
    /\ arc' = [arc EXCEPT ![g] = stored.arc]
    /\ written' = written

Next == \E g \in Graphs :
            \/ \E n \in Names : Add(g, n)
            \/ \E a, b \in 0..(size[g] - 1) : Connect(g, a, b) \/ Disconnect(g, a, b)
            \/ \E v \in 0..(size[g] - 1) : Remove(g, v)
            \/ \E h \in Graphs : Attach(g, h)
            \/ Store(g)
            \/ Load(g)

Spec == Init /\ [][Next]_vars
===============================================================================
