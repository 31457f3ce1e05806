---------------------------- MODULE ExpansionProofs ---------------------------
(***************************************************************************)
(* Proofs about Expansion and DynamicCalls for all programs and samples:   *)
(* any functions and calls, any recursion, any call paths.  The graphs are *)
(* trees of calls whatever is appended to what, no function is walked over *)
(* inside its own traversal, every call gets one copy of each callee, and  *)
(* the callees are those that the call paths show.                         *)
(***************************************************************************)
EXTENDS DynamicCalls, SumTheorems, TLAPS

GraphOK(f) == /\ size[f] \in Nat \ {0}
              /\ node[f] \in [Vertices(f) -> Functions \cup Sites] /\ node[f][0] = f
              /\ arc[f] \subseteq Vertices(f) \X Vertices(f)
              /\ \A e \in arc[f] : IsCall(node[f][e[1]], node[f][e[2]])

\* A traversal t stays inside the vertices it started with; what it appends are
\* callees of the call it is at.
FrameOK(t) ==
    /\ t.at <= t.limit /\ t.limit <= size[t.on]
    /\ t.step # "visit" => t.at < t.limit /\ t.todo \subseteq CalleesOf(node[t.on][t.at])
    /\ t.step \in {"append", "link"} => t.callee \in CalleesOf(node[t.on][t.at])
    /\ t.step = "link" => /\ t.limit <= t.link /\ t.link < size[t.on]
                          /\ node[t.on][t.link] = t.callee

\* The callers wait to append the graph that is walked over.
StackOK == /\ stack \in Seq(Frame)
           /\ \A i \in 1..Depth : FrameOK(stack[i])
           /\ \A i \in 1..Depth : i < Depth => stack[i].step = "append"

Shape == /\ size = [f \in Functions |-> size[f]]
         /\ node = [f \in Functions |-> node[f]]
         /\ arc = [f \in Functions |-> arc[f]]

IInv == /\ callees \in [Sites -> SUBSET Functions] /\ scanned \subseteq Functions
        /\ Shape
        /\ \A f \in Functions : GraphOK(f)
        /\ StackOK
        /\ TreeShaped
-----------------------------------------------------------------------------
LEMMA Types == ASSUME IInv
               PROVE  TypeOK /\ EdgesAreCalls /\ callees \in [Sites -> SUBSET Functions]
  BY ProgramAssumption DEF IInv, Shape, GraphOK, StackOK, TypeOK, EdgesAreCalls

LEMMA ReplaceTop ==
    ASSUME stack \in Seq(Frame), stack # <<>>, NEW t \in Frame
    PROVE  /\ Depth \in Nat \ {0} /\ Top \in Frame
           /\ Replaced(t) \in Seq(Frame) /\ Len(Replaced(t)) = Depth /\ Replaced(t) # <<>>
           /\ \A i \in 1..Depth : Replaced(t)[i] = IF i = Depth THEN t ELSE stack[i]
  BY DEF Depth, Top, Replaced

LEMMA FramesOK ==
    ASSUME IInv, NEW i \in 1..Depth
    PROVE  FrameOK(stack[i]) /\ stack[i] \in Frame /\ (i # Depth => stack[i].step = "append")
<1>1. Depth \in Nat /\ stack[i] \in Frame
  BY DEF IInv, StackOK, Depth
<1> QED BY <1>1 DEF IInv, StackOK

LEMMA TopOK ==
    ASSUME IInv, stack # <<>>
    PROVE  /\ Depth \in Nat \ {0} /\ Top \in Frame /\ FrameOK(Top)
           /\ Top.on \in Functions /\ Top.callee \in Functions /\ Top.todo \subseteq Functions
           /\ Top.at \in Nat /\ Top.limit \in Nat /\ Top.link \in Nat
<1>1. stack \in Seq(Frame)
  BY DEF IInv, StackOK
<1>2. Depth \in Nat \ {0} /\ \A i \in 1..Depth : stack[i] \in Frame
  BY <1>1 DEF Depth
<1>3. \A i \in 1..Depth : FrameOK(stack[i]) /\ (i # Depth => stack[i].step = "append")
  BY <1>2 DEF IInv, StackOK
<1>4. Top \in Frame /\ FrameOK(Top)
  BY <1>2, <1>3 DEF Top
<1>5. \A t \in Frame : /\ t.on \in Functions /\ t.callee \in Functions /\ t.todo \subseteq Functions
                       /\ t.at \in Nat /\ t.limit \in Nat /\ t.link \in Nat
  BY DEF Frame
<1> QED BY <1>2, <1>3, <1>4, <1>5

\* A step that leaves the graphs alone and moves the top frame keeps the invariant,
\* when the new frame is sound and neither appends nor links.
LEMMA MoveTop ==
    ASSUME IInv, NEW t \in Frame, stack # <<>>, stack' = Replaced(t),
           UNCHANGED <<callees, graphs>>, scanned' \subseteq Functions,
           FrameOK(t), Top.step # "link", t.step # "link"
    PROVE  IInv'
<1>1. /\ Depth' = Depth /\ Depth \in Nat \ {0} /\ Top' = t /\ stack' \in Seq(Frame)
      /\ stack' # <<>>
      /\ \A i \in 1..Depth : stack'[i] = IF i = Depth THEN t ELSE stack[i]
  BY ReplaceTop DEF IInv, StackOK, Depth, Top
<1>2. \A u : FrameOK(u)' <=> FrameOK(u)
  BY DEF FrameOK, graphs, CalleesOf
<1>3. StackOK'
  BY <1>1, <1>2 DEF IInv, StackOK
<1>4. TreeShaped'
  <2>1. \A f, v : ~Pending(f, v) /\ ~Pending(f, v)'
    BY <1>1 DEF Pending
  <2> QED BY <2>1 DEF IInv, TreeShaped, Vertices, Parents, graphs
<1>5. Shape' /\ \A f \in Functions : GraphOK(f)'
  BY DEF IInv, Shape, GraphOK, Vertices, IsCall, graphs
<1> QED BY <1>3, <1>4, <1>5 DEF IInv
-----------------------------------------------------------------------------
\* What Attach does to the graphs, and that what was there stays.
LEMMA AttachGraphs ==
    ASSUME IInv, NEW g \in Functions, NEW h \in Functions, G!Attach(g, h), UNCHANGED callees
    PROVE  /\ size'[g] = size[g] + size[h]
           /\ \A f \in Functions \ {g} : size'[f] = size[f] /\ node'[f] = node[f] /\ arc'[f] = arc[f]
           /\ \A v \in Vertices(g) : node'[g][v] = node[g][v]
           /\ \A v \in Vertices(h) : node'[g][size[g] + v] = node[h][v]
           /\ arc'[g] = arc[g] \cup {<<e[1] + size[g], e[2] + size[g]>> : e \in arc[h]}
           /\ Shape' /\ \A f \in Functions : GraphOK(f)'
<1>1. /\ size' = [size EXCEPT ![g] = @ + size[h]]
      /\ node' = [node EXCEPT ![g] =
                    [i \in 0..(size[g] + size[h] - 1) |->
                        IF i < size[g] THEN @[i] ELSE node[h][i - size[g]]]]
      /\ arc' = [arc EXCEPT ![g] = @ \cup G!Shift(arc[h], size[g])]
  BY DEF G!Attach
<1>2. /\ size'[g] = size[g] + size[h]
      /\ node'[g] = [i \in 0..(size[g] + size[h] - 1) |->
                        IF i < size[g] THEN node[g][i] ELSE node[h][i - size[g]]]
      /\ arc'[g] = arc[g] \cup {<<e[1] + size[g], e[2] + size[g]>> : e \in arc[h]}
      /\ Shape'
  BY <1>1 DEF IInv, Shape, G!Shift
<1>3. \A f \in Functions \ {g} : size'[f] = size[f] /\ node'[f] = node[f] /\ arc'[f] = arc[f]
  BY <1>1 DEF IInv, Shape
<1>4. GraphOK(g) /\ GraphOK(h)
  BY DEF IInv
<1>s. size[g] \in Nat \ {0} /\ size[h] \in Nat \ {0}
  BY <1>4 DEF GraphOK
<1>5. \A v \in Vertices(g) : node'[g][v] = node[g][v]
  BY <1>2, <1>s DEF Vertices
<1>6. \A v \in Vertices(h) : node'[g][size[g] + v] = node[h][v]
  <2> SUFFICES ASSUME NEW v \in Vertices(h) PROVE node'[g][size[g] + v] = node[h][v]
    OBVIOUS
  <2>1. /\ size[g] + v \in 0..(size[g] + size[h] - 1) /\ ~(size[g] + v < size[g])
        /\ (size[g] + v) - size[g] = v
    BY <1>s DEF Vertices
  <2> QED BY <1>2, <2>1
<1>7. GraphOK(g)'
  <2>1. size'[g] \in Nat \ {0}
    BY <1>2, <1>4 DEF GraphOK
  <2>2. node'[g] \in [0..(size'[g] - 1) -> Functions \cup Sites] /\ node'[g][0] = g
    <3>1. \A i \in 0..(size[g] + size[h] - 1) :
            (IF i < size[g] THEN node[g][i] ELSE node[h][i - size[g]]) \in Functions \cup Sites
      <4> SUFFICES ASSUME NEW i \in 0..(size[g] + size[h] - 1)
                   PROVE  (IF i < size[g] THEN node[g][i] ELSE node[h][i - size[g]])
                             \in Functions \cup Sites
        OBVIOUS
      <4>1. CASE i < size[g]
        <5>1. i \in Vertices(g)
          BY <4>1, <1>s DEF Vertices
        <5> QED BY <4>1, <5>1, <1>4 DEF GraphOK
      <4>2. CASE ~(i < size[g])
        <5>1. i - size[g] \in Vertices(h)
          BY <4>2, <1>s DEF Vertices
        <5> QED BY <4>2, <5>1, <1>4 DEF GraphOK
      <4> QED BY <4>1, <4>2
    <3>2. node'[g] \in [0..(size'[g] - 1) -> Functions \cup Sites]
      <4>s. size'[g] = size[g] + size[h]
        BY <1>2
      <4>1. 0..(size'[g] - 1) = 0..(size[g] + size[h] - 1)
        BY <4>s, <1>s
      <4> QED BY <3>1, <4>1, <1>2
    <3>3. 0 \in Vertices(g)
      BY <1>s DEF Vertices
    <3> QED BY <3>2, <3>3, <1>5, <1>4 DEF GraphOK
  <2>3. ASSUME NEW e \in arc'[g]
        PROVE  e \in (0..(size'[g] - 1)) \X (0..(size'[g] - 1)) /\ IsCall(node'[g][e[1]], node'[g][e[2]])
    <3>1. CASE e \in arc[g]
      BY <3>1, <1>2, <1>4, <1>5 DEF GraphOK, Vertices
    <3>2. CASE e \notin arc[g]
      <4>1. PICK d \in arc[h] : e = <<d[1] + size[g], d[2] + size[g]>>
        BY <3>2, <1>2
      <4>2. /\ d[1] \in Vertices(h) /\ d[2] \in Vertices(h)
            /\ IsCall(node[h][d[1]], node[h][d[2]])
        BY <1>4 DEF GraphOK
      <4>3. e[1] = size[g] + d[1] /\ e[2] = size[g] + d[2]
        BY <4>1, <4>2, <1>4 DEF GraphOK, Vertices
      <4>4. node'[g][e[1]] = node[h][d[1]] /\ node'[g][e[2]] = node[h][d[2]]
        BY <4>2, <4>3, <1>6
      <4>5. e[1] \in 0..(size'[g] - 1) /\ e[2] \in 0..(size'[g] - 1)
        BY <4>2, <4>3, <1>2, <1>s, SMTT(20) DEF Vertices
      <4> QED BY <4>1, <4>2, <4>4, <4>5
    <3> QED BY <3>1, <3>2
  <2> QED BY <2>1, <2>2, <2>3 DEF GraphOK, Vertices, IsCall
<1>8. \A f \in Functions \ {g} : GraphOK(f)'
  BY <1>3 DEF IInv, GraphOK, Vertices, IsCall
<1> QED BY <1>2, <1>3, <1>5, <1>6, <1>7, <1>8

\* The parents of the vertices that were there, and those of the copies.
LEMMA AttachParents ==
    ASSUME IInv, NEW g \in Functions, NEW h \in Functions, G!Attach(g, h), UNCHANGED callees
    PROVE  /\ \A v \in Vertices(g) : Parents(g, v)' = Parents(g, v)
           /\ \A v \in Vertices(h), w \in Int : w = size[g] + v =>
                 Parents(g, w)' = {p + size[g] : p \in Parents(h, v)}
           /\ \A f \in Functions \ {g} : \A v : Parents(f, v)' = Parents(f, v)
<1>1. /\ arc'[g] = arc[g] \cup {<<e[1] + size[g], e[2] + size[g]>> : e \in arc[h]}
      /\ \A f \in Functions \ {g} : arc'[f] = arc[f]
  BY AttachGraphs
<1>2. /\ size[g] \in Nat /\ size[h] \in Nat
      /\ \A e \in arc[g] : e[1] \in Vertices(g) /\ e[2] \in Vertices(g)
      /\ \A e \in arc[h] : e[1] \in Vertices(h) /\ e[2] \in Vertices(h)
  BY DEF IInv, GraphOK
<1>3. ASSUME NEW v \in Vertices(g) PROVE Parents(g, v)' = Parents(g, v)
  <2>1. \A e \in arc[h] : e[2] + size[g] # v
    BY <1>2 DEF Vertices
  <2> QED BY <1>1, <2>1 DEF Parents
<1>4. ASSUME NEW v \in Vertices(h), NEW w \in Int, w = size[g] + v
      PROVE  Parents(g, w)' = {p + size[g] : p \in Parents(h, v)}
  <2>1. \A e \in arc[g] : e[2] # w
    BY <1>2, <1>4 DEF Vertices
  <2>2. \A e \in arc[h] : e[2] + size[g] = w <=> e[2] = v
    BY <1>2, <1>4 DEF Vertices
  <2>3. ASSUME NEW p \in Parents(g, w)'
        PROVE  p \in {q + size[g] : q \in Parents(h, v)}
    <3>1. PICK e \in arc'[g] : e[2] = w /\ p = e[1]
      BY DEF Parents
    <3>2. PICK d \in arc[h] : e = <<d[1] + size[g], d[2] + size[g]>>
      BY <3>1, <1>1, <2>1
    <3>3. d[2] = v /\ p = d[1] + size[g]
      BY <3>1, <3>2, <2>2
    <3> QED BY <3>3 DEF Parents
  <2>4. ASSUME NEW q \in Parents(h, v)
        PROVE  q + size[g] \in Parents(g, w)'
    <3>1. PICK d \in arc[h] : d[2] = v /\ q = d[1]
      BY DEF Parents
    <3>2. <<d[1] + size[g], d[2] + size[g]>> \in arc'[g]
      BY <1>1
    <3>3. d[2] + size[g] = w
      BY <3>1, <2>2
    <3>4. \A a, b : <<a, b>>[1] = a /\ <<a, b>>[2] = b
      OBVIOUS
    <3> QED BY <3>1, <3>2, <3>3, <3>4 DEF Parents
  <2> QED BY <2>3, <2>4
<1>5. \A f \in Functions \ {g} : \A v : Parents(f, v)' = Parents(f, v)
  BY <1>1 DEF Parents
<1> QED BY <1>3, <1>4, <1>5
-----------------------------------------------------------------------------
LEMMA InitInv == Init => IInv
<1> SUFFICES ASSUME Init PROVE IInv
  OBVIOUS
<1> USE ProgramAssumption
<1>1. ASSUME NEW f \in Functions
      PROVE  /\ size[f] = Len(Body[f]) + 1 /\ Len(Body[f]) \in Nat
             /\ Vertices(f) = 0..Len(Body[f])
  <2>1. Len(Body[f]) \in Nat
    BY DEF ProgramAssumption
  <2>2. size[f] = Len(Body[f]) + 1
    BY DEF Init, InitGraphs
  <2>3. size[f] - 1 = Len(Body[f])
    BY <2>1, <2>2
  <2> QED BY <2>1, <2>2, <2>3 DEF Vertices
<1>2. ASSUME NEW f \in Functions
      PROVE  /\ node[f] \in [Vertices(f) -> Functions \cup Sites] /\ node[f][0] = f
             /\ \A v \in 1..Len(Body[f]) : node[f][v] \in Calls(f)
  <2>1. node[f] = [v \in 0..Len(Body[f]) |-> IF v = 0 THEN f ELSE Body[f][v]]
    BY DEF Init, InitGraphs
  <2>2. \A v \in 0..Len(Body[f]) : v # 0 => v \in 1..Len(Body[f])
    BY <1>1
  <2>3. \A v \in 1..Len(Body[f]) : /\ Body[f][v] \in Sites /\ Body[f][v] \in Calls(f)
                                  /\ v \in 0..Len(Body[f]) /\ v # 0
    <3>1. Body[f] \in Seq(Sites)
      OBVIOUS
    <3>2. DOMAIN Body[f] = 1..Len(Body[f])
      BY <3>1
    <3> QED BY <3>1, <3>2, <1>1 DEF Calls
  <2>4. \A v \in 0..Len(Body[f]) : (IF v = 0 THEN f ELSE Body[f][v]) \in Functions \cup Sites
    BY <2>2, <2>3
  <2>5. 0 \in 0..Len(Body[f])
    BY <1>1
  <2>6. node[f] \in [0..Len(Body[f]) -> Functions \cup Sites]
    BY <2>1, <2>4
  <2>7. node[f][0] = f
    BY <2>1, <2>5
  <2>8. \A v \in 1..Len(Body[f]) : node[f][v] = Body[f][v]
    BY <2>1, <2>3
  <2> QED BY <2>3, <2>6, <2>7, <2>8, <1>1
<1>3. ASSUME NEW f \in Functions
      PROVE  /\ \A e \in arc[f] : \E v \in 1..Len(Body[f]) : e = <<0, v>>
             /\ \A v \in 1..Len(Body[f]) : <<0, v>> \in arc[f]
  BY DEF Init, InitGraphs
<1>4. Shape
  BY DEF Init, InitGraphs, Shape
<1>5. ASSUME NEW f \in Functions PROVE GraphOK(f)
  <2>1. ASSUME NEW e \in arc[f]
        PROVE  /\ e \in Vertices(f) \X Vertices(f)
               /\ node[f][e[1]] = f /\ node[f][e[2]] \in Calls(f)
    <3>1. PICK v \in 1..Len(Body[f]) : e = <<0, v>>
      BY <1>3
    <3>2. v \in Vertices(f) /\ 0 \in Vertices(f)
      BY <1>1
    <3>3. e[1] = 0 /\ e[2] = v
      BY <3>1
    <3> QED BY <3>1, <3>2, <3>3, <1>2
  <2>2. size[f] \in Nat \ {0}
    BY <1>1
  <2> QED BY <2>1, <2>2, <1>2 DEF GraphOK, IsCall
<1>6. stack = <<[on |-> Main, at |-> 0, limit |-> Len(Body[Main]) + 1, step |-> "visit",
                 todo |-> {}, callee |-> Main, link |-> 0]>>
  BY DEF Init
<1>7. StackOK
  <2>1. Len(Body[Main]) \in Nat /\ size[Main] = Len(Body[Main]) + 1
    BY <1>1
  <2>2. Depth = 1 /\ stack \in Seq(Frame)
    BY <1>6, <2>1 DEF Depth, Frame
  <2>3. FrameOK(stack[1])
    BY <1>6, <2>1 DEF FrameOK
  <2> QED BY <2>2, <2>3 DEF StackOK
<1>8. TreeShaped
  <2>1. \A f, v : ~Pending(f, v)
    BY <1>6 DEF Pending, Top, Depth
  <2>2. ASSUME NEW f \in Functions, NEW v \in Vertices(f)
        PROVE  /\ v = 0 => Parents(f, v) = {}
               /\ v # 0 => Parents(f, v) = {0} /\ 0 \in 0..(v - 1)
    <3>1. v \in 0..Len(Body[f]) /\ Len(Body[f]) \in Nat
      BY <1>1
    <3>2. ASSUME NEW e \in arc[f] PROVE e[1] = 0 /\ e[2] # 0
      <4>1. PICK w \in 1..Len(Body[f]) : e = <<0, w>>
        BY <1>3
      <4>2. w # 0
        BY <3>1
      <4> QED BY <4>1, <4>2
    <3>3. v # 0 => v \in 1..Len(Body[f]) /\ <<0, v>> \in arc[f] /\ 0 \in 0..(v - 1)
      BY <1>3, <3>1
    <3>4. <<0, v>>[1] = 0 /\ <<0, v>>[2] = v
      OBVIOUS
    <3> QED BY <3>2, <3>3, <3>4 DEF Parents
  <2> QED BY <2>1, <2>2 DEF TreeShaped
<1> QED BY <1>4, <1>5, <1>7, <1>8 DEF IInv, Init

\* A frame below the top keeps its vertex, its callee and its limit when graphs grow.
LEMMA FrameKept ==
    ASSUME IInv, NEW t \in Frame, FrameOK(t), t.step # "link", UNCHANGED callees,
           size'[t.on] \in Nat, size[t.on] <= size'[t.on],
           \A v \in Vertices(t.on) : node'[t.on][v] = node[t.on][v]
    PROVE  FrameOK(t)'
<1>1. size[t.on] \in Nat /\ t.at \in Nat /\ t.limit \in Nat /\ t.on \in Functions
  BY DEF IInv, GraphOK, Frame
<1>2. t.step # "visit" => t.at \in Vertices(t.on)
  BY <1>1 DEF FrameOK, Vertices
<1>3. t.step # "visit" => node'[t.on][t.at] = node[t.on][t.at]
  BY <1>2
<1>4. t.limit <= size'[t.on]
  BY <1>1 DEF FrameOK
<1> QED BY <1>3, <1>4 DEF FrameOK, CalleesOf

LEMMA AppendInv == IInv /\ AppendCallee => IInv'
<1> SUFFICES ASSUME IInv, AppendCallee PROVE IInv'
  OBVIOUS
<1>1. /\ stack \in Seq(Frame) /\ stack # <<>> /\ Top.step = "append"
      /\ stack' = Replaced([Top EXCEPT !.link = size[Top.on], !.step = "link"])
      /\ G!Attach(Top.on, Top.callee) /\ UNCHANGED <<callees, scanned>>
  BY DEF AppendCallee, IInv, StackOK
<1>2. PICK g \in Functions, h \in Functions : g = Top.on /\ h = Top.callee
  BY <1>1, TopOK
<1>2t. PICK t : t = [Top EXCEPT !.link = size[Top.on], !.step = "link"]
  OBVIOUS
<1>3. GraphOK(g) /\ GraphOK(h) /\ size[g] \in Nat \ {0} /\ size[h] \in Nat \ {0}
  BY <1>2 DEF IInv, GraphOK
<1>4. /\ t \in Frame /\ t.on = g /\ t.at = Top.at /\ t.limit = Top.limit /\ t.callee = h
      /\ t.todo = Top.todo /\ t.link = size[g] /\ t.step = "link"
  <2>1. Top \in Frame
    BY <1>1, TopOK
  <2> QED BY <1>2, <1>2t, <1>3, <2>1 DEF Frame
<1>5. /\ Depth' = Depth /\ Depth \in Nat \ {0} /\ Top' = t /\ stack' \in Seq(Frame) /\ stack' # <<>>
      /\ \A i \in 1..Depth : stack'[i] = IF i = Depth THEN t ELSE stack[i]
  BY <1>1, <1>2, <1>2t, <1>4, ReplaceTop DEF Depth, Top
<1>6. /\ size'[g] = size[g] + size[h]
      /\ \A f \in Functions \ {g} : size'[f] = size[f] /\ node'[f] = node[f]
      /\ \A v \in Vertices(g) : node'[g][v] = node[g][v]
      /\ \A v \in Vertices(h) : node'[g][size[g] + v] = node[h][v]
      /\ Shape' /\ \A f \in Functions : GraphOK(f)'
  BY <1>1, <1>2, AttachGraphs
<1>7. ASSUME NEW f \in Functions
      PROVE  /\ size'[f] \in Nat /\ size[f] \in Nat /\ size[f] <= size'[f]
             /\ \A v \in Vertices(f) : node'[f][v] = node[f][v]
  <2>1. size[f] \in Nat
    BY DEF IInv, GraphOK
  <2> QED BY <2>1, <1>3, <1>6
<1>8. StackOK'
  <2>1. \A u \in Frame : FrameOK(u) /\ u.step # "link" => FrameOK(u)'
    <3> SUFFICES ASSUME NEW u \in Frame, FrameOK(u), u.step # "link" PROVE FrameOK(u)'
      OBVIOUS
    <3>1. u.on \in Functions
      BY DEF Frame
    <3> QED BY <3>1, <1>1, <1>7, FrameKept
  <2>2. FrameOK(t)'
    <3>1. FrameOK(Top) /\ Top.at \in Nat /\ Top.limit \in Nat
      BY <1>1, TopOK
    <3>2. Top.at < Top.limit /\ Top.limit <= size[g] /\ Top.at \in Vertices(g)
      BY <3>1, <1>1, <1>2, <1>3 DEF FrameOK, Vertices
    <3>3. node'[g][t.at] = node[g][Top.at]
      BY <3>2, <1>4, <1>6
    <3>4. t.todo \subseteq CalleesOf(node[g][Top.at]) /\ h \in CalleesOf(node[g][Top.at])
      BY <3>1, <1>1, <1>2, <1>4 DEF FrameOK
    <3>5. node'[g][t.link] = h
      <4>1. 0 \in Vertices(h) /\ size[g] + 0 = size[g]
        BY <1>3 DEF Vertices
      <4>2. node[h][0] = h
        BY <1>3 DEF GraphOK
      <4> QED BY <4>1, <4>2, <1>4, <1>6
    <3>6. t.limit <= size'[g] /\ t.link < size'[g] /\ t.limit <= t.link /\ t.at < t.limit /\ t.at <= t.limit
      BY <3>1, <3>2, <1>3, <1>4, <1>6
    <3> QED BY <3>3, <3>4, <3>5, <3>6, <1>1, <1>4 DEF FrameOK, CalleesOf
  <2>3. \A i \in 1..Depth : FrameOK(stack[i]) /\ stack[i] \in Frame
                           /\ (i # Depth => stack[i].step = "append")
    <3>1. stack # <<>>
      BY <1>1
    <3> QED BY FramesOK
  <2>4. \A i \in 1..Depth : \A u : u = stack'[i] => FrameOK(u)'
    BY <2>1, <2>2, <2>3, <1>5
  <2>5. \A i \in 1..Depth : i < Depth => stack'[i].step = "append"
    BY <2>3, <1>5
  <2> QED BY <2>4, <2>5, <1>5 DEF StackOK, FrameOK
<1>9. TreeShaped'
  <2>1. \A f, v : ~Pending(f, v) /\ (Pending(f, v)' <=> f = g /\ v = size[g])
    BY <1>1, <1>4, <1>5 DEF Pending
  <2>2. /\ \A v \in Vertices(g) : Parents(g, v)' = Parents(g, v)
        /\ \A v \in Vertices(h), w \in Int : w = size[g] + v =>
              Parents(g, w)' = {p + size[g] : p \in Parents(h, v)}
        /\ \A f \in Functions \ {g} : \A v : Parents(f, v)' = Parents(f, v)
    BY <1>1, <1>2, AttachParents
  <2>3. \A f \in Functions : \A v \in Vertices(f) :
          IF v = 0 THEN Parents(f, v) = {} ELSE \E p \in 0..(v - 1) : Parents(f, v) = {p}
    BY <2>1 DEF IInv, TreeShaped
  <2>4. ASSUME NEW f \in Functions, NEW v \in Vertices(f)'
        PROVE  IF v = 0 \/ (f = g /\ v = size[g]) THEN Parents(f, v)' = {}
               ELSE \E p \in 0..(v - 1) : Parents(f, v)' = {p}
    <3>1. CASE f # g
      <4>1. v \in Vertices(f)
        BY <3>1, <1>6 DEF Vertices
      <4> QED BY <3>1, <4>1, <2>2, <2>3
    <3>2. CASE f = g /\ v < size[g]
      <4>1. v \in Vertices(g)
        BY <3>2, <1>3, <1>6 DEF Vertices
      <4> QED BY <3>2, <4>1, <2>2, <2>3, <1>3
    <3>3. CASE f = g /\ ~(v < size[g])
      <4>1. PICK w \in Vertices(h) : v = size[g] + w
        <5>1. v - size[g] \in Vertices(h) /\ v = size[g] + (v - size[g])
          BY <3>3, <1>3, <1>6 DEF Vertices
        <5> QED BY <5>1
      <4>2. Parents(g, v)' = {p + size[g] : p \in Parents(h, w)} /\ w \in Nat /\ v # 0
        BY <4>1, <2>2, <1>3 DEF Vertices
      <4>3. CASE w = 0
        BY <4>1, <4>2, <4>3, <3>3, <2>3, <1>3
      <4>4. CASE w # 0
        <5>1. PICK p \in 0..(w - 1) : Parents(h, w) = {p}
          BY <4>4, <2>3
        <5>2. Parents(g, v)' = {p + size[g]} /\ p + size[g] \in 0..(v - 1)
          BY <5>1, <4>1, <4>2, <1>3
        <5>3. v # size[g]
          BY <4>1, <4>2, <4>4, <1>3
        <5> QED BY <5>2, <5>3, <4>2, <3>3
      <4> QED BY <4>3, <4>4
    <3> QED BY <3>1, <3>2, <3>3
  <2> QED BY <2>1, <2>4 DEF TreeShaped
<1> QED BY <1>1, <1>6, <1>8, <1>9 DEF IInv

LEMMA LinkInv == IInv /\ Link => IInv'
<1> SUFFICES ASSUME IInv, Link PROVE IInv'
  OBVIOUS
<1>1. /\ stack \in Seq(Frame) /\ stack # <<>> /\ Top.step = "link"
      /\ stack' = Replaced([Top EXCEPT !.step = "call"])
      /\ arc' = [arc EXCEPT ![Top.on] = @ \cup {<<Top.at, Top.link>>}]
      /\ UNCHANGED <<size, node, callees, scanned>>
  BY DEF Link, IInv, StackOK, G!Connect
<1>2. PICK g \in Functions, a \in Nat, b \in Nat : g = Top.on /\ a = Top.at /\ b = Top.link
  BY <1>1, TopOK
<1>2t. PICK t : t = [Top EXCEPT !.step = "call"]
  OBVIOUS
<1>3. /\ t \in Frame /\ t.on = g /\ t.at = a /\ t.limit = Top.limit /\ t.callee = Top.callee
      /\ t.todo = Top.todo /\ t.link = b /\ t.step = "call"
  <2>1. Top \in Frame
    BY <1>1, TopOK
  <2> QED BY <1>2, <1>2t, <2>1 DEF Frame
<1>4. /\ Depth' = Depth /\ Depth \in Nat \ {0} /\ Top' = t /\ stack' \in Seq(Frame) /\ stack' # <<>>
      /\ \A i \in 1..Depth : stack'[i] = IF i = Depth THEN t ELSE stack[i]
  <2>1. stack' = Replaced(t) /\ stack \in Seq(Frame) /\ stack # <<>>
    BY <1>1, <1>2, <1>2t
  <2> QED BY <2>1, <1>3, ReplaceTop DEF Depth, Top
<1>5. /\ size[g] \in Nat \ {0} /\ Top.limit \in Nat
      /\ a < Top.limit /\ Top.limit <= b /\ b < size[g] /\ a < b
      /\ node[g][b] = Top.callee /\ Top.callee \in CalleesOf(node[g][a])
  <2>1. FrameOK(Top) /\ Top.limit \in Nat
    BY <1>1, TopOK
  <2>2. size[g] \in Nat \ {0}
    BY DEF IInv, GraphOK
  <2> QED BY <1>1, <1>2, <2>1, <2>2 DEF FrameOK
<1>6. /\ arc'[g] = arc[g] \cup {<<a, b>>} /\ Shape'
      /\ \A f \in Functions \ {g} : arc'[f] = arc[f]
  BY <1>1, <1>2 DEF IInv, Shape
<1>7. \A f \in Functions : GraphOK(f)'
  <2>1. \A f \in Functions \ {g} : GraphOK(f)'
    BY <1>1, <1>6 DEF IInv, GraphOK, Vertices, IsCall
  <2>2. GraphOK(g)
    BY DEF IInv
  <2>3. a \in Vertices(g) /\ b \in Vertices(g)
    BY <1>5 DEF Vertices
  <2>4. IsCall(node[g][a], node[g][b])
    <3>1. node[g][a] \in Sites /\ node[g][b] \in callees[node[g][a]]
      BY <1>5 DEF CalleesOf
    <3> QED BY <3>1, ProgramAssumption DEF IsCall
  <2>5. <<a, b>>[1] = a /\ <<a, b>>[2] = b
    OBVIOUS
  <2>6. GraphOK(g)'
    BY <1>1, <1>6, <2>2, <2>3, <2>4, <2>5 DEF GraphOK, Vertices, IsCall
  <2> QED BY <2>1, <2>6
<1>8. StackOK'
  <2>1. \A u : FrameOK(u)' <=> FrameOK(u)
    BY <1>1 DEF FrameOK, CalleesOf
  <2>2. FrameOK(Top)
    BY <1>1, TopOK
  <2>3. FrameOK(t)
    BY <2>2, <1>1, <1>2, <1>3 DEF FrameOK
  <2>4. stack # <<>>
    BY <1>1
  <2>5. \A i \in 1..Depth : FrameOK(stack[i]) /\ (i # Depth => stack[i].step = "append")
    BY FramesOK
  <2>6. \A i \in 1..Depth : FrameOK(stack'[i]) /\ (i < Depth => stack'[i].step = "append")
    BY <2>3, <2>5, <1>4
  <2> QED BY <2>1, <2>6, <1>4 DEF StackOK
<1>9. TreeShaped'
  <2>1. \A f, v : ~Pending(f, v)' /\ (Pending(f, v) <=> f = g /\ v = b)
    BY <1>1, <1>2, <1>3, <1>4 DEF Pending
  <2>2. \A f \in Functions : \A v :
          Parents(f, v)' = IF f = g /\ v = b THEN Parents(f, v) \cup {a} ELSE Parents(f, v)
    <3>1. ASSUME NEW v PROVE Parents(g, v)' = IF v = b THEN Parents(g, v) \cup {a} ELSE Parents(g, v)
      <4>1. <<a, b>>[1] = a /\ <<a, b>>[2] = b
        OBVIOUS
      <4> QED BY <1>6, <4>1 DEF Parents
    <3>2. \A f \in Functions \ {g} : \A v : Parents(f, v)' = Parents(f, v)
      BY <1>6 DEF Parents
    <3> QED BY <3>1, <3>2
  <2>3. Parents(g, b) = {} /\ b # 0 /\ a \in 0..(b - 1)
    <3>1. b \in Vertices(g)
      BY <1>5 DEF Vertices
    <3> QED BY <3>1, <2>1, <1>5 DEF IInv, TreeShaped
  <2>4. ASSUME NEW f \in Functions, NEW v \in Vertices(f)
        PROVE  IF v = 0 THEN Parents(f, v)' = {} ELSE \E p \in 0..(v - 1) : Parents(f, v)' = {p}
    <3>1. CASE f = g /\ v = b
      BY <3>1, <2>2, <2>3
    <3>2. CASE ~(f = g /\ v = b)
      BY <3>2, <2>1, <2>2 DEF IInv, TreeShaped
    <3> QED BY <3>1, <3>2
  <2>5. \A f \in Functions : Vertices(f)' = Vertices(f)
    BY <1>1 DEF Vertices
  <2> QED BY <2>1, <2>4, <2>5 DEF TreeShaped
<1> QED BY <1>1, <1>6, <1>7, <1>8, <1>9 DEF IInv

LEMMA CallNewInv == ASSUME IInv, NEW c \in Functions, CallNew(c) PROVE IInv'
<1>1. /\ stack \in Seq(Frame) /\ stack # <<>> /\ Top.step = "call" /\ c \in Top.todo
      /\ stack' = Append(Callee(c), Traversal(c)) /\ scanned' = scanned \cup {c}
      /\ UNCHANGED <<callees, graphs>>
  BY DEF CallNew, IInv, StackOK
<1>2. PICK t : t = [Top EXCEPT !.todo = @ \ {c}, !.callee = c, !.step = "append"]
  OBVIOUS
<1>3. /\ t \in Frame /\ t.on = Top.on /\ t.at = Top.at /\ t.limit = Top.limit /\ t.callee = c
      /\ t.todo = Top.todo \ {c} /\ t.link = Top.link /\ t.step = "append"
  <2>1. Top \in Frame
    BY <1>1, TopOK
  <2> QED BY <1>2, <2>1 DEF Frame
<1>4. PICK n : n = Traversal(c)
  OBVIOUS
<1>5. /\ n \in Frame /\ n.on = c /\ n.at = 0 /\ n.limit = size[c] /\ n.step = "visit"
      /\ size[c] \in Nat
  <2>1. size[c] \in Nat
    BY DEF IInv, GraphOK
  <2> QED BY <1>4, <2>1 DEF Traversal, Frame
<1>6. /\ Depth' = Depth + 1 /\ Depth \in Nat \ {0} /\ Top' = n /\ stack' \in Seq(Frame) /\ stack' # <<>>
      /\ \A i \in 1..(Depth + 1) :
            stack'[i] = IF i = Depth + 1 THEN n ELSE IF i = Depth THEN t ELSE stack[i]
  <2> DEFINE r == Replaced(t)
  <2>1. /\ Depth \in Nat \ {0} /\ r \in Seq(Frame) /\ Len(r) = Depth
        /\ \A i \in 1..Depth : r[i] = IF i = Depth THEN t ELSE stack[i]
    BY <1>1, <1>3, ReplaceTop
  <2>2. stack' = Append(r, n)
    BY <1>1, <1>2, <1>4 DEF Callee
  <2> HIDE DEF r
  <2>3. /\ stack' \in Seq(Frame) /\ Len(stack') = Depth + 1 /\ stack'[Depth + 1] = n
        /\ \A i \in 1..Depth : stack'[i] = r[i]
    BY <2>1, <2>2, <1>5
  <2> QED BY <2>1, <2>3 DEF Depth, Top
<1>7. StackOK'
  <2>1. \A u : FrameOK(u)' <=> FrameOK(u)
    BY <1>1 DEF FrameOK, CalleesOf, graphs
  <2>2. FrameOK(Top)
    BY <1>1, TopOK
  <2>3. FrameOK(t)
    BY <2>2, <1>1, <1>3 DEF FrameOK
  <2>4. FrameOK(n)
    BY <1>5 DEF FrameOK
  <2>5. stack # <<>>
    BY <1>1
  <2>6. \A i \in 1..Depth : FrameOK(stack[i]) /\ (i # Depth => stack[i].step = "append")
    BY FramesOK
  <2>7. \A i \in 1..(Depth + 1) : FrameOK(stack'[i]) /\ (i < Depth + 1 => stack'[i].step = "append")
    BY <2>3, <2>4, <2>6, <1>3, <1>6
  <2> QED BY <2>1, <2>7, <1>6 DEF StackOK
<1>8. TreeShaped'
  <2>1. \A f, v : ~Pending(f, v) /\ ~Pending(f, v)'
    BY <1>1, <1>5, <1>6 DEF Pending
  <2> QED BY <1>1, <2>1, ZenonT(40) DEF IInv, TreeShaped, Vertices, Parents, graphs
<1>9. Shape' /\ \A f \in Functions : GraphOK(f)'
  BY <1>1 DEF IInv, Shape, GraphOK, Vertices, IsCall, graphs
<1> QED BY <1>1, <1>7, <1>8, <1>9 DEF IInv

LEMMA ReturnInv == IInv /\ Return => IInv'
<1> SUFFICES ASSUME IInv, Return PROVE IInv'
  OBVIOUS
<1>1. /\ stack # <<>> /\ Top.step = "visit" /\ stack' = SubSeq(stack, 1, Depth - 1)
      /\ UNCHANGED <<callees, graphs, scanned>> /\ stack \in Seq(Frame)
  BY DEF Return, IInv, StackOK
<1>2. /\ Depth \in Nat \ {0} /\ Depth' = Depth - 1 /\ stack' \in Seq(Frame)
      /\ \A i \in 1..(Depth - 1) : stack'[i] = stack[i]
  <2>1. Depth \in Nat \ {0} /\ \A i \in 1..Depth : stack[i] \in Frame
    BY <1>1 DEF Depth
  <2>2. SubSeq(stack, 1, Depth - 1) = [i \in 1..(Depth - 1) |-> stack[i]]
    BY <1>1, <2>1
  <2>3. stack' = [i \in 1..(Depth - 1) |-> stack[i]]
    BY <1>1, <2>2
  <2>4. stack' \in Seq(Frame) /\ Len(stack') = Depth - 1
    BY <2>1, <2>3
  <2> QED BY <2>1, <2>3, <2>4 DEF Depth
<1>3. stack # <<>>
  BY <1>1
<1>4. \A i \in 1..Depth : FrameOK(stack[i]) /\ (i # Depth => stack[i].step = "append")
  BY FramesOK
<1>5. StackOK'
  <2>1. \A u : FrameOK(u)' <=> FrameOK(u)
    BY <1>1 DEF FrameOK, CalleesOf, graphs
  <2>2. \A i \in 1..(Depth - 1) : FrameOK(stack'[i]) /\ stack'[i].step = "append"
    BY <1>2, <1>4
  <2> QED BY <2>1, <2>2, <1>2 DEF StackOK
<1>6. TreeShaped'
  <2>1. stack' # <<>> => Top'.step = "append"
    <3>1. stack' # <<>> => Depth - 1 \in 1..(Depth - 1)
      BY <1>2 DEF Depth
    <3> QED BY <3>1, <1>2, <1>4 DEF Top
  <2>2. \A f, v : ~Pending(f, v) /\ ~Pending(f, v)'
    BY <1>1, <2>1 DEF Pending
  <2> QED BY <1>1, <2>2 DEF IInv, TreeShaped, Vertices, Parents, graphs
<1>7. Shape' /\ \A f \in Functions : GraphOK(f)'
  BY <1>1 DEF IInv, Shape, GraphOK, Vertices, IsCall, graphs
<1> QED BY <1>1, <1>5, <1>6, <1>7 DEF IInv
-----------------------------------------------------------------------------
LEMMA NextVertexInv ==
    ASSUME IInv, stack # <<>>, Top.at < Top.limit, Top.step # "link", NextVertex,
           UNCHANGED <<callees, graphs, scanned>>
    PROVE  IInv'
<1>1. PICK t : t = [Top EXCEPT !.at = @ + 1, !.step = "visit"]
  OBVIOUS
<1>2. /\ t \in Frame /\ t.on = Top.on /\ t.at = Top.at + 1 /\ t.limit = Top.limit
      /\ t.step = "visit"
  <2>1. Top \in Frame /\ Top.at \in Nat
    BY TopOK
  <2>2. PICK a \in Nat : a = Top.at + 1
    BY <2>1
  <2>3. t = [Top EXCEPT !.at = a, !.step = "visit"]
    BY <1>1, <2>2
  <2> QED BY <2>1, <2>2, <2>3 DEF Frame
<1>3. FrameOK(t)
  <2>1. FrameOK(Top) /\ Top.at \in Nat /\ Top.limit \in Nat
    BY TopOK
  <2>2. t.at <= t.limit
    BY <1>2, <2>1
  <2> QED BY <1>2, <2>1, <2>2 DEF FrameOK
<1>4. stack' = Replaced(t) /\ scanned' \subseteq Functions
  BY <1>1 DEF NextVertex, IInv
<1> QED BY <1>2, <1>3, <1>4, MoveTop

LEMMA VisitInv == IInv /\ Visit => IInv'
<1> SUFFICES ASSUME IInv, Visit PROVE IInv'
  OBVIOUS
<1>1. PICK t : t = [Top EXCEPT !.todo = Here, !.step = "call"]
  OBVIOUS
<1>2. /\ stack # <<>> /\ Top.step = "visit" /\ Top.at < Top.limit
      /\ stack' = Replaced(t) /\ UNCHANGED <<callees, graphs>> /\ scanned' \subseteq Functions
  BY <1>1 DEF Visit, IInv
<1>3. Here \subseteq Functions
  BY Types DEF Here, CalleesOf
<1>4. /\ t \in Frame /\ t.on = Top.on /\ t.at = Top.at /\ t.limit = Top.limit
      /\ t.todo = Here /\ t.step = "call"
  <2>1. Top \in Frame
    BY <1>2, TopOK
  <2> QED BY <1>1, <1>3, <2>1 DEF Frame
<1>5. FrameOK(t)
  <2>1. FrameOK(Top)
    BY <1>2, TopOK
  <2> QED BY <1>2, <1>4, <2>1 DEF FrameOK, Here
<1> QED BY <1>2, <1>4, <1>5, MoveTop

LEMMA CallKnownInv == ASSUME IInv, NEW c \in Functions, CallKnown(c) PROVE IInv'
<1>1. PICK t : t = [Top EXCEPT !.todo = @ \ {c}, !.callee = c, !.step = "append"]
  OBVIOUS
<1>2. /\ stack # <<>> /\ Top.step = "call" /\ c \in Top.todo
      /\ stack' = Replaced(t) /\ UNCHANGED <<callees, graphs>> /\ scanned' \subseteq Functions
  BY <1>1 DEF CallKnown, Callee, IInv
<1>3. /\ t \in Frame /\ t.on = Top.on /\ t.at = Top.at /\ t.limit = Top.limit /\ t.callee = c
      /\ t.todo = Top.todo \ {c} /\ t.step = "append"
  <2>1. Top \in Frame
    BY <1>2, TopOK
  <2> QED BY <1>1, <2>1 DEF Frame
<1>4. FrameOK(t)
  <2>1. FrameOK(Top)
    BY <1>2, TopOK
  <2> QED BY <1>2, <1>3, <2>1 DEF FrameOK
<1> QED BY <1>2, <1>3, <1>4, MoveTop

LEMMA NextInv == IInv /\ [Next]_vars => IInv'
<1> SUFFICES ASSUME IInv, [Next]_vars PROVE IInv'
  OBVIOUS
<1>1. CASE Skip
  BY <1>1, NextVertexInv DEF Skip
<1>2. CASE Visit
  BY <1>2, VisitInv
<1>3. CASE \E c \in Functions : CallKnown(c) \/ CallNew(c)
  BY <1>3, CallKnownInv, CallNewInv
<1>4. CASE AppendCallee
  BY <1>4, AppendInv
<1>5. CASE Link
  BY <1>5, LinkInv
<1>6. CASE AllConnected
  <2>1. stack # <<>> /\ Top.step = "call"
    BY <1>6 DEF AllConnected
  <2>2. FrameOK(Top)
    BY <2>1, TopOK
  <2>3. Top.at < Top.limit
    BY <2>1, <2>2 DEF FrameOK
  <2> QED BY <1>6, <2>1, <2>3, NextVertexInv DEF AllConnected
<1>7. CASE Return
  BY <1>7, ReturnInv
<1>8. CASE UNCHANGED vars
  <2>1. UNCHANGED <<callees, size, node, arc, scanned, stack>>
    BY <1>8 DEF vars, graphs
  <2>2. Shape' /\ \A f \in Functions : GraphOK(f)'
    BY <2>1 DEF IInv, Shape, GraphOK, Vertices, IsCall
  <2>3. StackOK'
    BY <2>1 DEF IInv, StackOK, FrameOK, CalleesOf, Depth
  <2>4. TreeShaped'
    BY <2>1 DEF IInv, TreeShaped, Vertices, Parents, Pending, Top, Depth
  <2> QED BY <2>1, <2>2, <2>3, <2>4 DEF IInv
<1> QED BY <1>1, <1>2, <1>3, <1>4, <1>5, <1>6, <1>7, <1>8 DEF Next, Connect, Terminated

LEMMA Invariant == Spec => []IInv
  BY InitInv, NextInv, PTL DEF Spec

\* The variables keep their types, whatever is appended to what.
THEOREM TypeCorrect == Spec => []TypeOK
<1>1. IInv => TypeOK
  BY Types
<1> QED BY Invariant, <1>1, PTL

\* Every graph stays a tree with growing numbers downwards (424-428).
THEOREM TreesStay == Spec => []TreeShaped
<1>1. IInv => TreeShaped
  BY DEF IInv
<1> QED BY Invariant, <1>1, PTL

\* Only calls of a function are below it, only callees below a call (411-428).
THEOREM CallsOnly == Spec => []EdgesAreCalls
<1>1. IInv => EdgesAreCalls
  BY Types
<1> QED BY Invariant, <1>1, PTL
-----------------------------------------------------------------------------
\* Every function that is walked over above main was marked before.
Entered == /\ stack \in Seq(Frame)
           /\ stack # <<>> => stack[1].on = Main
           /\ \A i \in 2..Depth : stack[i].on \in scanned
           /\ NoReentry

\* A step that keeps the functions of the frames, or drops the top one.
LEMMA SameFunctions ==
    ASSUME Entered, stack' \in Seq(Frame), Depth' <= Depth, UNCHANGED scanned,
           \A i \in 1..Depth' : stack'[i].on = stack[i].on
    PROVE  Entered'
<1>1. Depth \in Nat /\ Depth' \in Nat /\ (stack # <<>> <=> Depth > 0) /\ (stack' # <<>> <=> Depth' > 0)
  BY DEF Entered, Depth
<1>2. \A i \in 1..Depth' : i \in 1..Depth
  BY <1>1
<1>3. stack' # <<>> => stack'[1].on = Main
  BY <1>1 DEF Entered
<1>4. \A i \in 2..Depth' : stack'[i].on \in scanned'
  BY <1>1 DEF Entered
<1>5. NoReentry'
  BY <1>1, <1>2 DEF Entered, NoReentry
<1> QED BY <1>3, <1>4, <1>5 DEF Entered

LEMMA SameTop ==
    ASSUME Entered, NEW t \in Frame, stack # <<>>, stack' = Replaced(t), t.on = Top.on,
           UNCHANGED scanned
    PROVE  Entered'
<1>1. /\ Depth \in Nat \ {0} /\ stack' \in Seq(Frame) /\ Depth' = Depth
      /\ \A i \in 1..Depth : stack'[i] = IF i = Depth THEN t ELSE stack[i]
  BY ReplaceTop DEF Entered, Depth
<1>2. \A i \in 1..Depth' : stack'[i].on = stack[i].on
  BY <1>1 DEF Top
<1> QED BY <1>1, <1>2, SameFunctions

LEMMA EnteredInit == Init => Entered
<1> SUFFICES ASSUME Init PROVE Entered
  OBVIOUS
<1>1. PICK t : /\ t = [on |-> Main, at |-> 0, limit |-> Len(Body[Main]) + 1,
                       step |-> "visit", todo |-> {}, callee |-> Main, link |-> 0]
               /\ stack = <<t>>
  BY DEF Init
<1>2. t \in Frame
  BY <1>1, ProgramAssumption DEF Frame
<1> QED BY <1>1, <1>2 DEF Entered, NoReentry, Depth

LEMMA EnteredNew == ASSUME IInv, Entered, NEW c \in Functions, CallNew(c) PROVE Entered'
<1>1. /\ stack \in Seq(Frame) /\ stack # <<>> /\ c \notin scanned
      /\ stack' = Append(Callee(c), Traversal(c)) /\ scanned' = scanned \cup {c}
  BY DEF CallNew, Entered
<1>2. PICK t : t = [Top EXCEPT !.todo = @ \ {c}, !.callee = c, !.step = "append"]
  OBVIOUS
<1>3. t \in Frame /\ t.on = Top.on
  <2>1. Top \in Frame
    BY <1>1, TopOK
  <2> QED BY <1>2, <2>1 DEF Frame
<1>4. PICK n : n = Traversal(c)
  OBVIOUS
<1>5. n \in Frame /\ n.on = c
  <2>1. size[c] \in Nat
    BY DEF IInv, GraphOK
  <2> QED BY <1>4, <2>1 DEF Traversal, Frame
<1>6. /\ Depth' = Depth + 1 /\ Depth \in Nat \ {0} /\ stack' \in Seq(Frame)
      /\ \A i \in 1..Depth : stack'[i].on = stack[i].on
      /\ stack'[Depth + 1].on = c
  <2> DEFINE r == Replaced(t)
  <2>1. /\ Depth \in Nat \ {0} /\ r \in Seq(Frame) /\ Len(r) = Depth
        /\ \A i \in 1..Depth : r[i] = IF i = Depth THEN t ELSE stack[i]
    BY <1>1, <1>3, ReplaceTop
  <2>2. stack' = Append(r, n)
    BY <1>1, <1>2, <1>4 DEF Callee
  <2>3. \A i \in 1..Depth : r[i].on = stack[i].on
    BY <2>1, <1>3 DEF Top
  <2> HIDE DEF r
  <2>4. /\ stack' \in Seq(Frame) /\ Len(stack') = Depth + 1 /\ stack'[Depth + 1] = n
        /\ \A i \in 1..Depth : stack'[i] = r[i]
    BY <2>1, <2>2, <1>5
  <2> QED BY <2>1, <2>3, <2>4, <1>5 DEF Depth
<1>7. stack'[1].on = Main
  BY <1>1, <1>6 DEF Entered
<1>8. \A i \in 2..Depth' : stack'[i].on \in scanned'
  <2>1. \A i \in 2..Depth' : i = Depth + 1 \/ (i \in 2..Depth /\ i \in 1..Depth)
    BY <1>6
  <2>2. \A i \in 2..Depth : stack[i].on \in scanned
    BY DEF Entered
  <2> QED BY <2>1, <2>2, <1>1, <1>6
<1>9. NoReentry'
  <2>1. ASSUME NEW i \in 1..(Depth + 1), NEW j \in 1..(Depth + 1), i < j,
               stack'[i].on = stack'[j].on
        PROVE  i = 1 /\ stack'[i].on = Main
    <3>1. CASE j # Depth + 1
      <4>1. i \in 1..Depth /\ j \in 1..Depth
        BY <3>1, <2>1, <1>6
      <4> QED BY <4>1, <2>1, <1>6 DEF Entered, NoReentry
    <3>2. CASE j = Depth + 1
      <4>1. i \in 1..Depth /\ stack[i].on = c
        BY <3>2, <2>1, <1>6
      <4>2. i \notin 2..Depth
        BY <4>1, <1>1 DEF Entered
      <4>3. i = 1
        BY <4>1, <4>2, <1>6
      <4> QED BY <4>3, <1>7
    <3> QED BY <3>1, <3>2
  <2> QED BY <2>1, <1>6 DEF NoReentry
<1> QED BY <1>6, <1>7, <1>8, <1>9 DEF Entered

LEMMA EnteredNext == IInv /\ Entered /\ [Next]_vars => Entered'
<1> SUFFICES ASSUME IInv, Entered, [Next]_vars PROVE Entered'
  OBVIOUS
<1>t. stack # <<>> => Top \in Frame /\ Top.at \in Nat
  BY TopOK
<1>1. CASE Skip \/ AllConnected
  <2>1. PICK t : t = [Top EXCEPT !.at = @ + 1, !.step = "visit"]
    OBVIOUS
  <2>2. stack # <<>> /\ stack' = Replaced(t) /\ UNCHANGED scanned
    BY <1>1, <2>1 DEF Skip, AllConnected, NextVertex
  <2>3. t \in Frame /\ t.on = Top.on
    <3>1. PICK a \in Nat : a = Top.at + 1
      BY <1>t, <2>2
    <3>2. t = [Top EXCEPT !.at = a, !.step = "visit"]
      BY <2>1, <3>1
    <3> QED BY <1>t, <2>2, <3>2 DEF Frame
  <2> QED BY <2>2, <2>3, SameTop
<1>2. CASE Visit
  <2>1. PICK t : t = [Top EXCEPT !.todo = Here, !.step = "call"]
    OBVIOUS
  <2>2. stack # <<>> /\ stack' = Replaced(t) /\ UNCHANGED scanned
    BY <1>2, <2>1 DEF Visit
  <2>3. Here \subseteq Functions
    BY Types DEF Here, CalleesOf
  <2>4. t \in Frame /\ t.on = Top.on
    BY <1>t, <2>1, <2>2, <2>3 DEF Frame
  <2> QED BY <2>2, <2>4, SameTop
<1>3. ASSUME NEW c \in Functions, CallKnown(c) PROVE Entered'
  <2>1. PICK t : t = [Top EXCEPT !.todo = @ \ {c}, !.callee = c, !.step = "append"]
    OBVIOUS
  <2>2. stack # <<>> /\ stack' = Replaced(t) /\ UNCHANGED scanned
    BY <1>3, <2>1 DEF CallKnown, Callee
  <2>3. t \in Frame /\ t.on = Top.on
    BY <1>t, <2>1, <2>2 DEF Frame
  <2> QED BY <2>2, <2>3, SameTop
<1>4. CASE AppendCallee
  <2>1. PICK t : t = [Top EXCEPT !.link = size[Top.on], !.step = "link"]
    OBVIOUS
  <2>2. stack # <<>> /\ stack' = Replaced(t) /\ UNCHANGED scanned
    BY <1>4, <2>1 DEF AppendCallee
  <2>3. size[Top.on] \in Nat
    BY <2>2, TopOK DEF IInv, GraphOK
  <2>4. t \in Frame /\ t.on = Top.on
    BY <1>t, <2>1, <2>2, <2>3 DEF Frame
  <2> QED BY <2>2, <2>4, SameTop
<1>5. CASE Link
  <2>1. PICK t : t = [Top EXCEPT !.step = "call"]
    OBVIOUS
  <2>2. stack # <<>> /\ stack' = Replaced(t) /\ UNCHANGED scanned
    BY <1>5, <2>1 DEF Link
  <2>3. t \in Frame /\ t.on = Top.on
    BY <1>t, <2>1, <2>2 DEF Frame
  <2> QED BY <2>2, <2>3, SameTop
<1>6. CASE Return
  <2>1. stack # <<>> /\ stack' = SubSeq(stack, 1, Depth - 1) /\ UNCHANGED scanned
    BY <1>6 DEF Return
  <2>2. Depth \in Nat \ {0} /\ stack \in Seq(Frame) /\ \A i \in 1..Depth : stack[i] \in Frame
    BY <2>1 DEF Entered, Depth
  <2>3. stack' = [i \in 1..(Depth - 1) |-> stack[i]]
    BY <2>1, <2>2
  <2>4. stack' \in Seq(Frame) /\ Len(stack') = Depth - 1
    BY <2>2, <2>3
  <2>5. Depth' <= Depth /\ \A i \in 1..Depth' : stack'[i].on = stack[i].on
    BY <2>2, <2>3, <2>4 DEF Depth
  <2> QED BY <2>1, <2>4, <2>5, SameFunctions
<1>7. CASE UNCHANGED vars
  BY <1>7 DEF vars, Entered, NoReentry, Depth
<1> QED BY <1>1, <1>2, <1>3, <1>4, <1>5, <1>6, <1>7, EnteredNew DEF Next, Connect, Terminated

\* Recursion ends for any program: no function but main is walked over inside its
\* own traversal, and main only once (401-409).
THEOREM RecursionEnds == Spec => []NoReentry
<1>1. Entered => NoReentry
  BY DEF Entered
<1> QED BY Invariant, EnteredInit, EnteredNext, <1>1, PTL DEF Spec
-----------------------------------------------------------------------------
(* Every call gets one copy of each callee                                     *)

\* No child of v is named c; exactly one is.
NoneOf(f, v, c) == \A k \in Children(f, v) : node[f][k] # c
OneOf(f, v, c) == \E k \in Children(f, v) :
                    /\ node[f][k] = c
                    /\ \A l \in Children(f, v) : node[f][l] = c => l = k

\* The calls of f itself keep the first numbers of its graph.
Own(f) == 1..Len(Body[f])
OwnCalls(f) == Len(Body[f]) + 1 <= size[f] /\ \A v \in Own(f) : node[f][v] = Body[f][v]

\* Nothing was appended yet; everything was.
Untouched(f) == size[f] = Len(Body[f]) + 1 /\ \A v \in Own(f) : Children(f, v) = {}
Complete(f) == \A v \in Own(f) : OneEach(f, v)
CopiesComplete == \A f \in Functions : \A v \in Vertices(f) :
                     node[f][v] \in Sites /\ v \notin Own(f) => OneEach(f, v)

\* The callees of the call where traversal t is that are still to be connected.
Waiting(t) == IF t.step \in {"append", "link"} THEN {t.callee} ELSE {}
Left(t) == t.todo \cup Waiting(t)

\* Traversal t has connected the calls before `at', and none behind it.
FrameDone(t) ==
    /\ t.limit = Len(Body[t.on]) + 1
    /\ t.step \in {"append", "link"} => t.callee \in scanned /\ t.callee \notin t.todo
    /\ \A v \in Own(t.on) :
        /\ v < t.at => OneEach(t.on, v)
        /\ v > t.at \/ (v = t.at /\ t.step = "visit") => Children(t.on, v) = {}
        /\ v = t.at /\ t.step # "visit" =>
              \A c \in callees[node[t.on][v]] :
                  IF c \in Left(t) THEN NoneOf(t.on, v, c) ELSE OneOf(t.on, v, c)

OnStack(f) == \E i \in 1..Depth : stack[i].on = f

\* Each frame walks over the callee that the one below it is to append; the graphs that
\* were marked are complete, but for those that are walked over.
Linked == /\ \A i \in 1..Depth : i < Depth => stack[i].callee = stack[i + 1].on
          /\ \A i, j \in 1..Depth : stack[i].on = stack[j].on => i = j
Progress == /\ Main \notin scanned
            /\ \A f \in Functions : OwnCalls(f)
            /\ \A f \in Functions \ (scanned \cup {Main}) : Untouched(f)
            /\ \A f \in scanned \cup {Main} : OnStack(f) \/ Complete(f)
            /\ \A i \in 1..Depth : FrameDone(stack[i])
            /\ Linked
            /\ ~Recursive => CopiesComplete

NoMain == \A s \in Sites : Main \notin callees[s]

LEMMA BodyIs ==
    ASSUME NEW f \in Functions
    PROVE  /\ Len(Body[f]) \in Nat
           /\ \A v \in Own(f) : Body[f][v] \in Sites /\ Body[f][v] \in Calls(f)
<1>1. Body[f] \in Seq(Sites)
  BY ProgramAssumption
<1>2. Len(Body[f]) \in Nat /\ DOMAIN Body[f] = 1..Len(Body[f])
  BY <1>1
<1> QED BY <1>1, <1>2 DEF Own, Calls

LEMMA ChildrenIn == ASSUME IInv, NEW f \in Functions, NEW v PROVE Children(f, v) \subseteq Vertices(f)
  BY DEF IInv, GraphOK, Children

\* A vertex of the graph that can call c is a call of the function itself.
LEMMA AtCall ==
    ASSUME IInv, NEW f \in Functions, OwnCalls(f), NEW a \in Nat, a < Len(Body[f]) + 1,
           NEW c \in CalleesOf(node[f][a])
    PROVE  /\ a \in Own(f) /\ a \in Vertices(f) /\ node[f][a] = Body[f][a]
           /\ node[f][a] \in Sites /\ node[f][a] \in Calls(f) /\ c \in callees[node[f][a]]
<1>1. Len(Body[f]) \in Nat /\ size[f] \in Nat /\ node[f][0] = f
  BY BodyIs DEF IInv, GraphOK
<1>2. node[f][a] \in Sites /\ c \in callees[node[f][a]]
  BY DEF CalleesOf
<1>3. a # 0
  BY <1>1, <1>2, ProgramAssumption
<1>4. a \in Own(f) /\ a \in Vertices(f)
  BY <1>1, <1>3 DEF Own, OwnCalls, Vertices
<1> QED BY <1>2, <1>4, BodyIs DEF OwnCalls

\* Where vertex v keeps its children and all keep their names, v keeps what it has.
LEMMA CallKept ==
    ASSUME IInv, UNCHANGED callees, NEW f \in Functions, NEW v \in Vertices(f),
           Children(f, v)' = Children(f, v), \A u \in Vertices(f) : node'[f][u] = node[f][u]
    PROVE  /\ OneEach(f, v)' <=> OneEach(f, v)
           /\ \A c : (NoneOf(f, v, c)' <=> NoneOf(f, v, c)) /\ (OneOf(f, v, c)' <=> OneOf(f, v, c))
<1>1. \A k \in Children(f, v) : node'[f][k] = node[f][k]
  BY ChildrenIn
<1>2. \A c : (NoneOf(f, v, c)' <=> NoneOf(f, v, c)) /\ (OneOf(f, v, c)' <=> OneOf(f, v, c))
  BY <1>1 DEF NoneOf, OneOf
<1>3. /\ OneEach(f, v) <=> \A c \in callees[node[f][v]] : OneOf(f, v, c)
      /\ OneEach(f, v)' <=> \A c \in callees'[node'[f][v]] : OneOf(f, v, c)'
  BY DEF OneEach, OneOf
<1> QED BY <1>2, <1>3

\* So do calls that were connected when graphs grow elsewhere.
LEMMA FrameDoneKept ==
    ASSUME IInv, UNCHANGED callees, scanned \subseteq scanned', NEW t \in Frame,
           OwnCalls(t.on), FrameDone(t),
           \A v \in Vertices(t.on) : Children(t.on, v)' = Children(t.on, v),
           \A v \in Vertices(t.on) : node'[t.on][v] = node[t.on][v]
    PROVE  FrameDone(t)'
<1>1. t.on \in Functions /\ Len(Body[t.on]) \in Nat /\ size[t.on] \in Nat
  BY BodyIs DEF Frame, IInv, GraphOK
<1>2. \A v \in Own(t.on) : v \in Vertices(t.on)
  BY <1>1 DEF Own, OwnCalls, Vertices
<1>3. \A v \in Own(t.on) : /\ OneEach(t.on, v)' <=> OneEach(t.on, v)
                          /\ \A c : /\ NoneOf(t.on, v, c)' <=> NoneOf(t.on, v, c)
                                    /\ OneOf(t.on, v, c)' <=> OneOf(t.on, v, c)
                          /\ Children(t.on, v)' = Children(t.on, v) /\ node'[t.on][v] = node[t.on][v]
  BY <1>1, <1>2, CallKept
<1> QED BY <1>3 DEF FrameDone, Left, Waiting

\* A step that leaves the graphs alone changes nothing about what is connected.
LEMMA GraphsKept ==
    ASSUME UNCHANGED <<callees, graphs>>
    PROVE  \A f : /\ (OwnCalls(f)' <=> OwnCalls(f)) /\ (Untouched(f)' <=> Untouched(f))
                  /\ Complete(f)' <=> Complete(f)
                  /\ \A v : /\ Children(f, v)' = Children(f, v) /\ (OneEach(f, v)' <=> OneEach(f, v))
                            /\ \A c : /\ NoneOf(f, v, c)' <=> NoneOf(f, v, c)
                                      /\ OneOf(f, v, c)' <=> OneOf(f, v, c)
<1> USE DEF graphs
<1>1. \A f, v : Children(f, v)' = Children(f, v)
  BY DEF Children
<1>2. \A f, v : OneEach(f, v)' <=> OneEach(f, v)
  BY <1>1 DEF OneEach
<1>3. \A f, v, c : (NoneOf(f, v, c)' <=> NoneOf(f, v, c)) /\ (OneOf(f, v, c)' <=> OneOf(f, v, c))
  BY <1>1 DEF NoneOf, OneOf
<1> QED BY <1>1, <1>2, <1>3 DEF OwnCalls, Untouched, Complete

\* A step of the traversal alone that replaces the top frame by one that is as far.
LEMMA MoveProgress ==
    ASSUME IInv, Progress, stack # <<>>, NEW t \in Frame, stack' = Replaced(t), t.on = Top.on,
           FrameDone(t), UNCHANGED <<callees, graphs, scanned>>
    PROVE  Progress'
<1>1. /\ Depth \in Nat \ {0} /\ Depth' = Depth
      /\ \A i \in 1..Depth : stack'[i] = IF i = Depth THEN t ELSE stack[i]
      /\ \A i \in 1..Depth : stack[i] \in Frame /\ stack[i].on \in Functions
  <2>1. stack \in Seq(Frame)
    BY DEF IInv, StackOK
  <2>2. \A u \in Frame : u.on \in Functions
    BY DEF Frame
  <2> QED BY <2>1, <2>2, ReplaceTop DEF Depth
<1>2. \A i \in 1..Depth : stack'[i].on = stack[i].on /\ (i < Depth => stack'[i] = stack[i])
  BY <1>1 DEF Top
<1>3. \A f : /\ (OwnCalls(f)' <=> OwnCalls(f)) /\ (Untouched(f)' <=> Untouched(f))
             /\ Complete(f)' <=> Complete(f)
             /\ \A v : /\ Children(f, v)' = Children(f, v) /\ (OneEach(f, v)' <=> OneEach(f, v))
                       /\ \A c : /\ NoneOf(f, v, c)' <=> NoneOf(f, v, c)
                                 /\ OneOf(f, v, c)' <=> OneOf(f, v, c)
  BY GraphsKept
<1>4. \A f : OnStack(f)' <=> OnStack(f)
  BY <1>1, <1>2 DEF OnStack
<1>5. Linked'
  BY <1>1, <1>2 DEF Progress, Linked
<1>6. \A i \in 1..Depth : FrameDone(stack'[i])
  BY <1>1 DEF Progress
<1>7. \A u : FrameDone(u) => FrameDone(u)'
  BY <1>3 DEF FrameDone, Left, Waiting, graphs
<1>8. \A i \in 1..Depth' : FrameDone(stack[i])'
  BY <1>1, <1>6, <1>7
<1>9. (~Recursive => CopiesComplete)'
  <2>1. Recursive' <=> Recursive
    BY DEF Recursive
  <2>2. CopiesComplete' <=> CopiesComplete
    BY <1>3 DEF CopiesComplete, Vertices, graphs
  <2> QED BY <2>1, <2>2 DEF Progress
<1>10. Main \in Functions /\ scanned \subseteq Functions
  BY ProgramAssumption DEF IInv
<1> QED BY <1>3, <1>4, <1>5, <1>8, <1>9, <1>10 DEF Progress

\* What the invariant says of the top frame.
LEMMA TopDone ==
    ASSUME IInv, Progress, stack # <<>>
    PROVE  /\ FrameDone(Top) /\ OwnCalls(Top.on) /\ Len(Body[Top.on]) \in Nat
           /\ Top.limit = Len(Body[Top.on]) + 1
           /\ \A v \in Own(Top.on) : v \in Vertices(Top.on) /\ v \in Nat /\ v < Top.limit
<1>1. Depth \in Nat \ {0} /\ Top.on \in Functions
  BY TopOK
<1>2. FrameDone(Top)
  BY <1>1 DEF Progress, Top
<1>3. OwnCalls(Top.on) /\ Len(Body[Top.on]) \in Nat /\ size[Top.on] \in Nat
  BY <1>1, BodyIs DEF Progress, IInv, GraphOK
<1>4. Top.limit = Len(Body[Top.on]) + 1
  BY <1>2 DEF FrameDone
<1> QED BY <1>2, <1>3, <1>4 DEF Own, OwnCalls, Vertices

\* Going on is right when the call at the vertex has its callees.
LEMMA NextVertexProgress ==
    ASSUME IInv, Progress, stack # <<>>, Top.at < Top.limit, Top.step \in {"visit", "call"},
           Top.at \in Own(Top.on) => OneEach(Top.on, Top.at), NextVertex,
           UNCHANGED <<callees, graphs, scanned>>
    PROVE  Progress'
<1>1. PICK t : t = [Top EXCEPT !.at = @ + 1, !.step = "visit"]
  OBVIOUS
<1>2. /\ t \in Frame /\ t.on = Top.on /\ t.at = Top.at + 1 /\ t.limit = Top.limit
      /\ t.step = "visit" /\ t.todo = Top.todo
  <2>1. Top \in Frame /\ Top.at \in Nat
    BY TopOK
  <2>2. PICK a \in Nat : a = Top.at + 1
    BY <2>1
  <2>3. t = [Top EXCEPT !.at = a, !.step = "visit"]
    BY <1>1, <2>2
  <2> QED BY <2>1, <2>2, <2>3 DEF Frame
<1>3. Top.at \in Nat /\ FrameDone(Top) /\ \A v \in Own(Top.on) : v \in Nat
  BY TopOK, TopDone
<1>4. FrameDone(t)
  <2>1. ASSUME NEW v \in Own(t.on)
        PROVE  /\ v < t.at => OneEach(t.on, v)
               /\ v > t.at \/ (v = t.at /\ t.step = "visit") => Children(t.on, v) = {}
    <3>1. v \in Own(Top.on) /\ v \in Nat /\ (v < t.at => v < Top.at \/ v = Top.at)
          /\ (v > t.at \/ v = t.at => v > Top.at)
      BY <1>2, <1>3
    <3> QED BY <3>1, <1>2, <1>3 DEF FrameDone
  <2> QED BY <2>1, <1>2, <1>3 DEF FrameDone
<1>5. stack' = Replaced(t)
  BY <1>1 DEF NextVertex
<1> QED BY <1>2, <1>4, <1>5, MoveProgress

LEMMA SkipProgress == IInv /\ Progress /\ Skip => Progress'
<1> SUFFICES ASSUME IInv, Progress, Skip PROVE Progress'
  OBVIOUS
<1>1. /\ stack # <<>> /\ Top.step = "visit" /\ Top.at < Top.limit /\ Here = {} /\ NextVertex
      /\ UNCHANGED <<callees, graphs, scanned>>
  BY DEF Skip
<1>2. Top.at \in Own(Top.on) => OneEach(Top.on, Top.at)
  <2>1. SUFFICES ASSUME Top.at \in Own(Top.on) PROVE OneEach(Top.on, Top.at)
    OBVIOUS
  <2>2. node[Top.on][Top.at] = Body[Top.on][Top.at] /\ Top.on \in Functions
    BY <1>1, <2>1, TopDone, TopOK DEF OwnCalls
  <2>3. node[Top.on][Top.at] \in Sites
    BY <2>1, <2>2, BodyIs
  <2>4. callees[node[Top.on][Top.at]] = {}
    BY <1>1, <2>3 DEF Here, CalleesOf
  <2> QED BY <2>4 DEF OneEach
<1> QED BY <1>1, <1>2, NextVertexProgress

LEMMA VisitProgress == IInv /\ Progress /\ Visit => Progress'
<1> SUFFICES ASSUME IInv, Progress, Visit PROVE Progress'
  OBVIOUS
<1>1. PICK t : t = [Top EXCEPT !.todo = Here, !.step = "call"]
  OBVIOUS
<1>2. /\ stack # <<>> /\ Top.step = "visit" /\ stack' = Replaced(t)
      /\ UNCHANGED <<callees, graphs, scanned>>
  BY <1>1 DEF Visit
<1>3. Here \subseteq Functions
  BY Types DEF Here, CalleesOf
<1>4. /\ t \in Frame /\ t.on = Top.on /\ t.at = Top.at /\ t.limit = Top.limit
      /\ t.todo = Here /\ t.step = "call"
  <2>1. Top \in Frame
    BY <1>2, TopOK
  <2> QED BY <1>1, <1>3, <2>1 DEF Frame
<1>5. FrameDone(t)
  <2>1. FrameDone(Top) /\ OwnCalls(Top.on) /\ Top.on \in Functions
    BY <1>2, TopDone, TopOK
  <2>2. ASSUME NEW v \in Own(t.on), v = t.at, NEW c \in callees[node[t.on][v]]
        PROVE  c \in Left(t) /\ NoneOf(t.on, v, c)
    <3>1. node[t.on][v] \in Sites
      BY <2>1, <2>2, <1>4, BodyIs DEF OwnCalls
    <3>2. c \in Here
      BY <2>2, <3>1, <1>4 DEF Here, CalleesOf
    <3>3. Children(t.on, v) = {}
      BY <2>1, <2>2, <1>2, <1>4 DEF FrameDone
    <3> QED BY <3>2, <3>3, <1>4 DEF Left, NoneOf
  <2> QED BY <2>1, <2>2, <1>4 DEF FrameDone
<1> QED BY <1>2, <1>4, <1>5, MoveProgress

LEMMA AllConnectedProgress == IInv /\ Progress /\ AllConnected => Progress'
<1> SUFFICES ASSUME IInv, Progress, AllConnected PROVE Progress'
  OBVIOUS
<1>1. /\ stack # <<>> /\ Top.step = "call" /\ Top.todo = {} /\ NextVertex
      /\ UNCHANGED <<callees, graphs, scanned>>
  BY DEF AllConnected
<1>2. FrameOK(Top) /\ FrameDone(Top)
  BY <1>1, TopOK, TopDone
<1>3. Top.at < Top.limit
  BY <1>1, <1>2 DEF FrameOK
<1>4. Left(Top) = {}
  BY <1>1 DEF Left, Waiting
<1>5. Top.at \in Own(Top.on) => OneEach(Top.on, Top.at)
  BY <1>1, <1>2, <1>4 DEF FrameDone, OneEach, OneOf
<1> QED BY <1>1, <1>3, <1>5, NextVertexProgress

\* The frame that is to append c has still to connect what it had before.
LEMMA CalleeDone ==
    ASSUME IInv, Progress, stack # <<>>, Top.step = "call", NEW c \in Top.todo,
           NEW t \in Frame, t.on = Top.on, t.at = Top.at, t.limit = Top.limit, t.callee = c,
           t.todo = Top.todo \ {c}, t.step = "append", NEW known, c \in known
    PROVE  /\ t.limit = Len(Body[t.on]) + 1 /\ t.callee \in known /\ t.callee \notin t.todo
           /\ known = scanned => FrameDone(t)
           /\ \A v \in Own(t.on) :
                /\ v < t.at => OneEach(t.on, v)
                /\ v > t.at => Children(t.on, v) = {}
                /\ v = t.at => \A d \in callees[node[t.on][v]] :
                                  IF d \in Left(t) THEN NoneOf(t.on, v, d) ELSE OneOf(t.on, v, d)
<1>1. FrameDone(Top) /\ Top.limit = Len(Body[Top.on]) + 1
  BY TopDone
<1>2. Left(t) = Left(Top)
  BY DEF Left, Waiting
<1>3. \A v \in Own(t.on) :
        /\ v < t.at => OneEach(t.on, v)
        /\ v > t.at => Children(t.on, v) = {}
        /\ v = t.at => \A d \in callees[node[t.on][v]] :
                          IF d \in Left(t) THEN NoneOf(t.on, v, d) ELSE OneOf(t.on, v, d)
  BY <1>1, <1>2 DEF FrameDone
<1> QED BY <1>1, <1>3 DEF FrameDone

LEMMA CallKnownProgress ==
    ASSUME IInv, Progress, NEW c \in Functions, CallKnown(c) PROVE Progress'
<1>1. PICK t : t = [Top EXCEPT !.todo = @ \ {c}, !.callee = c, !.step = "append"]
  OBVIOUS
<1>2. /\ stack # <<>> /\ Top.step = "call" /\ c \in Top.todo /\ c \in scanned
      /\ stack' = Replaced(t) /\ UNCHANGED <<callees, graphs, scanned>>
  BY <1>1 DEF CallKnown, Callee
<1>3. /\ t \in Frame /\ t.on = Top.on /\ t.at = Top.at /\ t.limit = Top.limit /\ t.callee = c
      /\ t.todo = Top.todo \ {c} /\ t.step = "append"
  <2>1. Top \in Frame
    BY <1>2, TopOK
  <2> QED BY <1>1, <2>1 DEF Frame
<1>4. FrameDone(t)
  BY <1>2, <1>3, CalleeDone
<1> QED BY <1>2, <1>3, <1>4, MoveProgress

\* A function that is called for the first time is as it was at the start.
LEMMA CallNewProgress ==
    ASSUME IInv, Entered, NoMain, Progress, NEW c \in Functions, CallNew(c) PROVE Progress'
<1>1. /\ stack \in Seq(Frame) /\ stack # <<>> /\ Top.step = "call" /\ c \in Top.todo /\ c \notin scanned
      /\ stack' = Append(Callee(c), Traversal(c)) /\ scanned' = scanned \cup {c}
      /\ UNCHANGED <<callees, graphs>>
  BY DEF CallNew, IInv, StackOK
<1>2. PICK t : t = [Top EXCEPT !.todo = @ \ {c}, !.callee = c, !.step = "append"]
  OBVIOUS
<1>3. /\ t \in Frame /\ t.on = Top.on /\ t.at = Top.at /\ t.limit = Top.limit /\ t.callee = c
      /\ t.todo = Top.todo \ {c} /\ t.step = "append"
  <2>1. Top \in Frame
    BY <1>1, TopOK
  <2> QED BY <1>2, <2>1 DEF Frame
<1>4. PICK n : n = Traversal(c)
  OBVIOUS
<1>5. /\ n \in Frame /\ n.on = c /\ n.at = 0 /\ n.limit = size[c] /\ n.step = "visit"
  <2>1. size[c] \in Nat
    BY DEF IInv, GraphOK
  <2> QED BY <1>4, <2>1 DEF Traversal, Frame
<1>6. /\ Depth' = Depth + 1 /\ Depth \in Nat \ {0} /\ Top = stack[Depth]
      /\ \A i \in 1..(Depth + 1) :
            stack'[i] = IF i = Depth + 1 THEN n ELSE IF i = Depth THEN t ELSE stack[i]
  <2> DEFINE r == Replaced(t)
  <2>1. /\ Depth \in Nat \ {0} /\ r \in Seq(Frame) /\ Len(r) = Depth
        /\ \A i \in 1..Depth : r[i] = IF i = Depth THEN t ELSE stack[i]
    BY <1>1, <1>3, ReplaceTop
  <2>2. stack' = Append(r, n)
    BY <1>1, <1>2, <1>4 DEF Callee
  <2> HIDE DEF r
  <2>3. /\ stack' \in Seq(Frame) /\ Len(stack') = Depth + 1 /\ stack'[Depth + 1] = n
        /\ \A i \in 1..Depth : stack'[i] = r[i]
    BY <2>1, <2>2, <1>5
  <2> QED BY <2>1, <2>3 DEF Depth, Top
<1>7. c # Main
  <2>1. FrameOK(Top)
    BY <1>1, TopOK
  <2>2. c \in CalleesOf(node[Top.on][Top.at])
    BY <1>1, <2>1 DEF FrameOK
  <2> QED BY <2>2 DEF CalleesOf, NoMain
<1>8. Untouched(c) /\ ~OnStack(c)
  <2>1. \A i \in 1..Depth : i = 1 \/ i \in 2..Depth
    BY <1>6
  <2>2. \A i \in 1..Depth : stack[i].on # c
    BY <2>1, <1>1, <1>7 DEF Entered
  <2> QED BY <2>2, <1>1, <1>7 DEF Progress, OnStack
<1>9. \A f : /\ (OwnCalls(f)' <=> OwnCalls(f)) /\ (Untouched(f)' <=> Untouched(f))
             /\ Complete(f)' <=> Complete(f)
             /\ \A v : /\ Children(f, v)' = Children(f, v) /\ (OneEach(f, v)' <=> OneEach(f, v))
                       /\ \A d : /\ NoneOf(f, v, d)' <=> NoneOf(f, v, d)
                                 /\ OneOf(f, v, d)' <=> OneOf(f, v, d)
  BY <1>1, GraphsKept
<1>10. \A u : FrameDone(u) => FrameDone(u)'
  BY <1>1, <1>9, ZenonT(60) DEF FrameDone, Left, Waiting, graphs
<1>11. \A i \in 1..Depth : stack'[i].on = stack[i].on
  BY <1>3, <1>6
<1>12. Linked'
  <2>1. ASSUME NEW i \in 1..(Depth + 1), i < Depth + 1
        PROVE  stack'[i].callee = stack'[i + 1].on
    <3>1. CASE i = Depth
      <4>1. stack'[i] = t /\ stack'[i + 1] = n
        BY <3>1, <1>6
      <4> QED BY <4>1, <1>3, <1>5
    <3>2. CASE i # Depth
      <4>1. i \in 1..Depth /\ i + 1 \in 1..Depth /\ i < Depth
        BY <2>1, <3>2, <1>6
      <4> QED BY <4>1, <1>6, <1>11 DEF Progress, Linked
    <3> QED BY <3>1, <3>2
  <2>2. ASSUME NEW i \in 1..(Depth + 1), NEW j \in 1..(Depth + 1), stack'[i].on = stack'[j].on
        PROVE  i = j
    <3>1. \A k \in 1..Depth : stack'[k].on # c
      BY <1>8, <1>11 DEF OnStack
    <3>2. stack'[Depth + 1].on = c
      BY <1>5, <1>6
    <3>3. CASE i \in 1..Depth /\ j \in 1..Depth
      BY <2>2, <3>3, <1>11 DEF Progress, Linked
    <3>4. \A k \in 1..(Depth + 1) : k \in 1..Depth \/ k = Depth + 1
      BY <1>6
    <3> QED BY <2>2, <3>1, <3>2, <3>3, <3>4
  <2> QED BY <2>1, <2>2, <1>6 DEF Linked
<1>13. FrameDone(t)'
  <2>1. \A v \in Own(t.on) :
          /\ v < t.at => OneEach(t.on, v)
          /\ v > t.at => Children(t.on, v) = {}
          /\ v = t.at => \A d \in callees[node[t.on][v]] :
                            IF d \in Left(t) THEN NoneOf(t.on, v, d) ELSE OneOf(t.on, v, d)
    BY <1>1, <1>3, CalleeDone
  <2>2. t.limit = Len(Body[t.on]) + 1 /\ t.callee \in scanned' /\ t.callee \notin t.todo
    BY <1>1, <1>3, TopDone
  <2> QED BY <2>1, <2>2, <1>1, <1>3, <1>9 DEF FrameDone, Left, Waiting, graphs
<1>14. FrameDone(n)'
  <2>1. FrameDone(n)
    <3>1. \A v \in Own(c) : v > 0 /\ ~(v < 0) /\ v # 0 /\ Children(c, v) = {}
      BY <1>8, BodyIs DEF Own, Untouched
    <3> QED BY <3>1, <1>5, <1>8 DEF FrameDone, Untouched
  <2> QED BY <2>1, <1>10
<1>15. \A i \in 1..Depth' : FrameDone(stack[i])'
  <2>1. \A i \in 1..(Depth + 1) : i = Depth + 1 \/ i = Depth \/ (i \in 1..Depth /\ i # Depth)
    BY <1>6
  <2>2. \A i \in 1..(Depth + 1) : \A u : u = stack'[i] => FrameDone(u)'
    BY <2>1, <1>6, <1>10, <1>13, <1>14 DEF Progress
  <2> QED BY <2>2, <1>6
<1>16. \A f : OnStack(f) \/ f = c => OnStack(f)'
  <2>1. \A i \in 1..Depth : i \in 1..(Depth + 1)
    BY <1>6
  <2>2. Depth + 1 \in 1..(Depth + 1) /\ stack'[Depth + 1].on = c
    BY <1>5, <1>6
  <2> QED BY <2>1, <2>2, <1>6, <1>11 DEF OnStack
<1>17. (~Recursive => CopiesComplete)'
  <2>1. Recursive' <=> Recursive
    BY <1>1 DEF Recursive
  <2>2. CopiesComplete' <=> CopiesComplete
    BY <1>1, <1>9 DEF CopiesComplete, Vertices, graphs
  <2> QED BY <2>1, <2>2 DEF Progress
<1>18. Main \in Functions /\ scanned \subseteq Functions
  BY ProgramAssumption DEF IInv
<1>19. \A f \in scanned' \cup {Main} : OnStack(f)' \/ Complete(f)'
  BY <1>1, <1>9, <1>16, <1>18 DEF Progress
<1> QED BY <1>1, <1>7, <1>9, <1>12, <1>15, <1>17, <1>19 DEF Progress

\* A function that is walked over has returned when it is appended, without recursion:
\* else the functions on the stack from it on are such a group.
LEMMA NotOnStack ==
    ASSUME IInv, Progress, stack # <<>>, Top.step = "append", ~Recursive
    PROVE  ~OnStack(Top.callee)
<1>1. SUFFICES ASSUME NEW j \in 1..Depth, stack[j].on = Top.callee PROVE Recursive
  BY DEF OnStack
<1>2. Depth \in Nat \ {0} /\ stack[Depth] = Top
  BY TopOK DEF Top
<1> DEFINE group == {stack[k].on : k \in j..Depth}
<1>3. \A k \in j..Depth : k \in 1..Depth /\ stack[k] \in Frame /\ stack[k].on \in Functions
  <2>1. \A k \in j..Depth : k \in 1..Depth
    BY <1>2
  <2>2. \A u \in Frame : u.on \in Functions
    BY DEF Frame
  <2> QED BY <2>1, <2>2, FramesOK
<1>4. group \in SUBSET Functions /\ group # {}
  <2>1. j \in j..Depth
    BY <1>2
  <2> QED BY <1>3, <2>1
<1>5. ASSUME NEW k \in j..Depth
      PROVE  \E s \in Calls(stack[k].on) : stack[k].callee \in callees[s]
  <2>1. PICK u \in Frame : u = stack[k] /\ FrameOK(u) /\ FrameDone(u) /\ u.step = "append"
    BY <1>2, <1>3, FramesOK DEF Progress
  <2>2. u.on \in Functions /\ u.at \in Nat /\ OwnCalls(u.on)
    BY DEF Frame, Progress
  <2>3. u.at < Len(Body[u.on]) + 1 /\ u.callee \in CalleesOf(node[u.on][u.at])
    BY <2>1 DEF FrameOK, FrameDone
  <2> QED BY <2>1, <2>2, <2>3, AtCall
<1>6. ASSUME NEW k \in j..Depth PROVE stack[k].callee \in group
  <2>1. CASE k = Depth
    <3>1. j \in j..Depth
      BY <1>2
    <3> QED BY <2>1, <3>1, <1>1, <1>2
  <2>2. CASE k # Depth
    <3>1. k < Depth /\ k + 1 \in j..Depth /\ k \in 1..Depth
      BY <2>2, <1>2
    <3> QED BY <3>1 DEF Progress, Linked
  <2> QED BY <2>1, <2>2
<1>7. \A f \in group : \E s \in Calls(f) : callees[s] \cap group # {}
  <2> TAKE f \in group
  <2>1. PICK k \in j..Depth : f = stack[k].on
    OBVIOUS
  <2> HIDE DEF group
  <2> QED BY <2>1, <1>5, <1>6
<1> HIDE DEF group
<1> QED BY <1>4, <1>7 DEF Recursive

\* The children of the vertices that were there, and those of the copies.
LEMMA AttachChildren ==
    ASSUME IInv, NEW g \in Functions, NEW h \in Functions, G!Attach(g, h), UNCHANGED callees
    PROVE  /\ \A v \in Vertices(g) : Children(g, v)' = Children(g, v)
           /\ \A v \in Vertices(h), w \in Int : w = size[g] + v =>
                 Children(g, w)' = {k + size[g] : k \in Children(h, v)}
           /\ \A f \in Functions \ {g} : \A v : Children(f, v)' = Children(f, v)
<1>1. /\ arc'[g] = arc[g] \cup {<<e[1] + size[g], e[2] + size[g]>> : e \in arc[h]}
      /\ \A f \in Functions \ {g} : arc'[f] = arc[f]
  BY AttachGraphs
<1>2. /\ size[g] \in Nat /\ size[h] \in Nat
      /\ \A e \in arc[g] : e[1] \in Vertices(g) /\ e[2] \in Vertices(g)
      /\ \A e \in arc[h] : e[1] \in Vertices(h) /\ e[2] \in Vertices(h)
  BY DEF IInv, GraphOK
<1>0. \A a, b : <<a, b>>[1] = a /\ <<a, b>>[2] = b
  OBVIOUS
<1>3. ASSUME NEW v \in Vertices(g) PROVE Children(g, v)' = Children(g, v)
  <2>1. \A e \in arc[h] : e[1] + size[g] # v
    BY <1>2 DEF Vertices
  <2> QED BY <1>0, <1>1, <2>1 DEF Children
<1>4. ASSUME NEW v \in Vertices(h), NEW w \in Int, w = size[g] + v
      PROVE  Children(g, w)' = {k + size[g] : k \in Children(h, v)}
  <2>1. \A e \in arc[g] : e[1] # w
    BY <1>2, <1>4 DEF Vertices
  <2>2. \A e \in arc[h] : e[1] + size[g] = w <=> e[1] = v
    BY <1>2, <1>4 DEF Vertices
  <2>3. ASSUME NEW k \in Children(g, w)'
        PROVE  k \in {l + size[g] : l \in Children(h, v)}
    <3>1. PICK e \in arc'[g] : e[1] = w /\ k = e[2]
      BY DEF Children
    <3>2. PICK d \in arc[h] : e = <<d[1] + size[g], d[2] + size[g]>>
      BY <3>1, <1>1, <2>1
    <3>3. d[1] = v /\ k = d[2] + size[g]
      BY <3>1, <3>2, <2>2
    <3> QED BY <3>3 DEF Children
  <2>4. ASSUME NEW l \in Children(h, v)
        PROVE  l + size[g] \in Children(g, w)'
    <3>1. PICK d \in arc[h] : d[1] = v /\ l = d[2]
      BY DEF Children
    <3>2. <<d[1] + size[g], d[2] + size[g]>> \in arc'[g]
      BY <1>1
    <3>3. d[1] + size[g] = w
      BY <3>1, <2>2
    <3> QED BY <3>1, <3>2, <3>3, <1>0 DEF Children
  <2> QED BY <2>3, <2>4
<1>5. \A f \in Functions \ {g} : \A v : Children(f, v)' = Children(f, v)
  BY <1>1 DEF Children
<1> QED BY <1>3, <1>4, <1>5

\* A call of a copy has what the call that was copied has.
LEMMA CallCopied ==
    ASSUME IInv, NEW g \in Functions, NEW h \in Functions, G!Attach(g, h), UNCHANGED callees,
           NEW v \in Vertices(h), OneEach(h, v), NEW w \in Int, w = size[g] + v
    PROVE  OneEach(g, w)'
<1>1. Children(g, w)' = {k + size[g] : k \in Children(h, v)}
  BY AttachChildren
<1>2. \A u \in Vertices(h) : node'[g][size[g] + u] = node[h][u]
  BY AttachGraphs
<1>3. size[g] \in Nat /\ Children(h, v) \subseteq Vertices(h) /\ Vertices(h) \subseteq Int
  BY ChildrenIn DEF IInv, GraphOK, Vertices
<1>4. \A k \in Children(h, v) : k \in Int /\ node'[g][k + size[g]] = node[h][k]
  BY <1>2, <1>3
<1>5. node'[g][w] = node[h][v]
  BY <1>2
<1>6. ASSUME NEW c \in callees[node[h][v]]
      PROVE  \E k \in Children(g, w)' :
                /\ node'[g][k] = c
                /\ \A l \in Children(g, w)' : node'[g][l] = c => l = k
  <2>1. PICK k \in Children(h, v) :
            node[h][k] = c /\ \A l \in Children(h, v) : node[h][l] = c => l = k
    BY DEF OneEach
  <2>2. k + size[g] \in Children(g, w)' /\ node'[g][k + size[g]] = c
    BY <1>1, <1>4, <2>1
  <2>3. ASSUME NEW l \in Children(g, w)', node'[g][l] = c PROVE l = k + size[g]
    <3>1. PICK m \in Children(h, v) : l = m + size[g]
      BY <1>1
    <3> QED BY <3>1, <2>1, <2>3, <1>4
  <2> QED BY <2>2, <2>3
<1> QED BY <1>5, <1>6 DEF OneEach

LEMMA TopMarked == ASSUME IInv, Entered, stack # <<>> PROVE Top.on \in scanned \cup {Main}
<1>1. Depth \in Nat \ {0} /\ Top = stack[Depth]
  BY TopOK DEF Top
<1>2. Depth = 1 \/ Depth \in 2..Depth
  BY <1>1
<1> QED BY <1>1, <1>2 DEF Entered

LEMMA AppendProgress == IInv /\ Entered /\ Progress /\ AppendCallee => Progress'
<1> SUFFICES ASSUME IInv, Entered, Progress, AppendCallee PROVE Progress'
  OBVIOUS
<1>1. /\ stack \in Seq(Frame) /\ stack # <<>> /\ Top.step = "append"
      /\ stack' = Replaced([Top EXCEPT !.link = size[Top.on], !.step = "link"])
      /\ G!Attach(Top.on, Top.callee) /\ UNCHANGED <<callees, scanned>>
  BY DEF AppendCallee, IInv, StackOK
<1>2. PICK g \in Functions, h \in Functions : g = Top.on /\ h = Top.callee
  BY <1>1, TopOK
<1>2t. PICK t : t = [Top EXCEPT !.link = size[Top.on], !.step = "link"]
  OBVIOUS
<1>3. size[g] \in Nat \ {0} /\ size[h] \in Nat \ {0}
  BY DEF IInv, GraphOK
<1>4. /\ t \in Frame /\ t.on = g /\ t.at = Top.at /\ t.limit = Top.limit /\ t.callee = h
      /\ t.todo = Top.todo /\ t.step = "link"
  <2>1. Top \in Frame
    BY <1>1, TopOK
  <2> QED BY <1>2, <1>2t, <1>3, <2>1 DEF Frame
<1>5. /\ Depth' = Depth /\ Depth \in Nat \ {0} /\ Top = stack[Depth]
      /\ \A i \in 1..Depth : stack'[i] = IF i = Depth THEN t ELSE stack[i]
  BY <1>1, <1>2, <1>2t, <1>4, ReplaceTop DEF Depth, Top
<1>6. /\ size'[g] = size[g] + size[h]
      /\ \A f \in Functions \ {g} : size'[f] = size[f] /\ node'[f] = node[f]
      /\ \A v \in Vertices(g) : node'[g][v] = node[g][v]
      /\ \A v \in Vertices(h) : node'[g][size[g] + v] = node[h][v]
      /\ \A v \in Vertices(g) : Children(g, v)' = Children(g, v)
      /\ \A f \in Functions \ {g} : \A v : Children(f, v)' = Children(f, v)
  BY <1>1, <1>2, AttachGraphs, AttachChildren
<1>7. ASSUME NEW f \in Functions
      PROVE  /\ \A v \in Vertices(f) : Children(f, v)' = Children(f, v) /\ node'[f][v] = node[f][v]
             /\ \A v \in Vertices(f) : OneEach(f, v)' <=> OneEach(f, v)
             /\ \A v \in Own(f) : v \in Vertices(f)
             /\ OwnCalls(f)' /\ (Complete(f) => Complete(f)')
  <2>1. \A v \in Vertices(f) : Children(f, v)' = Children(f, v) /\ node'[f][v] = node[f][v]
    BY <1>6
  <2>2. \A v \in Vertices(f) : OneEach(f, v)' <=> OneEach(f, v)
    BY <2>1, <1>1, CallKept
  <2>3. size[f] \in Nat /\ size'[f] \in Nat /\ size[f] <= size'[f] /\ Len(Body[f]) \in Nat /\ OwnCalls(f)
    BY <1>3, <1>6, BodyIs DEF IInv, GraphOK, Progress
  <2>4. \A v \in Own(f) : v \in Vertices(f)
    BY <2>3 DEF Own, OwnCalls, Vertices
  <2> QED BY <2>1, <2>2, <2>3, <2>4 DEF OwnCalls, Complete
<1>8. \A u \in Frame : FrameDone(u) => FrameDone(u)'
  <2> SUFFICES ASSUME NEW u \in Frame, FrameDone(u) PROVE FrameDone(u)'
    OBVIOUS
  <2>1. u.on \in Functions
    BY DEF Frame
  <2> QED BY <2>1, <1>1, <1>7, FrameDoneKept DEF Progress
<1>9. FrameDone(t)
  <2>1. FrameDone(Top)
    BY <1>1, TopDone
  <2>2. Left(t) = Left(Top)
    BY <1>1, <1>2, <1>4 DEF Left, Waiting
  <2> QED BY <2>1, <2>2, <1>1, <1>2, <1>4 DEF FrameDone
<1>10. \A i \in 1..Depth : \A u : u = stack'[i] => FrameDone(u)'
  <2>1. \A i \in 1..Depth : stack[i] \in Frame /\ FrameDone(stack[i])
    BY FramesOK DEF Progress
  <2> QED BY <2>1, <1>4, <1>5, <1>8, <1>9
<1>11. \A i \in 1..Depth : stack'[i].on = stack[i].on /\ (i < Depth => stack'[i] = stack[i])
  BY <1>2, <1>4, <1>5
<1>12. Linked'
  <2>1. ASSUME NEW i \in 1..Depth, i < Depth PROVE stack'[i].callee = stack'[i + 1].on
    <3>1. i + 1 \in 1..Depth
      BY <2>1, <1>5
    <3> QED BY <2>1, <3>1, <1>11 DEF Progress, Linked
  <2> QED BY <2>1, <1>5, <1>11 DEF Progress, Linked
<1>13. \A f : OnStack(f)' <=> OnStack(f)
  BY <1>5, <1>11 DEF OnStack
<1>14. \A f \in Functions \ (scanned' \cup {Main}) : Untouched(f)'
  <2> SUFFICES ASSUME NEW f \in Functions \ (scanned \cup {Main}) PROVE Untouched(f)'
    BY <1>1
  <2>1. f # g
    BY <1>1, <1>2, TopMarked
  <2> QED BY <2>1, <1>6 DEF Progress, Untouched
<1>15. (~Recursive => CopiesComplete)'
  <2>1. Recursive' <=> Recursive
    BY <1>1 DEF Recursive
  <2>2. SUFFICES ASSUME ~Recursive PROVE CopiesComplete'
    BY <2>1
  <2>3. SUFFICES ASSUME NEW f \in Functions, NEW v \in Vertices(f)', node'[f][v] \in Sites, v \notin Own(f)
                 PROVE  OneEach(f, v)'
    BY DEF CopiesComplete, Own
  <2>4. CopiesComplete
    BY <2>2 DEF Progress
  <2>5. CASE v \in Vertices(f)
    BY <2>3, <2>4, <2>5, <1>7 DEF CopiesComplete
  <2>6. CASE v \notin Vertices(f)
    <3>1. f = g
      BY <2>3, <2>6, <1>6 DEF Vertices
    <3>2. PICK w \in Vertices(h) : v = size[g] + w
      <4>1. v \in Int /\ v - size[g] \in Vertices(h) /\ v = size[g] + (v - size[g])
        BY <2>3, <2>6, <3>1, <1>3, <1>6 DEF Vertices
      <4> QED BY <4>1
    <3>3. node[h][w] \in Sites
      BY <2>3, <3>1, <3>2, <1>6
    <3>4. OneEach(h, w)
      <4>1. CASE w \in Own(h)
        <5>1. ~OnStack(h) /\ h \in scanned
          BY <2>2, <1>1, <1>2, NotOnStack, TopDone DEF FrameDone
        <5> QED BY <4>1, <5>1 DEF Progress, Complete
      <4>2. CASE w \notin Own(h)
        BY <4>2, <2>4, <3>3 DEF CopiesComplete
      <4> QED BY <4>1, <4>2
    <3>5. v \in Int
      BY <3>2, <1>3 DEF Vertices
    <3> QED BY <3>1, <3>2, <3>4, <3>5, <1>1, <1>2, CallCopied
  <2> QED BY <2>5, <2>6
<1>16. Main \in Functions /\ scanned \subseteq Functions
  BY ProgramAssumption DEF IInv
<1>17. \A f \in scanned' \cup {Main} : OnStack(f)' \/ Complete(f)'
  BY <1>1, <1>7, <1>13, <1>16 DEF Progress
<1>18. \A i \in 1..Depth' : FrameDone(stack[i])'
  BY <1>5, <1>10
<1> QED BY <1>1, <1>7, <1>12, <1>14, <1>15, <1>17, <1>18 DEF Progress

\* The call where the top traversal is gets its copy, and no other call does.
LEMMA LinkProgress == IInv /\ Entered /\ Progress /\ Link => Progress'
<1> SUFFICES ASSUME IInv, Entered, Progress, Link PROVE Progress'
  OBVIOUS
<1>1. /\ stack \in Seq(Frame) /\ stack # <<>> /\ Top.step = "link"
      /\ stack' = Replaced([Top EXCEPT !.step = "call"])
      /\ arc' = [arc EXCEPT ![Top.on] = @ \cup {<<Top.at, Top.link>>}]
      /\ UNCHANGED <<size, node, callees, scanned>>
  BY DEF Link, IInv, StackOK, G!Connect
<1>2. PICK g \in Functions, a \in Nat, b \in Nat, h \in Functions :
          g = Top.on /\ a = Top.at /\ b = Top.link /\ h = Top.callee
  BY <1>1, TopOK
<1>2t. PICK t : t = [Top EXCEPT !.step = "call"]
  OBVIOUS
<1>3. /\ t \in Frame /\ t.on = g /\ t.at = a /\ t.limit = Top.limit /\ t.callee = h
      /\ t.todo = Top.todo /\ t.step = "call"
  <2>1. Top \in Frame
    BY <1>1, TopOK
  <2> QED BY <1>2, <1>2t, <2>1 DEF Frame
<1>4. /\ Depth' = Depth /\ Depth \in Nat \ {0} /\ Top = stack[Depth]
      /\ \A i \in 1..Depth : stack'[i] = IF i = Depth THEN t ELSE stack[i]
  <2>1. stack' = Replaced(t) /\ stack \in Seq(Frame) /\ stack # <<>>
    BY <1>1, <1>2, <1>2t
  <2> QED BY <2>1, <1>3, ReplaceTop DEF Depth, Top
<1>5. /\ a < Len(Body[g]) + 1 /\ node[g][b] = h /\ h \in CalleesOf(node[g][a])
      /\ h \in scanned /\ h \notin Top.todo /\ OwnCalls(g) /\ FrameDone(Top)
      /\ Top.limit = Len(Body[g]) + 1
  <2>1. FrameOK(Top) /\ FrameDone(Top) /\ OwnCalls(g)
    BY <1>1, <1>2, TopOK, TopDone
  <2> QED BY <1>1, <1>2, <2>1 DEF FrameOK, FrameDone
<1>6. a \in Own(g) /\ node[g][a] \in Sites
  BY <1>5, AtCall
<1>7. /\ Children(g, a)' = Children(g, a) \cup {b}
      /\ \A f \in Functions : \A v : f # g \/ v # a => Children(f, v)' = Children(f, v)
  <2>1. arc'[g] = arc[g] \cup {<<a, b>>} /\ \A f \in Functions \ {g} : arc'[f] = arc[f]
    BY <1>1, <1>2 DEF IInv, Shape
  <2>2. <<a, b>>[1] = a /\ <<a, b>>[2] = b
    OBVIOUS
  <2> QED BY <2>1, <2>2, ZenonT(60) DEF Children
<1>8. \A f \in Functions : \A v : f # g \/ v # a =>
        /\ OneEach(f, v)' <=> OneEach(f, v)
        /\ \A c : (NoneOf(f, v, c)' <=> NoneOf(f, v, c)) /\ (OneOf(f, v, c)' <=> OneOf(f, v, c))
  BY <1>1, <1>7 DEF OneEach, NoneOf, OneOf
<1>9. \A i \in 1..Depth : /\ stack'[i].on = stack[i].on /\ stack'[i].callee = stack[i].callee
                          /\ i < Depth => stack'[i] = stack[i]
  BY <1>2, <1>3, <1>4
<1>10. Linked'
  <2>1. ASSUME NEW i \in 1..Depth, i < Depth PROVE stack'[i].callee = stack'[i + 1].on
    <3>1. i + 1 \in 1..Depth
      BY <2>1, <1>4
    <3> QED BY <2>1, <3>1, <1>9 DEF Progress, Linked
  <2> QED BY <2>1, <1>4, <1>9 DEF Progress, Linked
<1>11. \A f : OnStack(f)' <=> OnStack(f)
  BY <1>4, <1>9 DEF OnStack
<1>12. OnStack(g)
  BY <1>2, <1>4 DEF OnStack
<1>13. FrameDone(t)'
  <2>1. ASSUME NEW c \in callees[node[g][a]]
        PROVE  IF c \in t.todo THEN NoneOf(g, a, c)' ELSE OneOf(g, a, c)'
    <3>1. IF c \in t.todo \cup {h} THEN NoneOf(g, a, c) ELSE OneOf(g, a, c)
      BY <2>1, <1>1, <1>2, <1>3, <1>5, <1>6 DEF FrameDone, Left, Waiting
    <3>2. CASE c = h
      BY <3>1, <3>2, <1>1, <1>3, <1>5, <1>7 DEF NoneOf, OneOf
    <3>3. CASE c # h
      BY <3>1, <3>3, <1>1, <1>3, <1>5, <1>7 DEF NoneOf, OneOf
    <3> QED BY <3>2, <3>3
  <2>2. Left(t) = t.todo
    BY <1>3 DEF Left, Waiting
  <2>3. ASSUME NEW v \in Own(g)
        PROVE  /\ v < a => OneEach(g, v)'
               /\ v > a => Children(g, v)' = {}
    <3>1. v < a \/ v > a => v # a
      BY <1>6 DEF Own
    <3> QED BY <3>1, <1>2, <1>5, <1>7, <1>8 DEF FrameDone
  <2> QED BY <2>1, <2>2, <2>3, <1>1, <1>3, <1>5 DEF FrameDone
<1>14. ASSUME NEW i \in 1..Depth, i # Depth PROVE \A u : u = stack[i] => FrameDone(u)'
  <2> SUFFICES ASSUME NEW u, u = stack[i] PROVE FrameDone(u)'
    OBVIOUS
  <2>1. u \in Frame /\ FrameDone(u)
    BY FramesOK DEF Progress
  <2>2. u.on # g /\ u.on \in Functions
    BY <2>1, <1>2, <1>4, <1>14 DEF Progress, Linked, Frame
  <2>3. \A v : /\ Children(u.on, v)' = Children(u.on, v) /\ (OneEach(u.on, v)' <=> OneEach(u.on, v))
              /\ \A c : /\ NoneOf(u.on, v, c)' <=> NoneOf(u.on, v, c)
                        /\ OneOf(u.on, v, c)' <=> OneOf(u.on, v, c)
    BY <2>2, <1>7, <1>8
  <2> QED BY <2>1, <2>3, <1>1 DEF FrameDone, Left, Waiting
<1>15. \A i \in 1..Depth' : FrameDone(stack[i])'
  BY <1>4, <1>13, <1>14
<1>16. (~Recursive => CopiesComplete)'
  <2>1. Recursive' <=> Recursive
    BY <1>1 DEF Recursive
  <2>2. CopiesComplete => CopiesComplete'
    BY <1>1, <1>6, <1>8 DEF CopiesComplete, Vertices
  <2> QED BY <2>1, <2>2 DEF Progress
<1>17. Main \in Functions /\ scanned \subseteq Functions
  BY ProgramAssumption DEF IInv
<1>18. \A f \in scanned' \cup {Main} : OnStack(f)' \/ Complete(f)'
  <2> SUFFICES ASSUME NEW f \in scanned \cup {Main}, ~OnStack(f) PROVE Complete(f)'
    BY <1>1, <1>11
  <2>1. f # g /\ f \in Functions
    BY <1>12, <1>17
  <2> QED BY <2>1, <1>8 DEF Progress, Complete
<1>19. \A f \in Functions \ (scanned' \cup {Main}) : Untouched(f)'
  <2> SUFFICES ASSUME NEW f \in Functions \ (scanned \cup {Main}) PROVE Untouched(f)'
    BY <1>1
  <2>1. f # g
    BY <1>1, <1>2, TopMarked
  <2> QED BY <2>1, <1>1, <1>7 DEF Progress, Untouched
<1>20. \A f \in Functions : OwnCalls(f)'
  BY <1>1 DEF Progress, OwnCalls
<1> QED BY <1>1, <1>10, <1>15, <1>16, <1>18, <1>19, <1>20 DEF Progress

\* A traversal that is at its end has connected every call.
LEMMA ReturnProgress == IInv /\ Progress /\ Return => Progress'
<1> SUFFICES ASSUME IInv, Progress, Return PROVE Progress'
  OBVIOUS
<1>1. /\ stack # <<>> /\ Top.step = "visit" /\ Top.at = Top.limit
      /\ stack' = SubSeq(stack, 1, Depth - 1)
      /\ UNCHANGED <<callees, graphs, scanned>> /\ stack \in Seq(Frame)
  BY DEF Return, IInv, StackOK
<1>2. /\ Depth \in Nat \ {0} /\ Depth' = Depth - 1 /\ Top = stack[Depth]
      /\ \A i \in 1..(Depth - 1) : stack'[i] = stack[i]
  <2>1. Depth \in Nat \ {0} /\ \A i \in 1..Depth : stack[i] \in Frame
    BY <1>1 DEF Depth
  <2>2. SubSeq(stack, 1, Depth - 1) = [i \in 1..(Depth - 1) |-> stack[i]]
    BY <1>1, <2>1
  <2>3. stack' = [i \in 1..(Depth - 1) |-> stack[i]]
    BY <1>1, <2>2
  <2>4. stack' \in Seq(Frame) /\ Len(stack') = Depth - 1
    BY <2>1, <2>3
  <2> QED BY <2>1, <2>3, <2>4 DEF Depth, Top
<1>3. \A f : /\ (OwnCalls(f)' <=> OwnCalls(f)) /\ (Untouched(f)' <=> Untouched(f))
             /\ Complete(f)' <=> Complete(f)
             /\ \A v : /\ Children(f, v)' = Children(f, v) /\ (OneEach(f, v)' <=> OneEach(f, v))
                       /\ \A c : /\ NoneOf(f, v, c)' <=> NoneOf(f, v, c)
                                 /\ OneOf(f, v, c)' <=> OneOf(f, v, c)
  BY <1>1, GraphsKept
<1>4. \A i \in 1..(Depth - 1) : i \in 1..Depth /\ (i < Depth - 1 => i + 1 \in 1..(Depth - 1) /\ i < Depth)
  BY <1>2
<1>5. Linked'
  BY <1>2, <1>4 DEF Progress, Linked
<1>6. \A u : FrameDone(u) => FrameDone(u)'
  BY <1>1, <1>3, ZenonT(60) DEF FrameDone, Left, Waiting, graphs
<1>7. \A i \in 1..Depth' : FrameDone(stack[i])'
  BY <1>2, <1>4, <1>6 DEF Progress
<1>8. Complete(Top.on)
  <2>1. FrameDone(Top) /\ \A v \in Own(Top.on) : v < Top.at
    BY <1>1, TopDone
  <2> QED BY <2>1 DEF FrameDone, Complete
<1>9. ASSUME NEW f, OnStack(f) PROVE OnStack(f)' \/ f = Top.on
  <2>1. PICK i \in 1..Depth : stack[i].on = f
    BY <1>9 DEF OnStack
  <2>2. i \in 1..(Depth - 1) \/ i = Depth
    BY <1>2
  <2> QED BY <2>1, <2>2, <1>2 DEF OnStack
<1>10. (~Recursive => CopiesComplete)'
  <2>1. Recursive' <=> Recursive
    BY <1>1 DEF Recursive
  <2>2. CopiesComplete' <=> CopiesComplete
    BY <1>1, <1>3 DEF CopiesComplete, Vertices, graphs
  <2> QED BY <2>1, <2>2 DEF Progress
<1>11. \A f \in scanned' \cup {Main} : OnStack(f)' \/ Complete(f)'
  BY <1>1, <1>3, <1>8, <1>9 DEF Progress
<1> QED BY <1>1, <1>3, <1>5, <1>7, <1>10, <1>11 DEF Progress

LEMMA ProgressInit == Init => Progress
<1> SUFFICES ASSUME Init PROVE Progress
  OBVIOUS
<1>1. IInv
  BY InitInv
<1>2. ASSUME NEW f \in Functions PROVE OwnCalls(f) /\ Untouched(f) /\ Len(Body[f]) \in Nat
  <2>1. Len(Body[f]) \in Nat /\ size[f] = Len(Body[f]) + 1
    BY BodyIs DEF Init, InitGraphs
  <2>2. \A v \in Own(f) : v \in 0..Len(Body[f]) /\ v # 0
    BY <2>1 DEF Own
  <2>3. \A v \in Own(f) : node[f][v] = Body[f][v]
    BY <2>2 DEF Init, InitGraphs
  <2>4. \A v \in Own(f) : Children(f, v) = {}
    <3>1. \A e \in arc[f] : \E w \in 1..Len(Body[f]) : e = <<0, w>>
      BY DEF Init, InitGraphs
    <3>2. \A w : <<0, w>>[1] = 0
      OBVIOUS
    <3> QED BY <2>2, <3>1, <3>2 DEF Children
  <2> QED BY <2>1, <2>3, <2>4 DEF OwnCalls, Untouched
<1>3. PICK t : /\ t = [on |-> Main, at |-> 0, limit |-> Len(Body[Main]) + 1,
                       step |-> "visit", todo |-> {}, callee |-> Main, link |-> 0]
               /\ stack = <<t>>
  BY DEF Init
<1>4. Depth = 1 /\ stack[1] = t /\ Main \in Functions /\ scanned = {}
  BY <1>3, ProgramAssumption DEF Depth, Init
<1>5. FrameDone(t)
  <2>1. \A v \in Own(Main) : v # 0 /\ ~(v < 0) /\ Children(Main, v) = {}
    BY <1>2, <1>4 DEF Own, Untouched
  <2> QED BY <1>3, <2>1 DEF FrameDone
<1>6. OnStack(Main) /\ Linked
  BY <1>3, <1>4 DEF OnStack, Linked
<1>7. CopiesComplete
  <2>1. ASSUME NEW f \in Functions, NEW v \in Vertices(f), v \notin Own(f) PROVE node[f][v] \notin Sites
    <3>1. v = 0
      BY <2>1, <1>2 DEF Vertices, Own, Untouched
    <3> QED BY <3>1, <1>1, ProgramAssumption DEF IInv, GraphOK
  <2> QED BY <2>1 DEF CopiesComplete
<1>8. Depth = 1 => \A i \in 1..Depth : i = 1
  OBVIOUS
<1> QED BY <1>2, <1>4, <1>5, <1>6, <1>7, <1>8 DEF Progress

\* What is walked over can be called, so nobody walks over main when nobody calls it.
LEMMA ProgressNext == IInv /\ Entered /\ (NoMain => Progress) /\ [Next]_vars => (NoMain => Progress)'
<1> SUFFICES ASSUME IInv, Entered, NoMain => Progress, [Next]_vars, NoMain' PROVE Progress'
  OBVIOUS
<1>1. UNCHANGED callees
  BY DEF Next, Connect, Terminated, vars, Skip, Visit, CallKnown, CallNew, AppendCallee, Link,
         AllConnected, Return
<1>2. NoMain /\ Progress
  BY <1>1 DEF NoMain
<1>3. CASE UNCHANGED vars
  <2>1. UNCHANGED <<callees, graphs, scanned, stack>>
    BY <1>3 DEF vars
  <2>2. \A f : /\ (OwnCalls(f)' <=> OwnCalls(f)) /\ (Untouched(f)' <=> Untouched(f))
               /\ Complete(f)' <=> Complete(f)
               /\ \A v : /\ Children(f, v)' = Children(f, v) /\ (OneEach(f, v)' <=> OneEach(f, v))
                         /\ \A c : /\ NoneOf(f, v, c)' <=> NoneOf(f, v, c)
                                   /\ OneOf(f, v, c)' <=> OneOf(f, v, c)
    BY <2>1, GraphsKept
  <2>3. \A u : FrameDone(u) => FrameDone(u)'
    BY <2>1, <2>2 DEF FrameDone, Left, Waiting, graphs
  <2>4. \A i \in 1..Depth' : FrameDone(stack[i])'
    <3>1. \A i \in 1..Depth' : \A u : u = stack'[i] => FrameDone(u)'
      BY <1>2, <2>1, <2>3 DEF Progress, Depth
    <3> QED BY <3>1
  <2>5. /\ Linked' <=> Linked
        /\ Recursive' <=> Recursive
        /\ \A f : OnStack(f)' <=> OnStack(f)
    BY <2>1 DEF Linked, Recursive, OnStack, Depth
  <2>6. CopiesComplete' <=> CopiesComplete
    BY <2>1, <2>2 DEF CopiesComplete, Vertices, graphs
  <2> QED BY <1>2, <2>1, <2>2, <2>4, <2>5, <2>6 DEF Progress
<1> QED
  BY <1>2, <1>3, SkipProgress, VisitProgress, CallKnownProgress, CallNewProgress, AppendProgress,
     LinkProgress, AllConnectedProgress, ReturnProgress DEF Next, Connect, Terminated

LEMMA AllExpanded == ASSUME IInv, NoMain => Progress PROVE FullyExpanded
<1> SUFFICES ASSUME Done, NoMain, NEW f \in scanned \cup {Main}
             PROVE  /\ \A v \in 1..Len(Body[f]) : OneEach(f, v)
                    /\ ~Recursive => \A v \in Vertices(f) : node[f][v] \in Sites => OneEach(f, v)
  BY DEF FullyExpanded, NoMain
<1>1. f \in Functions
  BY ProgramAssumption DEF IInv
<1>2. ~OnStack(f)
  BY DEF Done, Depth, OnStack
<1>3. Complete(f)
  BY <1>2 DEF Progress
<1>4. ~Recursive => \A v \in Vertices(f) : node[f][v] \in Sites /\ v \notin Own(f) => OneEach(f, v)
  BY <1>1 DEF Progress, CopiesComplete
<1> QED BY <1>3, <1>4 DEF Complete, Own

\* No calling context is missing and none is there twice, for any program in which nobody
\* calls main: in the end every call of a function that was walked over has one copy of
\* each of its callees below it, and without recursion every call in every copy (389-430).
THEOREM Expanded == Spec => []FullyExpanded
<1>1. Init => (NoMain => Progress)
  BY ProgressInit
<1>2. IInv /\ (NoMain => Progress) => FullyExpanded
  BY AllExpanded
<1> QED BY Invariant, EnteredInit, EnteredNext, <1>1, ProgressNext, <1>2, PTL DEF Spec

-----------------------------------------------------------------------------
(* What is read from the samples                                             *)

\* The results for the first pairs, by the sets of numbers that FoldLeft goes through.
IsFold(H, g, pairs, S) ==
    H = [V \in SUBSET S |-> IF V = {} THEN g ELSE ConnectPair(H[V \ {Max(V)}], pairs[Max(V)])]

LEMMA FoldExists ==
    ASSUME NEW g, NEW pairs, NEW n \in Nat
    PROVE  \E H : IsFold(H, g, pairs, 1..n)
<1> DEFINE T == {m \in Nat : ~\E H : IsFold(H, g, pairs, 1..m)}
<1>1. SUFFICES ASSUME T # {} PROVE FALSE
  OBVIOUS
<1>2. PICK m \in T : \A k \in T : m <= k
  <2>1. T \in SUBSET Nat
    OBVIOUS
  <2> HIDE DEF T
  <2> QED BY <1>1, <2>1, LeastNumber
<1>3. m # 0
  <2>1. SUBSET (1..0) = {{}}
    OBVIOUS
  <2>2. PICK H : H = [V \in {{}} |-> g]
    OBVIOUS
  <2>3. H = [V \in SUBSET (1..0) |->
               IF V = {} THEN g ELSE ConnectPair(H[V \ {Max(V)}], pairs[Max(V)])]
    BY <2>1, <2>2
  <2>4. IsFold(H, g, pairs, 1..0)
    BY <2>3 DEF IsFold
  <2> QED BY <2>4
<1>4. m \in Nat /\ m - 1 \in Nat /\ m - 1 \notin T
  BY <1>2, <1>3
<1>5. PICK H : IsFold(H, g, pairs, 1..(m - 1))
  BY <1>4
<1> DEFINE K == [V \in SUBSET (1..m) |->
                   IF m \in V THEN ConnectPair(H[V \ {m}], pairs[m]) ELSE H[V]]
<1>6. ASSUME NEW V \in SUBSET (1..m)
      PROVE  K[V] = IF V = {} THEN g ELSE ConnectPair(K[V \ {Max(V)}], pairs[Max(V)])
  <2>1. CASE m \in V
    <3>1. Max(V) = m
      <4>1. m \in V /\ \A y \in V : m >= y
        BY <2>1, <1>4
      <4>2. \A x \in V : (\A y \in V : x >= y) => x = m
        BY <4>1, <1>4
      <4> QED BY <4>1, <4>2 DEF Max
    <3>2. V \ {m} \in SUBSET (1..m) /\ m \notin V \ {m}
      OBVIOUS
    <3>3. K[V \ {m}] = H[V \ {m}]
      BY <3>2
    <3> HIDE DEF K
    <3>4. K[V] = ConnectPair(H[V \ {m}], pairs[m])
      BY <2>1 DEF K
    <3> QED BY <2>1, <3>1, <3>3, <3>4
  <2>2. CASE m \notin V
    <3>1. V \in SUBSET (1..(m - 1)) /\ V \ {Max(V)} \in SUBSET (1..m) /\ m \notin V \ {Max(V)}
      <4>1. \A i \in V : i \in 1..(m - 1)
        BY <2>2, <1>4
      <4> QED BY <2>2, <4>1
    <3>2. K[V] = H[V] /\ K[V \ {Max(V)}] = H[V \ {Max(V)}]
      BY <2>2, <3>1
    <3> HIDE DEF K
    <3>3. H[V] = IF V = {} THEN g ELSE ConnectPair(H[V \ {Max(V)}], pairs[Max(V)])
      BY <1>5, <3>1 DEF IsFold
    <3> QED BY <3>2, <3>3
  <2> QED BY <2>1, <2>2
<1>7. IsFold(K, g, pairs, 1..m)
  <2>1. K = [V \in SUBSET (1..m) |-> K[V]]
    OBVIOUS
  <2> HIDE DEF K
  <2> QED BY <1>6, <2>1 DEF IsFold
<1> HIDE DEF K
<1> QED BY <1>2, <1>7

\* The pairs are taken one after the other.
LEMMA FoldIs ==
    ASSUME NEW g, NEW pairs, NEW n \in Nat, DOMAIN pairs = 1..n
    PROVE  \E F : /\ F[0] = g /\ F[n] = Connected(g, pairs)
                  /\ \A k \in 1..n : F[k] = ConnectPair(F[k - 1], pairs[k])
<1>1. PICK H : IsFold(H, g, pairs, DOMAIN pairs) /\ Connected(g, pairs) = H[DOMAIN pairs]
  <2>1. \E H : IsFold(H, g, pairs, DOMAIN pairs)
    BY FoldExists
  <2> QED BY <2>1, ZenonT(40) DEF IsFold, Connected, FoldLeft, MapThenFoldSet
<1>2. IsFold(H, g, pairs, 1..n)
  BY <1>1
<1> DEFINE F == [k \in 0..n |-> H[1..k]]
<1>3. F[0] = g
  <2>1. 1..0 = {} /\ {} \in SUBSET (1..n)
    OBVIOUS
  <2>2. H[{}] = g
    BY <1>2, <2>1 DEF IsFold
  <2>3. F[0] = H[1..0]
    OBVIOUS
  <2> HIDE DEF F
  <2> QED BY <2>1, <2>2, <2>3
<1>4. F[n] = Connected(g, pairs)
  <2>1. F[n] = H[1..n]
    OBVIOUS
  <2> HIDE DEF F
  <2> QED BY <1>1, <2>1
<1>5. ASSUME NEW k \in 1..n PROVE F[k] = ConnectPair(F[k - 1], pairs[k])
  <2>1. Max(1..k) = k
    <3>1. k \in 1..k /\ \A y \in 1..k : k >= y
      OBVIOUS
    <3>2. \A x \in 1..k : (\A y \in 1..k : x >= y) => x = k
      BY <3>1
    <3> QED BY <3>1, <3>2 DEF Max
  <2>2. 1..k \in SUBSET (1..n) /\ 1..k # {} /\ (1..k) \ {k} = 1..(k - 1)
    OBVIOUS
  <2>3. F[k] = H[1..k] /\ F[k - 1] = H[1..(k - 1)]
    OBVIOUS
  <2> HIDE DEF F
  <2>4. H[1..k] = ConnectPair(H[(1..k) \ {Max(1..k)}], pairs[Max(1..k)])
    BY <1>2, <2>2 DEF IsFold
  <2> QED BY <2>1, <2>2, <2>3, <2>4
<1> HIDE DEF F
<1> QED BY <1>3, <1>4, <1>5

\* What is found at an address of the program does not depend on the libraries that were
\* added, nor does whether it is a certain call of the program.
LEMMA AddressIs ==
    ASSUME NEW a \in Address, NEW there \in SUBSET Libs
    PROVE  /\ Text(a) => /\ FunctionAt(a, there) = FunctionAt(a, {})
                         /\ FunctionAt(a, {}) \subseteq Functions \ Libs
           /\ ~Text(a) => FunctionAt(a, {}) = {}
           /\ \A s \in Plain : s \in CallAt(a, there) <=> a = <<"call", s>>
<1>1. CASE a \in {"call"} \X {s \in Plain : \E f \in Functions : s \in Calls(f)}
  <2>1. PICK s \in Plain : a = <<"call", s>> /\ \E f \in Functions : s \in Calls(f)
    BY <1>1
  <2>2. Owner(s) \in Functions /\ s \in Calls(Owner(s))
    BY <2>1 DEF Owner
  <2>3. Owner(s) \notin Libs
    BY <2>2 DEF Plain
  <2> QED BY <2>1, <2>2, <2>3 DEF Text, FunctionAt, CallAt
<1>2. CASE a \in {"in"} \X (Functions \ Libs)
  <2>1. PICK f \in Functions \ Libs : a = <<"in", f>>
    BY <1>2
  <2> QED BY <2>1 DEF Text, FunctionAt, CallAt
<1>3. CASE a = Start
  <2>1. Main \notin there
    BY LibAssumption
  <2> QED BY <1>3, <2>1 DEF Start, Text, FunctionAt, CallAt
<1>4. CASE a \in {"lib"} \X (Libs \cup {Hidden})
  <2>1. PICK l \in Libs \cup {Hidden} : a = <<"lib", l>>
    BY <1>4
  <2>2. \A s \in Plain : l \in there => s \notin Calls(l)
    BY DEF Plain
  <2> QED BY <2>1, <2>2 DEF Text, FunctionAt, CallAt
<1> QED BY <1>1, <1>2, <1>3, <1>4 DEF Address

\* What is known of the call graph while samples are read: what was found after a call is
\* one of its callees, and libraries are there with debug information only.
Found(g) ==
    /\ g.callees \in [Sites -> SUBSET Functions] /\ g.added \subseteq Libs
    /\ \A s \in Plain : \A a \in Address :
            <<<<"call", s>>, a>> \in g.visited => FunctionAt(a, {}) \subseteq g.callees[s]
    /\ ~input.debug => g.visited = {} /\ \A s \in Plain : g.callees[s] \cap Libs = {}

\* The functions among the second addresses of the first k pairs, after a call s.
After(seen, k, s) == UNION {FunctionAt(seen[j + 1], {}) : j \in {i \in 1..k : seen[i] = <<"call", s>>}}

LEMMA ConnectPairIs ==
    ASSUME NEW g, Found(g), input.debug \in BOOLEAN,
           NEW a \in Address, NEW b \in Address, Known(a), Known(b),
           NEW h, h = ConnectPair(g, <<a, b>>)
    PROVE  /\ Found(h)
           /\ \A s \in Plain : h.callees[s] \ Libs =
                 (g.callees[s] \ Libs) \cup (IF a = <<"call", s>> THEN FunctionAt(b, {}) ELSE {})
<1> DEFINE call == CallAt(a, g.added)
           reached == IF b[1] = "lib" THEN {b[2]} ELSE FunctionAt(b, g.added)
<1>1. /\ \A s \in Plain : s \in call <=> a = <<"call", s>>
      /\ g.added \in SUBSET Libs /\ Plain \subseteq Sites
  BY AddressIs DEF Found, Plain
<1>2. /\ reached \subseteq Functions /\ reached \ Libs = FunctionAt(b, {})
      /\ b[1] = "lib" => b[2] \in Libs /\ input.debug
      /\ ~input.debug => reached \cap Libs = {}
  <2>1. CASE Text(b)
    <3>1. reached = FunctionAt(b, {}) /\ FunctionAt(b, {}) \subseteq Functions \ Libs
      BY <1>1, <2>1, AddressIs DEF Text
    <3> QED BY <2>1, <3>1 DEF Text
  <2>2. CASE ~Text(b)
    <3>1. FunctionAt(b, {}) = {} /\ b[1] = "lib" /\ b[2] # Hidden /\ input.debug
      BY <2>2, AddressIs DEF Known, Text
    <3>2. PICK l \in Libs \cup {Hidden} : b = <<"lib", l>>
      BY <3>1 DEF Address, Start
    <3>3. b[2] \in Libs
      BY <3>1, <3>2
    <3> QED BY <3>1, <3>3, LibAssumption
  <2> QED BY <2>1, <2>2
<1>3. CASE <<a, b>> \in g.visited
  <2>1. h = g
    BY <1>3 DEF ConnectPair
  <2>2. \A s \in Plain : a = <<"call", s>> => FunctionAt(b, {}) \subseteq g.callees[s] \ Libs
    BY <1>2, <1>3 DEF Found
  <2> QED BY <2>1, <2>2
<1>4. CASE <<a, b>> \notin g.visited
  <2> HIDE DEF call, reached
  <2>1. h = [callees |-> [s \in Sites |-> g.callees[s] \cup (IF s \in call THEN reached ELSE {})],
             added |-> IF call # {} /\ b[1] = "lib" THEN g.added \cup {b[2]} ELSE g.added,
             visited |-> IF input.debug THEN g.visited \cup {<<a, b>>} ELSE {}]
    BY <1>4 DEF ConnectPair, call, reached
  <2> DEFINE x == [s \in Sites |-> g.callees[s] \cup (IF s \in call THEN reached ELSE {})]
             y == IF call # {} /\ b[1] = "lib" THEN g.added \cup {b[2]} ELSE g.added
             z == IF input.debug THEN g.visited \cup {<<a, b>>} ELSE {}
  <2>2. h.callees = x /\ h.added = y /\ h.visited = z
    <3>1. h = [callees |-> x, added |-> y, visited |-> z]
      BY <2>1
    <3> HIDE DEF x, y, z
    <3> QED BY <3>1
  <2>3. g.callees \in [Sites -> SUBSET Functions]
    BY DEF Found
  <2>4. \A s \in Plain : h.callees[s] = g.callees[s] \cup (IF a = <<"call", s>> THEN reached ELSE {})
    BY <1>1, <2>2
  <2>5. h.callees \in [Sites -> SUBSET Functions] /\ h.added \subseteq Libs
    <3>1. \A s \in Sites : g.callees[s] \cup (IF s \in call THEN reached ELSE {}) \in SUBSET Functions
      BY <1>2, <2>3
    <3> QED BY <1>1, <1>2, <2>2, <3>1
  <2>6. ASSUME NEW s \in Plain, NEW c \in Address, <<<<"call", s>>, c>> \in h.visited
        PROVE  FunctionAt(c, {}) \subseteq h.callees[s]
    <3>1. <<<<"call", s>>, c>> \in g.visited \/ (a = <<"call", s>> /\ c = b)
      BY <2>2, <2>6
    <3>2. FunctionAt(b, {}) \subseteq reached
      BY <1>2
    <3> QED BY <2>4, <3>1, <3>2 DEF Found
  <2>7. ~input.debug => h.visited = {} /\ \A s \in Plain : h.callees[s] \cap Libs = {}
    BY <1>2, <2>2, <2>4 DEF Found
  <2>8. \A s \in Plain : h.callees[s] \ Libs =
           (g.callees[s] \ Libs) \cup (IF a = <<"call", s>> THEN FunctionAt(b, {}) ELSE {})
    BY <1>2, <2>4
  <2> QED BY <2>5, <2>6, <2>7, <2>8 DEF Found
<1> QED BY <1>3, <1>4

\* All the pairs of one call path.
LEMMA ConnectPairsIs ==
    ASSUME NEW g, Found(g), input.debug \in BOOLEAN,
           NEW seen, NEW len \in Nat, DOMAIN seen = 1..len, Len(seen) = len,
           \A i \in 1..len : seen[i] \in Address /\ Known(seen[i]),
           NEW h, h = Connected(g, Pairs(seen))
    PROVE  /\ Found(h)
           /\ \A s \in Plain : h.callees[s] \ Libs = (g.callees[s] \ Libs) \cup After(seen, len - 1, s)
<1> DEFINE pairs == Pairs(seen)
<1>1. PICK n \in Nat : n = IF len = 0 THEN 0 ELSE len - 1
  OBVIOUS
<1>2. 1..n = 1..(len - 1) /\ DOMAIN pairs = 1..n /\ \A i \in 1..n : pairs[i] = <<seen[i], seen[i + 1]>>
  BY <1>1 DEF Pairs
<1> HIDE DEF pairs
<1>3. PICK F : /\ F[0] = g /\ F[n] = Connected(g, pairs)
               /\ \A k \in 1..n : F[k] = ConnectPair(F[k - 1], pairs[k])
  <2>1. DOMAIN pairs = 1..n
    BY <1>2
  <2> QED BY <2>1, FoldIs
<1> DEFINE Holds(k) == /\ Found(F[k])
                       /\ \A s \in Plain : F[k].callees[s] \ Libs =
                                              (g.callees[s] \ Libs) \cup After(seen, k, s)
           Bad == {k \in 0..n : ~Holds(k)}
<1>4. SUFFICES ASSUME Bad # {} PROVE FALSE
  <2>1. Holds(n)
    BY <1>4
  <2>2. \A s \in Plain : After(seen, n, s) = After(seen, len - 1, s)
    BY <1>2 DEF After
  <2>3. h = F[n]
    BY <1>3 DEF pairs
  <2> QED BY <2>1, <2>2, <2>3
<1>5. PICK k \in Bad : \A j \in Bad : k <= j
  <2>1. Bad \in SUBSET Nat
    OBVIOUS
  <2> HIDE DEF Bad
  <2> QED BY <1>4, <2>1, LeastNumber
<1>6. k # 0
  <2>1. \A s \in Plain : After(seen, 0, s) = {}
    BY DEF After
  <2>2. Holds(0)
    BY <1>3, <2>1
  <2> QED BY <2>2
<1>7. k \in 1..n /\ k - 1 \in 0..n /\ k - 1 \notin Bad
  BY <1>5, <1>6
<1>8. Found(F[k - 1]) /\ \A s \in Plain : F[k - 1].callees[s] \ Libs =
                                             (g.callees[s] \ Libs) \cup After(seen, k - 1, s)
  BY <1>7
<1>9. F[k] = ConnectPair(F[k - 1], <<seen[k], seen[k + 1]>>)
  BY <1>2, <1>3, <1>7
<1>10. k \in 1..len /\ k + 1 \in 1..len
  BY <1>1, <1>7
<1>11. /\ Found(F[k])
       /\ \A s \in Plain : F[k].callees[s] \ Libs =
            (F[k - 1].callees[s] \ Libs) \cup (IF seen[k] = <<"call", s>> THEN FunctionAt(seen[k + 1], {}) ELSE {})
  BY <1>8, <1>9, <1>10, ConnectPairIs
<1>12. ASSUME NEW s \in Plain
       PROVE  After(seen, k, s) = After(seen, k - 1, s)
                 \cup (IF seen[k] = <<"call", s>> THEN FunctionAt(seen[k + 1], {}) ELSE {})
  <2>1. {i \in 1..k : seen[i] = <<"call", s>>} =
           {i \in 1..(k - 1) : seen[i] = <<"call", s>>} \cup (IF seen[k] = <<"call", s>> THEN {k} ELSE {})
    BY <1>7
  <2> QED BY <2>1, ZenonT(60) DEF After
<1>13. Holds(k)
  BY <1>8, <1>11, <1>12
<1> QED BY <1>5, <1>13

\* Where the numbers of a call path that are kept because they are in the program are, and
\* behind all of them those of shared objects: what Preserved does.
LEMMA PreservedIs ==
    ASSUME NEW p \in Seq(Address)
    PROVE  LET T == {i \in DOMAIN p : Text(p[i])}
               text == Selected(p, T)
               kept == Preserved(p)
           IN  /\ Len(text) \in Nat /\ Len(kept) \in Nat /\ Len(text) <= Len(kept)
               /\ DOMAIN text = 1..Len(text) /\ DOMAIN kept = 1..Len(kept)
               /\ IsSequence(text) /\ IsSequence(kept)
               /\ \A n \in 1..Len(kept) : kept[n] \in Address
               /\ \A n \in 1..Len(text) : kept[n] = text[n] /\ Text(kept[n])
               /\ \A n \in 1..Len(kept) : n > Len(text) => ~Text(kept[n])
<1> DEFINE T == {i \in DOMAIN p : Text(p[i])}
           bounds == {k \in 0..Len(p) : \A i \in T : i <= k}
           inner == Max({0} \cup T)
           S == {i \in DOMAIN p : Text(p[i]) \/ i > inner}
<1>1. Len(p) \in Nat /\ DOMAIN p = 1..Len(p) /\ IsSequence(p)
  BY DEF IsSequence
<1>2. inner \in 0..Len(p) /\ \A i \in T : i <= inner
  <2>1. bounds \in SUBSET Nat /\ Len(p) \in bounds
    BY <1>1
  <2>2. PICK m \in bounds : \A k \in bounds : m <= k
    <3> HIDE DEF bounds
    <3> QED BY <2>1, LeastNumber
  <2>3. m \in {0} \cup T
    <3>1. SUFFICES ASSUME m # 0, m \notin T PROVE FALSE
      OBVIOUS
    <3>2. m - 1 \in 0..Len(p) /\ \A i \in T : i <= m - 1
      BY <1>1, <2>2, <3>1
    <3>3. m - 1 \in bounds
      BY <3>2
    <3> QED BY <1>1, <2>2, <3>3
  <2>4. \A y \in {0} \cup T : m >= y
    BY <1>1, <2>2
  <2>5. inner \in {0} \cup T /\ \A y \in {0} \cup T : inner >= y
    <3> HIDE DEF T
    <3> QED BY <2>3, <2>4 DEF Max
  <2> QED BY <1>1, <2>5
<1> HIDE DEF inner
<1>3. /\ S \in SUBSET (1..Len(p)) /\ T \in SUBSET S /\ S \in SUBSET Int
      /\ \A i \in T : \A j \in S \ T : i < j
  <2>1. S \in SUBSET (1..Len(p)) /\ T \in SUBSET S
    BY <1>1
  <2>2. ASSUME NEW i \in T, NEW j \in S \ T PROVE i < j
    <3>1. i <= inner /\ j > inner /\ i \in Int /\ j \in Int
      BY <1>1, <1>2
    <3> QED BY <1>2, <3>1
  <2> QED BY <2>1, <2>2
<1>4. IsFiniteSet(S)
  <2>1. IsFiniteSet(1..Len(p))
    BY <1>1, FS_Interval
  <2> HIDE DEF S, T
  <2> QED BY <1>3, <2>1, FS_Subset
<1>5. Preserved(p) = Selected(p, S)
  BY DEF Preserved, inner
<1>6. /\ Cardinality(T) \in Nat /\ Cardinality(S) \in Nat /\ Cardinality(T) <= Cardinality(S)
      /\ \A n \in 1..Cardinality(T) : Nth(S, n) = Nth(T, n) /\ Nth(T, n) \in T
      /\ \A n \in 1..Cardinality(S) : n > Cardinality(T) => Nth(S, n) \in S \ T
  <2> HIDE DEF S, T
  <2> QED BY <1>3, <1>4, NthPrefix
<1>7. T \in SUBSET (1..Len(p))
  BY <1>3
<1>8. /\ IsSequence(Selected(p, T)) /\ Len(Selected(p, T)) = Cardinality(T)
      /\ DOMAIN Selected(p, T) = 1..Cardinality(T)
      /\ \A n \in 1..Cardinality(T) : Selected(p, T)[n] = p[Nth(T, n)]
  <2> HIDE DEF T
  <2> QED BY <1>1, <1>7, SelectedIs
<1>9. /\ IsSequence(Selected(p, S)) /\ Len(Selected(p, S)) = Cardinality(S)
      /\ DOMAIN Selected(p, S) = 1..Cardinality(S)
      /\ \A n \in 1..Cardinality(S) : Nth(S, n) \in S /\ Selected(p, S)[n] = p[Nth(S, n)]
  <2> HIDE DEF S
  <2> QED BY <1>1, <1>3, SelectedIs
<1>10. ASSUME NEW n \in 1..Cardinality(S) PROVE Selected(p, S)[n] \in Address
  <2>1. Nth(S, n) \in 1..Len(p)
    BY <1>3, <1>9
  <2> QED BY <1>9, <2>1
<1>11. ASSUME NEW n \in 1..Cardinality(T)
       PROVE  Selected(p, S)[n] = Selected(p, T)[n] /\ Text(Selected(p, S)[n])
  <2>1. n \in 1..Cardinality(S) /\ Nth(S, n) = Nth(T, n) /\ Nth(T, n) \in T
    <3> HIDE DEF S, T
    <3> QED BY <1>6
  <2>2. Selected(p, S)[n] = p[Nth(T, n)] /\ Selected(p, T)[n] = p[Nth(T, n)]
    BY <1>8, <1>9, <2>1
  <2> QED BY <2>1, <2>2
<1>12. ASSUME NEW n \in 1..Cardinality(S), n > Cardinality(T) PROVE ~Text(Selected(p, S)[n])
  <2>1. Nth(S, n) \in S \ T /\ Nth(S, n) \in DOMAIN p
    BY <1>6, <1>12
  <2>2. ~Text(p[Nth(S, n)])
    BY <2>1
  <2> QED BY <1>9, <2>2
<1> HIDE DEF S, T
<1>13. /\ Len(Selected(p, T)) \in Nat /\ Len(Selected(p, S)) \in Nat
       /\ Len(Selected(p, T)) <= Len(Selected(p, S))
       /\ DOMAIN Selected(p, T) = 1..Len(Selected(p, T))
       /\ DOMAIN Selected(p, S) = 1..Len(Selected(p, S))
       /\ IsSequence(Selected(p, T)) /\ IsSequence(Selected(p, S))
       /\ \A n \in 1..Len(Selected(p, S)) : Selected(p, S)[n] \in Address
       /\ \A n \in 1..Len(Selected(p, T)) :
             Selected(p, S)[n] = Selected(p, T)[n] /\ Text(Selected(p, S)[n])
       /\ \A n \in 1..Len(Selected(p, S)) : n > Len(Selected(p, T)) => ~Text(Selected(p, S)[n])
  BY <1>6, <1>8, <1>9, <1>10, <1>11, <1>12
<1> QED BY <1>5, <1>13 DEF T

\* What ReadSample takes of a path, with the first address dropped and what is not known.
LEMMA SeenIs ==
    ASSUME NEW p \in Seq(Address), NEW seen,
           seen = Selected(Preserved(p), {i \in 2..Len(Preserved(p)) : Known(Preserved(p)[i])})
    PROVE  /\ Len(seen) \in Nat /\ DOMAIN seen = 1..Len(seen)
           /\ \A n \in 1..Len(seen) : seen[n] \in Address /\ Known(seen[n])
           /\ \A s \in Plain : After(seen, Len(seen) - 1, s) = Followers(p, s)
<1> DEFINE path == Preserved(p)
           text == Selected(p, {i \in DOMAIN p : Text(p[i])})
           K == {i \in 2..Len(path) : Known(path[i])}
<1>1. /\ Len(text) \in Nat /\ Len(path) \in Nat /\ Len(text) <= Len(path)
      /\ DOMAIN text = 1..Len(text) /\ DOMAIN path = 1..Len(path)
      /\ IsSequence(path)
      /\ \A n \in 1..Len(path) : path[n] \in Address
      /\ \A n \in 1..Len(text) : path[n] = text[n] /\ Text(path[n])
      /\ \A n \in 1..Len(path) : n > Len(text) => ~Text(path[n])
  BY PreservedIs
<1> HIDE DEF path, text
<1>2. K \in SUBSET (1..Len(path)) /\ K \in SUBSET Int /\ IsFiniteSet(K)
  <2>1. K \in SUBSET (1..Len(path)) /\ K \in SUBSET Int
    BY <1>1
  <2>2. IsFiniteSet(1..Len(path))
    BY <1>1, FS_Interval
  <2> HIDE DEF K
  <2> QED BY <2>1, <2>2, FS_Subset
<1>3. PICK t \in Nat : /\ Len(text) \in Nat
                      /\ IF Len(text) = 0 THEN t = 0 ELSE Len(text) = t + 1
  <2>1. Len(text) \in Nat
    BY <1>1
  <2>2. \A n \in Nat : \E t \in Nat : IF n = 0 THEN t = 0 ELSE n = t + 1
    <3> TAKE n \in Nat
    <3>1. CASE n = 0
      BY <3>1
    <3>2. CASE n # 0
      <4>1. n - 1 \in Nat /\ n = (n - 1) + 1
        BY <3>2
      <4> QED BY <3>2, <4>1
    <3> QED BY <3>1, <3>2
  <2> QED BY <2>1, <2>2
<1> DEFINE T == 2..(t + 1)
<1>4. T \in SUBSET K /\ \A i \in T : \A j \in K \ T : i < j
  <2>1. ASSUME NEW i \in T PROVE i \in K
    <3>1. i \in 1..Len(text) /\ i \in Int /\ 2 <= i
      BY <1>3
    <3>2. i \in 2..Len(path)
      BY <1>1, <3>1
    <3> QED BY <1>1, <3>1, <3>2 DEF Known
  <2>2. ASSUME NEW i \in T, NEW j \in K \ T PROVE i < j
    BY <1>1, <1>2
  <2> QED BY <2>1, <2>2
<1>5. Cardinality(T) = t /\ \A n \in 1..t : Nth(T, n) = n + 1
  <2>1. 2 <= (t + 1) + 1 /\ t + 1 \in Int /\ (t + 1) - 2 + 1 = t /\ \A n \in Int : 2 + n - 1 = n + 1
    OBVIOUS
  <2> QED BY <2>1, NthInterval
<1>6. /\ Cardinality(K) \in Nat /\ t <= Cardinality(K)
      /\ \A n \in 1..t : Nth(K, n) = n + 1
      /\ \A n \in 1..Cardinality(K) : n > t => Nth(K, n) \in K \ T
  <2> HIDE DEF K, T
  <2> QED BY <1>2, <1>4, <1>5, NthPrefix
<1>7. /\ Len(seen) = Cardinality(K) /\ DOMAIN seen = 1..Cardinality(K)
      /\ \A n \in 1..Cardinality(K) : Nth(K, n) \in K /\ seen[n] = path[Nth(K, n)]
  <2>1. seen = Selected(path, K)
    BY DEF path
  <2> HIDE DEF K
  <2>2. IsSequence(path) /\ K \in SUBSET (1..Len(path))
    BY <1>1, <1>2
  <2>3. /\ Len(Selected(path, K)) = Cardinality(K) /\ DOMAIN Selected(path, K) = 1..Cardinality(K)
        /\ \A n \in 1..Cardinality(K) : Nth(K, n) \in K /\ Selected(path, K)[n] = path[Nth(K, n)]
    BY <2>2, SelectedIs
  <2> QED BY <2>1, <2>3
<1>8. \A n \in 1..Len(seen) : seen[n] \in Address /\ Known(seen[n])
  BY <1>1, <1>2, <1>7
<1>9. \A n \in 1..t : seen[n] = text[n + 1]
  <2> TAKE n \in 1..t
  <2>1. n \in 1..Cardinality(K) /\ n + 1 \in 1..Len(text)
    BY <1>3, <1>6
  <2> QED BY <1>1, <1>6, <1>7, <2>1
<1>10. ASSUME NEW n \in 1..Len(seen), n > t PROVE ~Text(seen[n])
  <2>1. Nth(K, n) \in K \ T
    BY <1>6, <1>7, <1>10
  <2>2. Nth(K, n) \in 1..Len(path) /\ Nth(K, n) > Len(text)
    <3>1. ASSUME NEW i \in K \ T PROVE i \in 1..Len(path) /\ i > Len(text)
      <4>1. i \in 1..Len(path) /\ i \in Int /\ 2 <= i
        BY <1>2
      <4>2. i > t + 1
        BY <4>1
      <4> QED BY <1>3, <4>1, <4>2
    <3> HIDE DEF K, T
    <3> QED BY <2>1, <3>1
  <2> QED BY <1>1, <1>7, <2>2
<1> HIDE DEF K, T
<1>11. Len(seen) \in Nat /\ t <= Len(seen) /\ DOMAIN seen = 1..Len(seen)
  BY <1>6, <1>7
<1>12. ASSUME NEW s \in Plain PROVE After(seen, Len(seen) - 1, s) = Followers(p, s)
  <2> DEFINE A == {i \in 1..(Len(seen) - 1) : seen[i] = <<"call", s>>}
             B == {k \in 2..(Len(text) - 1) : text[k] = <<"call", s>>}
  <2>1. /\ After(seen, Len(seen) - 1, s) = UNION {FunctionAt(seen[j + 1], {}) : j \in A}
        /\ Followers(p, s) = UNION {FunctionAt(text[k + 1], {}) : k \in B}
    BY DEF After, Followers, text
  <2>2. ASSUME NEW k \in B PROVE k - 1 \in A /\ FunctionAt(text[k + 1], {}) = FunctionAt(seen[(k - 1) + 1], {})
    <3>1. k - 1 \in 1..t /\ (k - 1) + 1 \in 1..t /\ k - 1 \in 1..(Len(seen) - 1)
      <4>1. k \in 2..(Len(text) - 1)
        OBVIOUS
      <4>2. k \in 2..t
        BY <1>3, <4>1
      <4> QED BY <1>11, <4>2
    <3>2. seen[k - 1] = text[k] /\ seen[(k - 1) + 1] = text[k + 1]
      BY <1>9, <3>1, SMTT(60)
    <3> QED BY <3>1, <3>2
  <2>3. ASSUME NEW j \in A
        PROVE  FunctionAt(seen[j + 1], {}) = {} \/
                 (j + 1 \in B /\ FunctionAt(seen[j + 1], {}) = FunctionAt(text[(j + 1) + 1], {}))
    <3>1. j \in 1..Len(seen) /\ j + 1 \in 1..Len(seen)
      BY <1>11
    <3>2. j <= t
      BY <1>10, <1>11, <3>1 DEF Text
    <3>3. CASE j + 1 <= t
      <4>1. j \in 1..t /\ j + 1 \in 1..t /\ j + 1 \in 2..(Len(text) - 1)
        BY <1>3, <3>1, <3>3
      <4>2. seen[j] = text[j + 1] /\ seen[j + 1] = text[(j + 1) + 1]
        BY <1>9, <4>1
      <4> QED BY <4>1, <4>2
    <3>4. CASE ~(j + 1 <= t)
      <4>1. ~Text(seen[j + 1]) /\ seen[j + 1] \in Address
        BY <1>8, <1>10, <1>11, <3>1, <3>4
      <4>2. {} \in SUBSET Libs
        OBVIOUS
      <4> QED BY <4>1, <4>2, AddressIs
    <3> QED BY <3>3, <3>4
  <2> HIDE DEF A, B
  <2>4. \A x : (\E k \in B : x \in FunctionAt(text[k + 1], {})) <=>
               (\E j \in A : x \in FunctionAt(seen[j + 1], {}))
    BY <2>2, <2>3
  <2> QED BY <2>1, <2>4
<1> QED BY <1>8, <1>11, <1>12

\* The samples that were read so far are in the call graph, and the graphs are as they were;
\* afterwards the call graph stays as it is while the graphs are walked over.
Reading ==
    /\ Init /\ row \in 1..(Len(input.samples) + 1)
    /\ Found([callees |-> callees, added |-> added, visited |-> visited])
    /\ \A s \in Plain : callees[s] \ Libs =
          UNION {Followers(input.samples[i].path, s) : i \in 1..(row - 1)}
Walking ==
    /\ IInv /\ Entered /\ (NoMain => Progress)
    /\ CalleesWereSampled

DInv == /\ input \in Inputs
        /\ phase \in {"samples", "connect"}
        /\ phase = "samples" => Reading
        /\ phase = "connect" => Walking

LEMMA InputIs ==
    ASSUME input \in Inputs
    PROVE  /\ Len(input.samples) \in Nat /\ DOMAIN input.samples = 1..Len(input.samples)
           /\ \A i \in 1..Len(input.samples) : input.samples[i].path \in Seq(Address)
           /\ input.debug \in BOOLEAN
<1>1. input.samples \in Seq([thread : Nat, path : Seq(Address)]) /\ input.debug \in BOOLEAN
  BY InputAssumption
<1> DEFINE Sample == [thread : Nat, path : Seq(Address)]
<1>2. \A x \in Sample : x.path \in Seq(Address)
  OBVIOUS
<1> HIDE DEF Sample
<1>3. input.samples \in Seq(Sample)
  BY <1>1 DEF Sample
<1> QED BY <1>1, <1>2, <1>3

LEMMA DInvInit == DynamicInit => DInv
<1> SUFFICES ASSUME DynamicInit PROVE DInv
  OBVIOUS
<1>1. input \in Inputs /\ phase = "samples" /\ row = 1 /\ visited = {} /\ added = {} /\ Init
  BY DEF DynamicInit
<1>2. callees = [s \in Sites |-> {}]
  BY DEF DynamicInit
<1>3. \A s \in Plain : callees[s] = {} /\ s \in Sites
  BY <1>2 DEF Plain
<1>4. row \in 1..(Len(input.samples) + 1)
  BY <1>1, InputIs
<1> DEFINE g == [callees |-> callees, added |-> added, visited |-> visited]
<1>5. g.callees = callees /\ g.added = {} /\ g.visited = {}
  BY <1>1
<1> HIDE DEF g
<1>6. Found(g)
  BY <1>2, <1>3, <1>5 DEF Found
<1>7. \A s \in Plain : callees[s] \ Libs =
          UNION {Followers(input.samples[i].path, s) : i \in 1..(row - 1)}
  BY <1>1, <1>3
<1> QED BY <1>1, <1>4, <1>6, <1>7 DEF DInv, Reading, g

LEMMA ReadSampleInv == DInv /\ ReadSample => DInv'
<1> SUFFICES ASSUME DInv, ReadSample PROVE DInv'
  OBVIOUS
<1> DEFINE g == [callees |-> callees, added |-> added, visited |-> visited]
           p == input.samples[row].path
           path == VertexPath(row)
           seen == Selected(path, {i \in 2..Len(path) : Known(path[i])})
           h == Connected(g, Pairs(seen))
<1>1. /\ phase = "samples" /\ row <= Len(input.samples) /\ row' = row + 1
      /\ UNCHANGED <<input, phase, graphs, scanned, stack>>
  BY DEF ReadSample
<1>2. callees' = h.callees /\ added' = h.added /\ visited' = h.visited
  BY DEF ReadSample
<1>3. Reading /\ input \in Inputs
  BY <1>1 DEF DInv
<1>4. row \in 1..Len(input.samples) /\ Len(input.samples) \in Nat /\ p \in Seq(Address)
  BY <1>1, <1>3, InputIs DEF Reading
<1>5. seen = Selected(Preserved(p), {i \in 2..Len(Preserved(p)) : Known(Preserved(p)[i])})
  BY DEF VertexPath
<1> HIDE DEF seen
<1>6. /\ Len(seen) \in Nat /\ DOMAIN seen = 1..Len(seen)
      /\ \A n \in 1..Len(seen) : seen[n] \in Address /\ Known(seen[n])
      /\ \A s \in Plain : After(seen, Len(seen) - 1, s) = Followers(p, s)
  <2> HIDE DEF p
  <2> QED BY <1>4, <1>5, SeenIs
<1>7. Found(g) /\ g.callees = callees
  BY <1>3 DEF Reading
<1> HIDE DEF g
<1>8. /\ Found(h)
      /\ \A s \in Plain : h.callees[s] \ Libs = (g.callees[s] \ Libs) \cup After(seen, Len(seen) - 1, s)
  <2>1. input.debug \in BOOLEAN
    BY <1>3, InputIs
  <2> HIDE DEF h
  <2>2. h = Connected(g, Pairs(seen))
    BY DEF h
  <2> QED BY <1>6, <1>7, <2>1, <2>2, ConnectPairsIs
<1> HIDE DEF h
<1> DEFINE k == [callees |-> callees', added |-> added', visited |-> visited']
<1>9. Found(k)
  <2>1. k.callees = h.callees /\ k.added = h.added /\ k.visited = h.visited
    BY <1>2
  <2> HIDE DEF k
  <2> QED BY <1>8, <2>1 DEF Found
<1>10. Found([callees |-> callees, added |-> added, visited |-> visited])'
  BY <1>1, <1>9 DEF Found
<1>11. ASSUME NEW s \in Plain
       PROVE  callees'[s] \ Libs = UNION {Followers(input.samples[i].path, s) : i \in 1..row}
  <2>1. callees'[s] \ Libs = (callees[s] \ Libs) \cup Followers(p, s)
    BY <1>2, <1>6, <1>7, <1>8
  <2>2. callees[s] \ Libs = UNION {Followers(input.samples[i].path, s) : i \in 1..(row - 1)}
    BY <1>3 DEF Reading
  <2>3. 1..row = 1..(row - 1) \cup {row}
    BY <1>4
  <2> QED BY <2>1, <2>2, <2>3
<1>12. Init'
  <2>1. callees' \in [Sites -> SUBSET Functions]
    BY <1>2, <1>8 DEF Found
  <2> QED BY <1>1, <1>3, <2>1 DEF Reading, Init, InitGraphs, graphs
<1>13. row' \in 1..(Len(input'.samples) + 1) /\ row' - 1 = row
  BY <1>1, <1>4
<1>14. Reading'
  BY <1>1, <1>10, <1>11, <1>12, <1>13 DEF Reading
<1> QED BY <1>1, <1>3, <1>14 DEF DInv

\* When all was read, what was found is what the paths say.
LEMMA StartConnectingInv == DInv /\ StartConnecting => DInv'
<1> SUFFICES ASSUME DInv, StartConnecting PROVE DInv'
  OBVIOUS
<1>1. /\ phase = "samples" /\ row > Len(input.samples) /\ phase' = "connect"
      /\ input' = input /\ callees' = callees /\ UNCHANGED vars
  BY DEF StartConnecting, vars
<1>2. Reading /\ input \in Inputs
  BY <1>1 DEF DInv
<1>3. Len(input.samples) \in Nat /\ DOMAIN input.samples = 1..Len(input.samples)
  BY <1>2, InputIs
<1>4. row - 1 = Len(input.samples)
  BY <1>1, <1>2, <1>3 DEF Reading
<1>5. \A s \in Plain : ~input.debug => callees[s] \cap Libs = {}
  BY <1>2 DEF Reading, Found
<1>6. \A s \in Plain : callees[s] \ Libs =
          UNION {Followers(input.samples[i].path, s) : i \in DOMAIN input.samples}
  BY <1>2, <1>3, <1>4 DEF Reading
<1>7. CalleesWereSampled'
  BY <1>1, <1>5, <1>6 DEF CalleesWereSampled
<1>8. (IInv /\ Entered /\ (NoMain => Progress))'
  <2>1. IInv /\ Entered /\ Progress
    BY <1>2, InitInv, EnteredInit, ProgressInit DEF Reading
  <2>2. [Next]_vars
    BY <1>1
  <2> QED BY <2>1, <2>2, NextInv, EnteredNext, ProgressNext
<1> QED BY <1>1, <1>2, <1>7, <1>8 DEF DInv, Walking

LEMMA ConnectingInv == DInv /\ Connecting => DInv'
<1> SUFFICES ASSUME DInv, Connecting PROVE DInv'
  OBVIOUS
<1>1. phase = "connect" /\ Connect /\ phase' = phase /\ input' = input
  BY DEF Connecting, dynamic
<1>2. Walking /\ input \in Inputs
  BY <1>1 DEF DInv
<1>3. [Next]_vars /\ callees' = callees
  BY <1>1 DEF Next, Connect, Skip, Visit, CallKnown, CallNew, AppendCallee, Link, AllConnected, Return
<1>4. IInv' /\ Entered' /\ (NoMain => Progress)'
  BY <1>2, <1>3, NextInv, EnteredNext, ProgressNext DEF Walking
<1>5. CalleesWereSampled'
  BY <1>1, <1>2, <1>3 DEF Walking, CalleesWereSampled
<1> QED BY <1>1, <1>2, <1>4, <1>5 DEF DInv, Walking

LEMMA DynamicInvariant == DynamicSpec => []DInv
<1>1. ASSUME DInv, UNCHANGED <<vars, dynamic>> PROVE DInv'
  <2>1. CASE phase = "samples"
    <3>1. Reading
      BY <1>1, <2>1 DEF DInv
    <3>2. Reading'
      BY <1>1, <3>1 DEF Reading, Init, InitGraphs, Found, vars, graphs, dynamic
    <3> QED BY <1>1, <2>1, <3>2 DEF DInv, dynamic
  <2>2. CASE phase # "samples"
    <3>1. Walking /\ phase = "connect" /\ [Next]_vars
      BY <1>1, <2>2 DEF DInv
    <3>2. IInv' /\ Entered' /\ (NoMain => Progress)'
      BY <3>1, NextInv, EnteredNext, ProgressNext DEF Walking
    <3>3. CalleesWereSampled'
      BY <1>1, <3>1 DEF Walking, CalleesWereSampled, vars, dynamic
    <3> QED BY <1>1, <3>1, <3>2, <3>3 DEF DInv, Walking, dynamic
  <2> QED BY <2>1, <2>2
<1>2. DInv /\ [DynamicNext]_<<vars, dynamic>> => DInv'
  BY <1>1, ReadSampleInv, StartConnectingInv, ConnectingInv DEF DynamicNext
<1> QED BY DInvInit, <1>2, PTL DEF DynamicSpec

\* While the samples are read and while the graphs are walked over, for any call paths:
\* the graphs are trees of calls and no traversal is entered again (159-299, 378-433).
THEOREM GraphsStay == DynamicSpec => [](TypeOK /\ TreeShaped /\ EdgesAreCalls /\ NoReentry)
<1>1. DInv => TypeOK /\ TreeShaped /\ EdgesAreCalls /\ NoReentry
  <2> SUFFICES ASSUME DInv PROVE TypeOK /\ TreeShaped /\ EdgesAreCalls /\ NoReentry
    OBVIOUS
  <2>1. IInv /\ Entered
    BY InitInv, EnteredInit DEF DInv, Reading, Walking
  <2> QED BY <2>1, Types DEF IInv, Entered
<1> QED BY DynamicInvariant, <1>1, PTL

\* The callees of a call are exactly the functions that follow it on a call path of some
\* sample, the outermost address aside, whatever the order of the samples and addresses,
\* and whatever was found already; functions of shared objects apart (159-299).
THEOREM OnlySampledCallees == DynamicSpec => []CalleesWereSampled
<1>1. DInv => CalleesWereSampled
  BY DEF DInv, Walking, CalleesWereSampled
<1> QED BY DynamicInvariant, <1>1, PTL

\* For any program and any call paths: when the traversals have ended and nobody calls main,
\* no calling context is missing or there twice (159-299, 389-430).
THEOREM ContextsExpanded == DynamicSpec => []EveryContextExpanded
<1>1. DInv => EveryContextExpanded
  BY AllExpanded DEF DInv, Walking, EveryContextExpanded
<1> QED BY DynamicInvariant, <1>1, PTL
===============================================================================
