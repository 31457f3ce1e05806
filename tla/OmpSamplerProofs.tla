--------------------------- MODULE OmpSamplerProofs --------------------------
(***************************************************************************)
(* Counters run with the program, samples of workers have their edge, time *)
(* is embedded where it was spent, and the copies of a region share it:    *)
(* for any threads, calls of GOMP_parallel and nesting of regions, and for *)
(* any number of cores.                                                    *)
(***************************************************************************)
EXTENDS OmpGraph, SumTheorems, SequenceTheorems, TLAPS

Entry  == [region : Nat, in : {"team", "function"}]
Region == [site : Sites, path : Seq({"call"} \X (Sites \cup {Serial})), caller : Threads,
           team : SUBSET Threads, through : SUBSET Threads]

\* Every variable that the counters depend on keeps its type.
TypeInv == /\ regions \in Seq(Region)
           /\ stack \in [Threads -> Seq(Entry)]
           /\ counter \in [Threads -> {"none", "armed", "running", "failed"}]
           /\ ended \in BOOLEAN

\* A thread is in the function of every region on its stack but, maybe, the last; a worker
\* was taken into the first of them, and called the others from it.
EntryOK(t, i) ==
    LET e == stack[t][i]
    IN  /\ e.region \in 1..Len(regions) /\ t \in regions[e.region].team
        /\ i < Len(stack[t]) => e.in = "function"
        /\ e.in = "function" => t \notin regions[e.region].through
        /\ \A j \in 1..(i - 1) : stack[t][j].region < e.region
        /\ IF i = 1 /\ t # Main THEN regions[e.region].caller # t /\ e.in = "function"
           ELSE regions[e.region].caller = t
StacksNest == \A t \in Threads : \A i \in 1..Len(stack[t]) : EntryOK(t, i)

\* Whoever called a region is in it until the whole team is through.
Complete(k) == regions[k].through = regions[k].team
CallersWait ==
    \A k \in 1..Len(regions) :
        Complete(k) \/ \E i \in 1..Len(stack[regions[k].caller]) :
                           stack[regions[k].caller][i].region = k

\* The main thread is nobody's worker.
MainCalls == \A k \in 1..Len(regions) : Main \in regions[k].team => regions[k].caller = Main

\* The program ends when the main thread is back in the serial part: then every region is
\* complete.
EndsQuiet == ended => stack[Main] = <<>> /\ \A k \in 1..Len(regions) : Complete(k)

IInv == TypeInv /\ StacksNest /\ CallersWait /\ MainCalls /\ EndsQuiet /\ CountsTheProgram
-----------------------------------------------------------------------------
(* Stacks                                                                    *)

\* The end of a sequence, and the rest of it.
LEMMA LastIs ==
    ASSUME NEW S, NEW s \in Seq(S), s # <<>>
    PROVE  /\ Len(s) \in Nat \ {0} /\ Last(s) = s[Len(s)]
           /\ Front(s) \in Seq(S) /\ Len(Front(s)) = Len(s) - 1
           /\ \A i \in 1..(Len(s) - 1) : Front(s)[i] = s[i]
<1>1. Len(s) \in Nat /\ Len(s) # 0
  BY EmptySeq, LenProperties
<1>2. \A i \in 1..(Len(s) - 1) : s[i] \in S
  BY <1>1, ElementOfSeq
<1>3. PICK n \in Nat : n = Len(s) - 1
  BY <1>1
<1>4. /\ SubSeq(s, 1, n) \in Seq(S)
      /\ Len(SubSeq(s, 1, n)) = IF 1 <= n THEN n - 1 + 1 ELSE 0
      /\ \A i \in 1..(n - 1 + 1) : SubSeq(s, 1, n)[i] = s[1 + i - 1]
  BY <1>2, <1>3, SubSeqProperties
<1>5. Front(s) = SubSeq(s, 1, n)
  BY <1>3 DEF Front
<1>6. Len(Front(s)) = n
  BY <1>4, <1>5
<1>7. \A i \in 1..n : i \in 1..(n - 1 + 1) /\ 1 + i - 1 = i
  OBVIOUS
<1> QED
  BY <1>1, <1>3, <1>4, <1>5, <1>6, <1>7 DEF Last

\* A sequence with one more element.
LEMMA PushIs ==
    ASSUME NEW S, NEW s \in Seq(S), NEW e \in S
    PROVE  /\ Append(s, e) \in Seq(S) /\ Len(Append(s, e)) = Len(s) + 1
           /\ Append(s, e)[Len(s) + 1] = e
           /\ \A i \in 1..Len(s) : Append(s, e)[i] = s[i]
  BY AppendProperties

\* A sequence with another last element.
LEMMA ReplaceIs ==
    ASSUME NEW S, NEW s \in Seq(S), s # <<>>, NEW e \in S
    PROVE  /\ Append(Front(s), e) \in Seq(S) /\ Len(Append(Front(s), e)) = Len(s)
           /\ Append(Front(s), e)[Len(s)] = e
           /\ \A i \in 1..(Len(s) - 1) : Append(Front(s), e)[i] = s[i]
<1>1. /\ Len(s) \in Nat \ {0} /\ Front(s) \in Seq(S) /\ Len(Front(s)) = Len(s) - 1
      /\ \A i \in 1..(Len(s) - 1) : Front(s)[i] = s[i]
  BY LastIs
<1>2. /\ Append(Front(s), e) \in Seq(S) /\ Len(Append(Front(s), e)) = Len(Front(s)) + 1
      /\ Append(Front(s), e)[Len(Front(s)) + 1] = e
      /\ \A i \in 1..Len(Front(s)) : Append(Front(s), e)[i] = Front(s)[i]
  BY <1>1, PushIs
<1> QED
  BY <1>1, <1>2

\* The innermost region of a thread.
LEMMA TopIs ==
    ASSUME TypeInv, NEW t \in Threads
    PROVE  /\ stack[t] \in Seq(Entry) /\ Len(stack[t]) \in Nat
           /\ stack[t] = <<>> <=> Len(stack[t]) = 0
           /\ stack[t] # <<>> => /\ Top(t) = stack[t][Len(stack[t])] /\ Top(t) \in Entry
                                 /\ Len(stack[t]) \in Nat \ {0}
<1>1. stack[t] \in Seq(Entry) /\ Len(stack[t]) \in Nat
  BY LenProperties DEF TypeInv
<1>2. stack[t] = <<>> <=> Len(stack[t]) = 0
  BY <1>1, EmptySeq
<1>3. stack[t] # <<>> => Top(t) = stack[t][Len(stack[t])]
  BY <1>1, LastIs DEF Top
<1> QED
  BY <1>1, <1>2, <1>3, ElementOfSeq

\* A call path starts with the call of main, or behind the function that a worker runs.
LEMMA PathType ==
    ASSUME TypeInv, StacksNest, OmpAssumption, NEW t \in Threads, t # Main => stack[t] # <<>>
    PROVE  Path(t) \in Seq({"call"} \X (Sites \cup {Serial}))
<1> DEFINE C == {"call"} \X (Sites \cup {Serial})
           at == [i \in DOMAIN stack[t] |-> <<"call", regions[stack[t][i].region].site>>]
<1>1. Len(stack[t]) \in Nat /\ DOMAIN stack[t] = 1..Len(stack[t]) /\ regions \in Seq(Region)
  BY TopIs, LenProperties DEF TypeInv
<1>2. \A i \in 1..Len(stack[t]) : regions[stack[t][i].region] \in Region
  BY <1>1, ElementOfSeq DEF StacksNest, EntryOK
<1>3. \A i \in 1..Len(stack[t]) : <<"call", regions[stack[t][i].region].site>> \in C
  BY <1>2 DEF Region
<1>4. at \in Seq(C) /\ Len(at) = Len(stack[t])
  BY <1>1, <1>3, IsASeq
<1>5. <<<<"call", Serial>>>> \in Seq(C)
  OBVIOUS
<1>6. CASE t = Main
  BY <1>4, <1>5, <1>6, ConcatProperties DEF Path
<1>7. CASE t # Main
  <2>1. at # <<>>
    BY <1>4, <1>7, TopIs, EmptySeq
  <2>2. Tail(at) \in Seq(C)
    BY <1>4, <2>1, HeadTailProperties
  <2> QED
    BY <1>7, <2>2 DEF Path
<1> QED
  BY <1>6, <1>7
-----------------------------------------------------------------------------
(* The steps                                                                 *)

\* What a step does to regions as far as the entries of thread u can tell.
RegionKept(u, k) ==
    /\ k \in 1..Len(regions')
    /\ regions'[k].team = regions[k].team /\ regions'[k].caller = regions[k].caller
    /\ u \in regions'[k].through <=> u \in regions[k].through
RegionsKept(u) == \A k \in 1..Len(regions) : RegionKept(u, k)

\* An entry stays right when it stays where it is, in the function if another is above it.
LEMMA EntryKept ==
    ASSUME TypeInv, StacksNest, NEW u \in Threads, NEW i \in 1..Len(stack[u]),
           RegionKept(u, stack[u][i].region),
           \A j \in 1..i : stack'[u][j] = stack[u][j],
           i < Len(stack'[u]) => stack[u][i].in = "function"
    PROVE  EntryOK(u, i)'
<1>1. EntryOK(u, i)
  BY DEF StacksNest
<1>2. i \in 1..i /\ \A j \in 1..(i - 1) : j \in 1..i
  BY TopIs
<1>3. stack'[u][i] = stack[u][i] /\ \A j \in 1..(i - 1) : stack'[u][j] = stack[u][j]
  BY <1>2
<1> QED
  BY <1>1, <1>3 DEF EntryOK, RegionKept

\* A thread whose stack a step leaves alone.
LEMMA StackKept ==
    ASSUME TypeInv, StacksNest, NEW u \in Threads, RegionsKept(u), stack'[u] = stack[u]
    PROVE  \A i \in 1..Len(stack'[u]) : EntryOK(u, i)'
<1>1. ASSUME NEW i \in 1..Len(stack[u]) PROVE EntryOK(u, i)'
  <2>1. /\ i < Len(stack[u]) => stack[u][i].in = "function"
        /\ RegionKept(u, stack[u][i].region)
    BY DEF StacksNest, EntryOK, RegionsKept
  <2> QED
    BY <2>1, EntryKept
<1> QED
  BY <1>1

\* In the function, or with an empty stack: all that is on the stack is in its function.
LEMMA InProgramIs ==
    ASSUME TypeInv, StacksNest, NEW t \in Threads, InProgram(t)
    PROVE  /\ \A i \in 1..Len(stack[t]) : stack[t][i].in = "function"
           /\ ~ended /\ (t # Main => stack[t] # <<>>)
  BY TopIs DEF StacksNest, EntryOK, InProgram, InFunction

\* A worker with a region on its stack is in the function it was taken into.
LEMMA WorkerIsIn ==
    ASSUME TypeInv, StacksNest, NEW t \in Threads, t # Main, stack[t] # <<>>
    PROVE  /\ stack[t][1].region \in 1..Len(regions) /\ ~Complete(stack[t][1].region)
           /\ regions[stack[t][1].region].caller # t
<1>1. 1 \in 1..Len(stack[t])
  BY TopIs
<1>2. EntryOK(t, 1)
  BY <1>1 DEF StacksNest
<1> QED
  BY <1>2 DEF EntryOK, Complete

\* The counter of a thread runs when the thread comes into the program, and is off when it
\* goes out of it; other threads are where they were.
LEMMA CountsKept ==
    ASSUME TypeInv, TypeInv', CountsTheProgram, NEW t \in Threads, ~ended, ~ended',
           \A u \in Threads : u # t => stack'[u] = stack[u] /\ counter'[u] = counter[u],
           counter'[t] = IF InProgram(t)' THEN "running" ELSE "none"
    PROVE  CountsTheProgram'
<1>1. ASSUME NEW u \in Threads, u # t PROVE InProgram(u)' <=> InProgram(u)
  BY <1>1 DEF InProgram, InFunction, Top
<1> QED
  BY <1>1 DEF CountsTheProgram

\* The region that a call of GOMP_parallel starts.
LEMMA ForkIs ==
    ASSUME OmpAssumption, IInv, NEW t \in Threads, NEW s \in Sites, Fork(t, s)
    PROVE  \E r \in Region : /\ regions' = Append(regions, r)
                             /\ r.site = s /\ r.path = Append(Path(t), <<"call", s>>)
                             /\ r.caller = t /\ t \in r.team /\ r.through = {}
                             /\ \A u \in r.team : u = t \/ ~Busy(u)
<1>1. PICK workers \in SUBSET {w \in Threads \ {t} : ~Busy(w)} :
          regions' = Append(regions, [site |-> s, path |-> Append(Path(t), <<"call", s>>),
                                      caller |-> t, team |-> workers \cup {t}, through |-> {}])
  BY DEF Fork
<1>2. Path(t) \in Seq({"call"} \X (Sites \cup {Serial}))
  BY InProgramIs, PathType DEF Fork, IInv
<1>3. Append(Path(t), <<"call", s>>) \in Seq({"call"} \X (Sites \cup {Serial}))
  BY <1>2, AppendProperties
<1> DEFINE r == [site |-> s, path |-> Append(Path(t), <<"call", s>>), caller |-> t,
                 team |-> workers \cup {t}, through |-> {}]
<1>4. r \in Region
  BY <1>3 DEF Region
<1> QED
  BY <1>1, <1>4

\* A call of GOMP_parallel: the caller waits, what it takes along was idle, and no region
\* that is complete is opened again.
LEMMA ForkStep ==
    ASSUME OmpAssumption, IInv, NEW t \in Threads, NEW s \in Sites, Fork(t, s)
    PROVE  IInv'
<1>1. PICK new \in Nat, top \in Nat : new = Len(regions) + 1 /\ top = Len(stack[t]) + 1
  <2>1. Len(regions) \in Nat /\ Len(stack[t]) \in Nat
    BY TopIs, LenProperties DEF IInv, TypeInv
  <2> QED
    BY <2>1
<1>2. PICK r \in Region : /\ regions' = Append(regions, r)
                          /\ r.caller = t /\ t \in r.team /\ r.through = {}
                          /\ \A u \in r.team : u = t \/ ~Busy(u)
  BY ForkIs
<1>3. /\ InProgram(t) /\ ~ended /\ (t # Main => stack[t] # <<>>)
      /\ \A i \in 1..Len(stack[t]) : stack[t][i].in = "function"
  BY InProgramIs DEF Fork, IInv
<1>4. /\ Len(regions) \in Nat /\ regions' \in Seq(Region) /\ Len(regions') = new
      /\ regions'[new] = r /\ \A k \in 1..Len(regions) : regions'[k] = regions[k]
  BY <1>1, <1>2, PushIs, LenProperties DEF IInv, TypeInv
<1>5. /\ stack'[t] \in Seq(Entry) /\ Len(stack'[t]) = top /\ Len(stack[t]) \in Nat
      /\ stack'[t][top].region = new /\ stack'[t][top].in = "team"
      /\ \A i \in 1..Len(stack[t]) : stack'[t][i] = stack[t][i]
  <2>1. [region |-> new, in |-> "team"] \in Entry
    BY <1>4 DEF Entry
  <2>2. stack'[t] = Append(stack[t], [region |-> new, in |-> "team"])
    BY <1>1 DEF Fork, IInv, TypeInv
  <2> QED
    BY <1>1, <2>1, <2>2, PushIs, TopIs DEF IInv, TypeInv
<1>6. \A u \in Threads : u # t => stack'[u] = stack[u] /\ counter'[u] = counter[u]
  BY DEF Fork, Calls, IInv, TypeInv
<1>7. ended' = ended
  BY DEF Fork
<1>8. \A u \in Threads : RegionsKept(u)
  BY <1>1, <1>4 DEF RegionsKept, RegionKept
<1>9. TypeInv'
  <2>1. stack' \in [Threads -> Seq(Entry)]
    BY <1>5, <1>6 DEF Fork, IInv, TypeInv
  <2>2. counter' \in [Threads -> {"none", "armed", "running", "failed"}]
    BY DEF Fork, Calls, Papi, IInv, TypeInv
  <2> QED
    BY <1>4, <1>7, <2>1, <2>2 DEF IInv, TypeInv
<1>10. StacksNest'
  <2>1. ASSUME NEW i \in 1..Len(stack[t]) PROVE EntryOK(t, i)'
    <3>1. \A j \in 1..i : stack'[t][j] = stack[t][j]
      BY <1>5
    <3>2. RegionKept(t, stack[t][i].region)
      BY <1>8 DEF RegionsKept, IInv, StacksNest, EntryOK
    <3> QED
      BY <1>3, <3>1, <3>2, EntryKept DEF IInv
  <2>2. EntryOK(t, top)'
    <3>1. ASSUME NEW j \in 1..(top - 1) PROVE stack'[t][j].region < new
      <4>1. EntryOK(t, j) /\ stack'[t][j] = stack[t][j]
        BY <1>1, <1>5 DEF IInv, StacksNest
      <4> QED
        BY <1>1, <1>4, <4>1 DEF EntryOK
    <3>2. top = 1 => t = Main
      BY <1>1, <1>3, <1>5, TopIs DEF IInv
    <3>3. new \in 1..Len(regions') /\ t \in regions'[new].team /\ regions'[new].caller = t
      BY <1>1, <1>2, <1>4
    <3> QED
      BY <1>1, <1>5, <3>1, <3>2, <3>3 DEF EntryOK
  <2>3. \A i \in 1..Len(stack'[t]) : i \in 1..Len(stack[t]) \/ i = top
    BY <1>1, <1>5
  <2>4. ASSUME NEW u \in Threads, u # t PROVE \A i \in 1..Len(stack'[u]) : EntryOK(u, i)'
    BY <1>6, <1>8, <2>4, StackKept DEF IInv
  <2>5. ASSUME NEW i \in 1..Len(stack'[t]) PROVE EntryOK(t, i)'
    BY <2>1, <2>2, <2>3
  <2> QED
    BY <2>4, <2>5 DEF StacksNest
<1>11. CallersWait'
  <2>1. ASSUME NEW k \in 1..Len(regions), ~Complete(k)'
        PROVE  \E i \in 1..Len(stack'[regions'[k].caller]) :
                   stack'[regions'[k].caller][i].region = k
    <3>1. regions'[k] = regions[k] /\ ~Complete(k)
      BY <1>4, <2>1 DEF Complete
    <3>2. PICK i \in 1..Len(stack[regions[k].caller]) : stack[regions[k].caller][i].region = k
      BY <3>1 DEF IInv, CallersWait
    <3>3. regions[k].caller \in Threads
      <4>1. regions[k] \in Region
        BY ElementOfSeq DEF IInv, TypeInv
      <4> QED
        BY <4>1 DEF Region
    <3>4. /\ i \in 1..Len(stack'[regions[k].caller])
          /\ stack'[regions[k].caller][i] = stack[regions[k].caller][i]
      <4>1. CASE regions[k].caller = t
        BY <1>1, <1>5, <3>2, <4>1
      <4>2. CASE regions[k].caller # t
        BY <1>6, <3>2, <3>3, <4>2
      <4> QED
        BY <4>1, <4>2
    <3> QED
      BY <3>1, <3>2, <3>4
  <2>2. /\ top \in 1..Len(stack'[regions'[new].caller])
        /\ stack'[regions'[new].caller][top].region = new
    BY <1>1, <1>2, <1>4, <1>5
  <2>3. \A k \in 1..Len(regions') : k \in 1..Len(regions) \/ k = new
    BY <1>1, <1>4
  <2> QED
    BY <2>1, <2>2, <2>3 DEF CallersWait
<1>12. MainCalls'
  <2>1. Main \in r.team => r.caller = Main
    BY <1>2 DEF Busy
  <2>2. \A k \in 1..Len(regions') : k \in 1..Len(regions) \/ k = new
    BY <1>1, <1>4
  <2> QED
    BY <1>4, <2>1, <2>2 DEF IInv, MainCalls
<1>13. EndsQuiet'
  BY <1>3, <1>7 DEF EndsQuiet
<1>14. CountsTheProgram'
  <2>1. ~InProgram(t)'
    <3>1. stack'[t] # <<>> /\ Top(t)' = stack'[t][top]
      <4>1. stack'[t] # <<>>
        BY <1>1, <1>5, EmptySeq
      <4> QED
        BY <1>5, <4>1, LastIs DEF Top
    <3> QED
      BY <1>5, <3>1 DEF InProgram, InFunction
  <2>2. counter'[t] = "none"
    BY <1>3 DEF Fork, Calls, Papi, IInv, TypeInv, CountsTheProgram
  <2> QED
    BY <1>3, <1>6, <1>7, <1>9, <2>1, <2>2, CountsKept DEF IInv
<1> QED
  BY <1>9, <1>10, <1>11, <1>12, <1>13, <1>14 DEF IInv

\* Thread t starts fn of region k: the caller in the place of its call, a worker with an
\* empty stack.
LEMMA EnterStep ==
    ASSUME OmpAssumption, IInv, NEW t \in Threads, NEW k \in Nat, Enter(t, k)
    PROVE  IInv'
<1>1. /\ k \in 1..Len(regions) /\ t \in regions[k].team /\ t \notin regions[k].through
      /\ IF t = regions[k].caller THEN Top(t) = [region |-> k, in |-> "team"] ELSE stack[t] = <<>>
  BY LenProperties DEF Enter, Called, IInv, TypeInv
<1>2. \A u \in Threads : u # t => stack'[u] = stack[u] /\ counter'[u] = counter[u]
  BY DEF Enter, Calls, IInv, TypeInv
<1>3. UNCHANGED <<regions, ended>> /\ \A u \in Threads : RegionsKept(u)
  BY LenProperties DEF Enter, RegionsKept, RegionKept, IInv, TypeInv
<1>4. ~ended
  BY <1>1 DEF IInv, EndsQuiet, Complete
<1>5. t = regions[k].caller =>
          /\ stack[t] # <<>> /\ stack[t][Len(stack[t])] = [region |-> k, in |-> "team"]
          /\ Len(stack[t]) \in Nat \ {0}
  <2>1. ASSUME t = regions[k].caller PROVE stack[t] # <<>>
    <3>1. \E i \in 1..Len(stack[t]) : stack[t][i].region = k
      BY <1>1, <2>1 DEF IInv, CallersWait, Complete
    <3> QED
      BY <3>1, TopIs DEF IInv
  <2> QED
    BY <1>1, <2>1, TopIs DEF IInv
<1>6. PICK top \in Nat \ {0} : top = IF t = regions[k].caller THEN Len(stack[t]) ELSE 1
  BY <1>5
<1>7. /\ stack'[t] \in Seq(Entry) /\ Len(stack'[t]) = top
      /\ stack'[t][top] = [region |-> k, in |-> "function"]
      /\ \A i \in 1..(top - 1) : stack'[t][i] = stack[t][i] /\ i \in 1..Len(stack[t])
  <2>1. [region |-> k, in |-> "function"] \in Entry
    BY DEF Entry
  <2>2. CASE t = regions[k].caller
    <3>1. stack'[t] = Append(Front(stack[t]), [region |-> k, in |-> "function"])
      BY <2>2 DEF Enter, IInv, TypeInv
    <3> QED
      BY <1>5, <1>6, <2>1, <2>2, <3>1, ReplaceIs, TopIs, SMTT(20) DEF IInv
  <2>3. CASE t # regions[k].caller
    <3>1. stack'[t] = Append(stack[t], [region |-> k, in |-> "function"]) /\ Len(stack[t]) = 0
      BY <1>1, <2>3, TopIs DEF Enter, IInv, TypeInv
    <3> QED
      BY <1>6, <2>1, <2>3, <3>1, PushIs, TopIs DEF IInv
  <2> QED
    BY <2>2, <2>3
<1>8. TypeInv'
  <2>1. stack' \in [Threads -> Seq(Entry)]
    BY <1>2, <1>7 DEF Enter, IInv, TypeInv
  <2>2. counter' \in [Threads -> {"none", "armed", "running", "failed"}]
    BY DEF Enter, Calls, Papi, IInv, TypeInv
  <2> QED
    BY <1>3, <2>1, <2>2 DEF IInv, TypeInv
<1>9. StacksNest'
  <2>1. ASSUME NEW i \in 1..(top - 1) PROVE EntryOK(t, i)'
    <3>1. i \in 1..Len(stack[t]) /\ i < Len(stack[t])
      BY <1>6, <1>7
    <3>2. stack[t][i].in = "function" /\ \A j \in 1..i : stack'[t][j] = stack[t][j]
      BY <1>7, <3>1 DEF IInv, StacksNest, EntryOK
    <3>3. RegionKept(t, stack[t][i].region)
      BY <1>3, <3>1 DEF RegionsKept, IInv, StacksNest, EntryOK
    <3> QED
      BY <3>1, <3>2, <3>3, EntryKept DEF IInv
  <2>2. EntryOK(t, top)'
    <3>1. CASE t = regions[k].caller
      <4>1. EntryOK(t, top) /\ stack[t][top] = [region |-> k, in |-> "team"]
        BY <1>5, <1>6, <3>1 DEF IInv, StacksNest
      <4>2. \A j \in 1..(top - 1) : stack'[t][j].region < k
        BY <1>7, <4>1 DEF EntryOK
      <4>3. ~(top = 1 /\ t # Main)
        BY <4>1 DEF EntryOK
      <4> QED
        BY <1>1, <1>3, <1>7, <3>1, <4>2, <4>3 DEF EntryOK
    <3>2. CASE t # regions[k].caller
      <4>1. t # Main /\ top = 1
        BY <1>1, <1>6, <3>2 DEF IInv, MainCalls
      <4> QED
        BY <1>1, <1>3, <1>7, <3>2, <4>1 DEF EntryOK
    <3> QED
      BY <3>1, <3>2
  <2>3. ASSUME NEW i \in 1..Len(stack'[t]) PROVE EntryOK(t, i)'
    <3>1. i \in 1..(top - 1) \/ i = top
      BY <1>7
    <3> QED
      BY <2>1, <2>2, <3>1
  <2>4. ASSUME NEW u \in Threads, u # t PROVE \A i \in 1..Len(stack'[u]) : EntryOK(u, i)'
    BY <1>2, <1>3, <2>4, StackKept DEF IInv
  <2> QED
    BY <2>3, <2>4 DEF StacksNest
<1>10. CallersWait'
  <2>1. ASSUME NEW l \in 1..Len(regions), ~Complete(l),
               NEW i \in 1..Len(stack[regions[l].caller]), stack[regions[l].caller][i].region = l
        PROVE  \E j \in 1..Len(stack'[regions[l].caller]) : stack'[regions[l].caller][j].region = l
    <3>1. regions[l] \in Region
      BY ElementOfSeq DEF IInv, TypeInv
    <3>2. CASE regions[l].caller # t
      BY <1>2, <2>1, <3>1, <3>2 DEF Region
    <3>3. CASE regions[l].caller = t
      <4>1. CASE t = regions[k].caller
        <5>1. i \in 1..top /\ Len(stack'[t]) = top
          BY <1>6, <1>7, <3>3, <4>1
        <5>2. stack'[t][i].region = l
          <6>1. CASE i = top
            BY <1>5, <1>6, <1>7, <2>1, <3>3, <4>1, <6>1
          <6>2. CASE i # top
            BY <1>7, <2>1, <3>3, <5>1, <6>2, SMTT(60)
          <6> QED
            BY <6>1, <6>2
        <5> QED
          BY <3>3, <5>1, <5>2
      <4>2. CASE t # regions[k].caller
        BY <1>1, <3>3, <4>2, TopIs DEF IInv
      <4> QED
        BY <4>1, <4>2
    <3> QED
      BY <3>2, <3>3
  <2> QED
    BY <1>3, <2>1 DEF IInv, CallersWait, Complete
<1>11. MainCalls' /\ EndsQuiet'
  BY <1>3, <1>4 DEF IInv, MainCalls, EndsQuiet
<1>12. CountsTheProgram'
  <2>1. ~InProgram(t)
    BY <1>1, <1>5, TopIs DEF IInv, InProgram, InFunction, MainCalls
  <2>2. InProgram(t)'
    <3>1. stack'[t] # <<>> /\ Top(t)' = stack'[t][top]
      <4>1. stack'[t] # <<>>
        BY <1>7, EmptySeq
      <4> QED
        BY <1>7, <4>1, LastIs DEF Top
    <3> QED
      BY <1>3, <1>4, <1>7, <3>1 DEF InProgram, InFunction
  <2>3. counter'[t] = "running"
    BY <1>4, <2>1 DEF Enter, Calls, Papi, IInv, TypeInv, CountsTheProgram
  <2> QED
    BY <1>2, <1>3, <1>4, <1>8, <2>2, <2>3, CountsKept DEF IInv
<1> QED
  BY <1>8, <1>9, <1>10, <1>11, <1>12 DEF IInv

\* Thread t is through with region k: its caller waits in the call, a worker is idle again.
LEMMA LeaveStep ==
    ASSUME OmpAssumption, IInv, NEW t \in Threads, Leave(t)
    PROVE  IInv'
<1>1. PICK top \in Nat \ {0}, k \in 1..Len(regions) :
          /\ top = Len(stack[t]) /\ stack[t][top] = [region |-> k, in |-> "function"]
          /\ EntryOK(t, top) /\ k = Top(t).region /\ InProgram(t) /\ ~ended
          /\ t \in regions[k].team /\ t \notin regions[k].through
  <2>1. /\ Len(stack[t]) \in Nat \ {0} /\ Top(t) = stack[t][Len(stack[t])]
        /\ Top(t) \in Entry /\ Top(t).in = "function"
    BY TopIs DEF Leave, InFunction, IInv
  <2>2. EntryOK(t, Len(stack[t]))
    BY <2>1 DEF IInv, StacksNest
  <2>3. /\ Top(t).region \in 1..Len(regions) /\ t \in regions[Top(t).region].team
        /\ t \notin regions[Top(t).region].through
    BY <2>1, <2>2 DEF EntryOK
  <2>4. ~ended
    BY <2>3 DEF IInv, EndsQuiet, Complete
  <2>5. InProgram(t)
    BY <2>4 DEF InProgram, Leave
  <2>6. Top(t) = [region |-> Top(t).region, in |-> "function"]
    BY <2>1 DEF Entry
  <2> QED
    BY <2>1, <2>2, <2>3, <2>4, <2>5, <2>6
<1>2. /\ IF top = 1 /\ t # Main THEN regions[k].caller # t ELSE regions[k].caller = t
      /\ \A j \in 1..(top - 1) : stack[t][j].region < k
  BY <1>1 DEF EntryOK
<1>3. /\ regions' = [regions EXCEPT ![k].through = @ \cup {t}] /\ ended' = ended
      /\ \A u \in Threads : u # t => stack'[u] = stack[u] /\ counter'[u] = counter[u]
  BY <1>1 DEF Leave, Calls, IInv, TypeInv
<1>4. /\ regions' \in Seq(Region) /\ Len(regions') = Len(regions) /\ Len(regions) \in Nat
      /\ \A l \in 1..Len(regions) :
            /\ regions'[l].team = regions[l].team /\ regions'[l].caller = regions[l].caller
            /\ regions'[l].through = IF l = k THEN regions[l].through \cup {t}
                                       ELSE regions[l].through
  <2>1. regions \in [1..Len(regions) -> Region] /\ Len(regions) \in Nat
    BY LenProperties DEF IInv, TypeInv
  <2>2. \A l \in 1..Len(regions) : regions[l] \in Region
    BY <2>1
  <2>3. /\ regions' \in [1..Len(regions) -> Region]
        /\ \A l \in 1..Len(regions) :
            /\ regions'[l].team = regions[l].team /\ regions'[l].caller = regions[l].caller
            /\ regions'[l].through = IF l = k THEN regions[l].through \cup {t}
                                       ELSE regions[l].through
    BY <1>3, <2>1, <2>2, ZenonT(40) DEF Region
  <2>4. regions' \in Seq(Region) /\ Len(regions') = Len(regions)
    BY <2>1, <2>3, LenProperties, SeqDef
  <2> QED
    BY <2>1, <2>3, <2>4
<1>5. \A l \in 1..Len(regions) : \A u \in Threads : l # k \/ u # t => RegionKept(u, l)
  BY <1>4 DEF RegionKept
<1>6. ASSUME t = regions[k].caller
      PROVE  /\ stack'[t] \in Seq(Entry) /\ \A i \in 1..Len(stack'[t]) : EntryOK(t, i)'
             /\ ~InProgram(t)'
             /\ \A i \in 1..Len(stack[t]) :
                   i \in 1..Len(stack'[t]) /\ stack'[t][i].region = stack[t][i].region
  <2>1. /\ stack'[t] \in Seq(Entry) /\ Len(stack'[t]) = top
        /\ stack'[t][top] = [region |-> k, in |-> "team"]
        /\ \A i \in 1..(top - 1) : stack'[t][i] = stack[t][i]
    <3>1. [region |-> k, in |-> "team"] \in Entry
      BY <1>4 DEF Entry
    <3>2. stack'[t] = Append(Front(stack[t]), [region |-> k, in |-> "team"])
      BY <1>1, <1>6 DEF Leave, IInv, TypeInv
    <3>3. stack[t] # <<>> /\ stack[t] \in Seq(Entry)
      BY <1>1, TopIs DEF IInv
    <3> QED
      BY <1>1, <3>1, <3>2, <3>3, ReplaceIs
  <2>2. ASSUME NEW i \in 1..(top - 1) PROVE EntryOK(t, i)'
    <3>1. i \in 1..Len(stack[t]) /\ i < top /\ \A j \in 1..i : stack'[t][j] = stack[t][j]
      BY <1>1, <2>1
    <3>2. stack[t][i].in = "function" /\ stack[t][i].region \in 1..Len(regions)
      BY <1>1, <3>1 DEF IInv, StacksNest, EntryOK
    <3>3. stack[t][i].region # k
      BY <1>2, <3>1, <3>2
    <3> QED
      BY <1>5, <3>1, <3>2, <3>3, EntryKept DEF IInv
  <2>3. EntryOK(t, top)'
    <3>1. \A j \in 1..(top - 1) : stack'[t][j].region < k
      BY <1>2, <2>1
    <3>2. ~(top = 1 /\ t # Main)
      BY <1>2, <1>6
    <3>3. t \in regions'[k].team /\ regions'[k].caller = t /\ k \in 1..Len(regions')
      BY <1>1, <1>4, <1>6
    <3> QED
      BY <2>1, <3>1, <3>2, <3>3 DEF EntryOK
  <2>4. ASSUME NEW i \in 1..Len(stack'[t]) PROVE EntryOK(t, i)'
    <3>1. i \in 1..(top - 1) \/ i = top
      BY <2>1
    <3> QED
      BY <2>2, <2>3, <3>1
  <2>5. ASSUME NEW i \in 1..Len(stack[t])
        PROVE  i \in 1..Len(stack'[t]) /\ stack'[t][i].region = stack[t][i].region
    <3>1. i = top \/ i \in 1..(top - 1)
      BY <1>1
    <3> QED
      BY <1>1, <2>1, <3>1
  <2>6. ~InProgram(t)'
    <3>1. stack'[t] # <<>> /\ Top(t)' = stack'[t][top]
      <4>1. stack'[t] # <<>>
        BY <2>1, EmptySeq
      <4> QED
        BY <2>1, <4>1, LastIs DEF Top
    <3> QED
      BY <2>1, <3>1 DEF InProgram, InFunction
  <2> QED
    BY <2>1, <2>4, <2>5, <2>6
<1>7. ASSUME t # regions[k].caller
      PROVE  /\ stack'[t] \in Seq(Entry) /\ \A i \in 1..Len(stack'[t]) : EntryOK(t, i)'
             /\ ~InProgram(t)'
             /\ \A i \in 1..Len(stack[t]) : stack[t][i].region = k
  <2>1. stack'[t] \in Seq(Entry) /\ Len(stack'[t]) = 0 /\ stack'[t] = <<>>
    <3>1. stack'[t] = Front(stack[t])
      BY <1>1, <1>7 DEF Leave, IInv, TypeInv
    <3>2. stack[t] # <<>> /\ stack[t] \in Seq(Entry)
      BY <1>1, TopIs DEF IInv
    <3> QED
      BY <1>1, <1>2, <1>7, <3>1, <3>2, LastIs, EmptySeq
  <2>2. \A i \in 1..Len(stack[t]) : stack[t][i].region = k
    BY <1>1, <1>2, <1>7
  <2>3. ~InProgram(t)'
    BY <1>1, <1>2, <1>7, <2>1 DEF InProgram, InFunction
  <2> QED
    BY <2>1, <2>2, <2>3
<1>8. TypeInv'
  <2>1. stack' \in [Threads -> Seq(Entry)]
    <3>1. stack'[t] \in Seq(Entry)
      BY <1>6, <1>7
    <3> QED
      BY <1>3, <3>1 DEF Leave, IInv, TypeInv
  <2>2. counter' \in [Threads -> {"none", "armed", "running", "failed"}]
    BY DEF Leave, Calls, Papi, IInv, TypeInv
  <2> QED
    BY <1>3, <1>4, <2>1, <2>2 DEF IInv, TypeInv
<1>9. StacksNest'
  <2>1. ASSUME NEW u \in Threads, u # t PROVE \A i \in 1..Len(stack'[u]) : EntryOK(u, i)'
    BY <1>3, <1>5, <2>1, StackKept DEF RegionsKept, IInv
  <2> QED
    BY <1>6, <1>7, <2>1 DEF StacksNest
<1>10. CallersWait'
  <2>1. ASSUME NEW l \in 1..Len(regions), ~Complete(l)'
        PROVE  \E i \in 1..Len(stack'[regions[l].caller]) : stack'[regions[l].caller][i].region = l
    <3>1. ~Complete(l) /\ regions[l].caller \in Threads
      <4>1. regions[l] \in Region
        BY ElementOfSeq DEF IInv, TypeInv
      <4> QED
        BY <1>1, <1>4, <2>1, <4>1 DEF Complete, Region
    <3>2. PICK i \in 1..Len(stack[regions[l].caller]) : stack[regions[l].caller][i].region = l
      BY <3>1 DEF IInv, CallersWait
    <3>3. CASE regions[l].caller # t
      BY <1>3, <3>1, <3>2, <3>3
    <3>4. CASE regions[l].caller = t
      BY <1>6, <1>7, <3>2, <3>4
    <3> QED
      BY <3>3, <3>4
  <2> QED
    BY <1>4, <2>1, ZenonT(40) DEF CallersWait
<1>11. MainCalls' /\ EndsQuiet'
  BY <1>1, <1>3, <1>4 DEF IInv, MainCalls, EndsQuiet
<1>12. CountsTheProgram'
  <2>1. counter'[t] = "none"
    BY <1>1 DEF Leave, Calls, Papi, IInv, TypeInv, CountsTheProgram
  <2>2. ~InProgram(t)'
    BY <1>6, <1>7
  <2> QED
    BY <1>1, <1>3, <1>8, <2>1, <2>2, CountsKept DEF IInv
<1> QED
  BY <1>8, <1>9, <1>10, <1>11, <1>12 DEF IInv

\* The call of GOMP_parallel returns to the function that made it.
LEMMA JoinStep ==
    ASSUME OmpAssumption, IInv, NEW t \in Threads, Join(t)
    PROVE  IInv'
<1>1. PICK top \in Nat \ {0}, k \in 1..Len(regions) :
          /\ top = Len(stack[t]) /\ stack[t][top].region = k /\ stack[t][top].in = "team"
          /\ stack[t] # <<>> /\ Top(t).in = "team"
          /\ Complete(k) /\ (top = 1 => t = Main)
  <2>1. /\ Len(stack[t]) \in Nat \ {0} /\ Top(t) = stack[t][Len(stack[t])]
        /\ stack[t] # <<>> /\ Top(t).in = "team"
    BY TopIs DEF Join, IInv
  <2>2. EntryOK(t, Len(stack[t]))
    BY <2>1 DEF IInv, StacksNest
  <2>3. Top(t).region \in 1..Len(regions) /\ (Len(stack[t]) = 1 => t = Main)
    BY <2>1, <2>2 DEF EntryOK
  <2> QED
    BY <2>1, <2>3 DEF Join, Complete
<1>2. ~ended
  <2>1. t # Main => stack[t][1].region \in 1..Len(regions) /\ ~Complete(stack[t][1].region)
    BY <1>1, WorkerIsIn DEF IInv
  <2> QED
    BY <1>1, <2>1 DEF IInv, EndsQuiet
<1>3. /\ UNCHANGED <<regions, ended>> /\ \A u \in Threads : RegionsKept(u)
      /\ \A u \in Threads : u # t => stack'[u] = stack[u] /\ counter'[u] = counter[u]
  BY LenProperties DEF Join, Calls, RegionsKept, RegionKept, IInv, TypeInv
<1>4. /\ stack'[t] \in Seq(Entry) /\ Len(stack'[t]) = top - 1
      /\ \A i \in 1..(top - 1) : /\ stack'[t][i] = stack[t][i] /\ stack[t][i].in = "function"
                                 /\ i \in 1..Len(stack[t])
  <2>1. stack'[t] = Front(stack[t]) /\ stack[t] \in Seq(Entry)
    BY TopIs DEF Join, IInv, TypeInv
  <2>2. \A i \in 1..(top - 1) : i \in 1..Len(stack[t]) /\ i < Len(stack[t])
    BY <1>1
  <2>3. \A i \in 1..(top - 1) : stack[t][i].in = "function"
    BY <2>2 DEF IInv, StacksNest, EntryOK
  <2>4. /\ stack'[t] \in Seq(Entry) /\ Len(stack'[t]) = top - 1
        /\ \A i \in 1..(top - 1) : stack'[t][i] = stack[t][i]
    BY <1>1, <2>1, LastIs, SMTT(20)
  <2> QED
    BY <2>2, <2>3, <2>4
<1>5. TypeInv'
  <2>1. stack' \in [Threads -> Seq(Entry)]
    BY <1>3, <1>4 DEF Join, IInv, TypeInv
  <2>2. counter' \in [Threads -> {"none", "armed", "running", "failed"}]
    BY DEF Join, Calls, Papi, IInv, TypeInv
  <2> QED
    BY <1>3, <2>1, <2>2 DEF IInv, TypeInv
<1>6. StacksNest'
  <2>1. ASSUME NEW i \in 1..Len(stack'[t]) PROVE EntryOK(t, i)'
    <3>1. i \in 1..(top - 1) /\ i \in 1..Len(stack[t])
      BY <1>4
    <3>2. \A j \in 1..i : stack'[t][j] = stack[t][j]
      BY <1>4, <3>1
    <3>3. RegionKept(t, stack[t][i].region)
      BY <1>3, <3>1 DEF RegionsKept, IInv, StacksNest, EntryOK
    <3> QED
      BY <1>4, <3>1, <3>2, <3>3, EntryKept DEF IInv
  <2>2. ASSUME NEW u \in Threads, u # t PROVE \A i \in 1..Len(stack'[u]) : EntryOK(u, i)'
    BY <1>3, <2>2, StackKept DEF IInv
  <2> QED
    BY <2>1, <2>2 DEF StacksNest
<1>7. CallersWait'
  <2>1. ASSUME NEW l \in 1..Len(regions), ~Complete(l)
        PROVE  \E i \in 1..Len(stack'[regions[l].caller]) : stack'[regions[l].caller][i].region = l
    <3>1. PICK i \in 1..Len(stack[regions[l].caller]) : stack[regions[l].caller][i].region = l
      BY <2>1 DEF IInv, CallersWait
    <3>2. regions[l].caller \in Threads
      <4>1. regions[l] \in Region
        BY ElementOfSeq DEF IInv, TypeInv
      <4> QED
        BY <4>1 DEF Region
    <3>3. CASE regions[l].caller # t
      BY <1>3, <3>1, <3>2, <3>3
    <3>4. CASE regions[l].caller = t
      <4>1. i # top
        BY <1>1, <2>1, <3>1, <3>4
      <4>2. i \in 1..(top - 1)
        BY <1>1, <3>4, <4>1
      <4> QED
        BY <1>4, <3>1, <3>4, <4>2
    <3> QED
      BY <3>3, <3>4
  <2> QED
    BY <1>3, <2>1 DEF CallersWait, Complete
<1>8. MainCalls' /\ EndsQuiet'
  BY <1>2, <1>3 DEF IInv, MainCalls, EndsQuiet
<1>9. CountsTheProgram'
  <2>1. counter'[t] = "running"
    BY <1>1, <1>2 DEF Join, Calls, Papi, IInv, TypeInv, CountsTheProgram, InProgram, InFunction
  <2>2. InProgram(t)'
    <3>1. CASE top = 1
      BY <1>1, <1>2, <1>3, <1>4, <3>1, EmptySeq DEF InProgram
    <3>2. CASE top # 1
      <4>1. top - 1 \in 1..(top - 1) /\ stack'[t] # <<>>
        BY <1>4, <3>2, EmptySeq
      <4>2. Top(t)' = stack'[t][top - 1]
        BY <1>4, <4>1, LastIs DEF Top
      <4> QED
        BY <1>2, <1>3, <1>4, <4>1, <4>2 DEF InProgram, InFunction
    <3> QED
      BY <3>1, <3>2
  <2> QED
    BY <1>2, <1>3, <1>5, <2>1, <2>2, CountsKept DEF IInv
<1> QED
  BY <1>5, <1>6, <1>7, <1>8, <1>9 DEF IInv

\* What the invariant depends on.
LEMMA SameIInv == ASSUME IInv, UNCHANGED <<regions, stack, counter, ended>> PROVE IInv'
<1>1. TypeInv'
  BY DEF IInv, TypeInv
<1>2. StacksNest' /\ CallersWait' /\ MainCalls' /\ EndsQuiet'
  BY DEF IInv, StacksNest, EntryOK, CallersWait, Complete, MainCalls, EndsQuiet
<1>3. CountsTheProgram'
  BY DEF IInv, CountsTheProgram, InProgram, InFunction, Top
<1> QED
  BY <1>1, <1>2, <1>3 DEF IInv

\* A sample stops the counter and starts it again.
LEMMA SampleStep ==
    ASSUME IInv, NEW t \in Threads, NEW part, Sample(t, part)
    PROVE  IInv'
<1>1. UNCHANGED <<regions, stack, counter, ended>>
  BY DEF Sample, Calls, Papi, IInv, TypeInv
<1> QED
  BY <1>1, SameIInv

\* When the main thread is back in the serial part, every region is complete: the caller
\* of the first that is not would have been taken into an earlier one.
LEMMA SerialIsQuiet ==
    ASSUME OmpAssumption, TypeInv, StacksNest, CallersWait, stack[Main] = <<>>
    PROVE  \A k \in 1..Len(regions) : Complete(k)
<1> DEFINE Open == {k \in 1..Len(regions) : ~Complete(k)}
<1>1. SUFFICES ASSUME Open # {} PROVE FALSE
  OBVIOUS
<1>2. Open \in SUBSET Nat
  OBVIOUS
<1>3. PICK m \in Open : \A k \in Open : m <= k
  BY ONLY <1>1, <1>2, LeastNumber
<1>4. PICK c \in Threads : c = regions[m].caller
  <2>1. regions[m] \in Region
    BY ElementOfSeq DEF TypeInv
  <2> QED
    BY <2>1 DEF Region
<1>5. PICK i \in 1..Len(stack[c]) : stack[c][i].region = m
  BY <1>4 DEF CallersWait
<1>6. c # Main /\ stack[c] # <<>>
  BY <1>5, TopIs, OmpAssumption, EmptySeq
<1>7. stack[c][1].region \in Open /\ regions[stack[c][1].region].caller # c
  BY <1>6, WorkerIsIn
<1>8. i # 1
  BY <1>4, <1>5, <1>7
<1>9. stack[c][1].region < m
  <2>1. EntryOK(c, i) /\ 1 \in 1..(i - 1)
    BY <1>8, TopIs DEF StacksNest
  <2> QED
    BY <1>5, <2>1 DEF EntryOK
<1> QED
  BY <1>3, <1>7, <1>9

\* The main thread ends in the serial part, and with it everybody is out of the program.
LEMMA ExitStep == ASSUME OmpAssumption, IInv, Exit PROVE IInv'
<1>1. /\ InProgram(Main) /\ ~ended /\ ended' /\ stack[Main] = <<>>
      /\ UNCHANGED <<regions, stack>>
  BY DEF Exit, InProgram
<1>2. \A k \in 1..Len(regions) : Complete(k)
  BY <1>1, SerialIsQuiet DEF IInv
<1>3. TypeInv'
  BY <1>1 DEF Exit, Papi, IInv, TypeInv
<1>4. StacksNest' /\ CallersWait' /\ MainCalls' /\ EndsQuiet'
  BY <1>1, <1>2, SMTT(60) DEF IInv, StacksNest, EntryOK, CallersWait, Complete, MainCalls, EndsQuiet
<1>5. CountsTheProgram'
  <2>1. ASSUME NEW t \in Threads, t # Main PROVE counter'[t] = "none"
    <3>1. stack[t] = <<>>
      BY <1>2, <2>1, WorkerIsIn DEF IInv
    <3> QED
      BY <2>1, <3>1 DEF Exit, IInv, TypeInv, CountsTheProgram, InProgram, InFunction
  <2>2. counter'[Main] = "armed"
    BY <1>1, OmpAssumption DEF Exit, Papi, IInv, TypeInv, CountsTheProgram
  <2> QED
    BY <1>1, <2>1, <2>2 DEF CountsTheProgram, InProgram
<1> QED
  BY <1>3, <1>4, <1>5 DEF IInv

\* Only the main thread runs at first, and no region is there yet.
LEMMA InitIInv == ASSUME OmpAssumption, OmpInit PROVE IInv
<1>1. TypeInv
  <2>1. <<>> \in Seq(Region) /\ <<>> \in Seq(Entry)
    BY EmptySeq
  <2> QED
    BY <2>1 DEF OmpInit, TypeInv
<1>2. \A t \in Threads : Len(stack[t]) = 0
  BY EmptySeq DEF OmpInit
<1>3. Len(regions) = 0
  BY EmptySeq DEF OmpInit
<1>4. StacksNest /\ CallersWait /\ MainCalls /\ EndsQuiet
  BY <1>2, <1>3 DEF OmpInit, StacksNest, CallersWait, MainCalls, EndsQuiet
<1>5. CountsTheProgram
  BY DEF OmpInit, CountsTheProgram, InProgram, InFunction
<1> QED
  BY <1>1, <1>4, <1>5 DEF IInv

\* Every step of the sampler keeps its invariant.
LEMMA StepIInv == ASSUME OmpAssumption, IInv, [OmpNext]_sampler PROVE IInv'
<1>1. ASSUME NEW t \in Threads, NEW s \in Sites, Fork(t, s) PROVE IInv'
  BY <1>1, ForkStep
<1>2. ASSUME NEW t \in Threads, NEW k \in 1..MaxRegions, Enter(t, k) PROVE IInv'
  BY <1>2, EnterStep
<1>3. ASSUME NEW t \in Threads, NEW part, Sample(t, part) PROVE IInv'
  BY <1>3, SampleStep
<1>4. ASSUME NEW t \in Threads, Leave(t) \/ Join(t) PROVE IInv'
  BY <1>4, LeaveStep, JoinStep
<1>5. CASE Exit
  BY <1>5, ExitStep
<1>6. CASE UNCHANGED sampler
  BY <1>6, SameIInv DEF sampler
<1> QED
  BY <1>1, <1>2, <1>3, <1>4, <1>5, <1>6 DEF OmpNext

\* A step of the whole is one of the sampler, or leaves it alone.
LEMMA SamplerSteps == [OmpGraphNext]_<<sampler, analysis>> => [OmpNext]_sampler
  BY DEF OmpGraphNext

\* A thread is counted while it executes the program, inside nested regions too, and at no
\* other time; no call to PAPI finds the event set in a state it does not expect
\* (omp_sampler.cpp, 160-250, with papi/sampler.cpp).
THEOREM CountersFollowProgram == OmpSpec => []CountsTheProgram
<1> USE OmpAssumption
<1>1. OmpGraphInit => IInv
  BY InitIInv DEF OmpGraphInit
<1>2. IInv /\ [OmpGraphNext]_<<sampler, analysis>> => IInv'
  BY StepIInv, SamplerSteps
<1>3. IInv => CountsTheProgram
  BY DEF IInv
<1> QED
  BY <1>1, <1>2, <1>3, PTL DEF OmpSpec
-----------------------------------------------------------------------------
(* The edges of workers                                                      *)

Edge == [path : Seq({"call"} \X (Sites \cup {Serial})), number : Nat]

Running(t) == t # Main /\ stack[t] # <<>>

\* The numbers that workers were given.  They grow with thread_global_id, and no two
\* executions that go on have one.
Used == Cores..(thread_global_id * Cores - 1)
NumbersGrow ==
    /\ thread_global_id \in Nat \ {0}
    /\ record_thread_gid \in [Threads -> Nat] /\ record_perf_data_flag \in [Threads -> BOOLEAN]
    /\ edges \in Seq(Edge)
    /\ \A e \in ToSet(edges) : e.number \in Used
    /\ \A x \in DOMAIN samples :
          IF x.by = Main THEN x.number = MainGid
          ELSE x.by \in Threads /\ x.number \in Used /\ x.in \in 1..Len(regions)
    /\ \A t \in Threads : Running(t) => record_thread_gid[t] \in Used
    /\ \A t, u \in Threads :
          Running(t) /\ Running(u) /\ record_thread_gid[t] = record_thread_gid[u] => t = u

\* An execution that goes on has no edge, and no other has its number.
Fresh(t) ==
    /\ \A e \in ToSet(edges) : e.number # record_thread_gid[t]
    /\ \A x \in DOMAIN samples :
          x.by # Main /\ x.number = record_thread_gid[t] => x.by = t /\ x.in = stack[t][1].region

\* A sample of a worker is of an execution that goes on and knows that it was sampled, or
\* of one that has its edge.
EdgesOf(n) == {e \in ToSet(edges) : e.number = n}
Attributed(x) ==
    IF Through(x.by, x.in)
    THEN EdgesOf(x.number) = {[path |-> regions[x.in].path, number |-> x.number]}
    ELSE /\ Running(x.by) /\ record_thread_gid[x.by] = x.number
         /\ record_perf_data_flag[x.by]

SamplesAttributed ==
    /\ \A t \in Threads : Running(t) => Fresh(t)
    /\ \A x \in DOMAIN samples : x.by # Main => Attributed(x)
    /\ \A x, y \in DOMAIN samples :
          x.by # Main /\ y.by # Main /\ x.number = y.number => x.by = y.by /\ x.in = y.in

EdgeInv == NumbersGrow /\ (OnlyMainForks => SamplesAttributed)

\* The number of an execution is above all that were given before.
LEMMA TidIs ==
    ASSUME OmpAssumption, NEW g \in Nat \ {0}, NEW t \in Threads
    PROVE  /\ Tid(t, g) \in Nat /\ g * Cores \in Nat /\ (g + 1) * Cores \in Nat
           /\ Cores <= g * Cores /\ g * Cores <= Tid(t, g) /\ Tid(t, g) < (g + 1) * Cores
           /\ g * Cores < (g + 1) * Cores
<1>1. Cores \in Nat \ {0} /\ OsId[t] \in Nat
  BY DEF OmpAssumption
<1>2. OsId[t] % Cores \in 0..(Cores - 1)
  BY <1>1
<1>3. g * Cores \in Nat /\ (g + 1) * Cores = g * Cores + Cores /\ Cores <= g * Cores
  BY <1>1
<1> QED
  BY <1>1, <1>2, <1>3 DEF Tid

\* The elements of a sequence with one more.
LEMMA ToSetAppend ==
    ASSUME NEW S, NEW s \in Seq(S), NEW e \in S
    PROVE  ToSet(Append(s, e)) = ToSet(s) \cup {e}
<1>1. Len(s) \in Nat /\ DOMAIN s = 1..Len(s) /\ DOMAIN Append(s, e) = 1..(Len(s) + 1)
  BY AppendProperties, LenProperties
<1>2. /\ Append(s, e)[Len(s) + 1] = e /\ \A i \in 1..Len(s) : Append(s, e)[i] = s[i]
  BY PushIs
<1>3. \A i \in 1..(Len(s) + 1) : i \in 1..Len(s) \/ i = Len(s) + 1
  BY <1>1
<1> QED
  BY <1>1, <1>2, <1>3 DEF ToSet

\* With no other callers, a worker is in one region, that it was taken into.
LEMMA WorkerIsFlat ==
    ASSUME OmpAssumption, TypeInv, StacksNest, OnlyMainForks, NEW t \in Threads, Running(t)
    PROVE  /\ Len(stack[t]) = 1 /\ Top(t) = stack[t][1] /\ Top(t) \in Entry
           /\ Top(t).region \in 1..Len(regions) /\ Top(t).in = "function"
           /\ ~Through(t, Top(t).region) /\ regions[Top(t).region].caller # t
<1>1. Len(stack[t]) \in Nat \ {0} /\ Top(t) = stack[t][Len(stack[t])] /\ Top(t) \in Entry
  BY TopIs DEF Running
<1>2. Len(stack[t]) = 1
  <2>1. SUFFICES ASSUME Len(stack[t]) # 1 PROVE FALSE
    OBVIOUS
  <2>2. EntryOK(t, Len(stack[t]))
    BY <1>1 DEF StacksNest
  <2> QED
    BY <1>1, <2>1, <2>2, LenProperties DEF EntryOK, OnlyMainForks, Running, TypeInv
<1>3. EntryOK(t, 1)
  BY <1>1, <1>2 DEF StacksNest
<1> QED
  BY <1>1, <1>2, <1>3 DEF EntryOK, Running, Through

\* Who called a region never changes, so a worker that forked stays a caller.
LEMMA ForksStay ==
    ASSUME TypeInv, TypeInv', OnlyMainForks', Len(regions) <= Len(regions'),
           \A k \in 1..Len(regions) : regions'[k].caller = regions[k].caller
    PROVE  OnlyMainForks
<1>1. /\ Len(regions) \in Nat /\ DOMAIN regions = 1..Len(regions)
      /\ Len(regions') \in Nat /\ DOMAIN regions' = 1..Len(regions')
  BY LenProperties DEF TypeInv
<1> QED
  BY <1>1 DEF OnlyMainForks

\* A new region has nobody through, and nothing is recorded.
LEMMA ForkEdges ==
    ASSUME OmpAssumption, IInv, IInv', EdgeInv, NEW t \in Threads, NEW s \in Sites, Fork(t, s)
    PROVE  EdgeInv'
<1>1. PICK r \in Region : regions' = Append(regions, r) /\ r.caller = t
  BY ForkIs
<1>2. /\ Len(regions) \in Nat /\ Len(regions') = Len(regions) + 1
      /\ regions'[Len(regions) + 1] = r /\ \A k \in 1..Len(regions) : regions'[k] = regions[k]
      /\ DOMAIN regions' = 1..Len(regions')
  BY <1>1, PushIs, LenProperties DEF IInv, TypeInv
<1>3. UNCHANGED <<thread_global_id, record_thread_gid, record_perf_data_flag, samples, edges>>
  BY DEF Fork, locals
<1>4. \A u \in Threads : u # t => stack'[u] = stack[u]
  BY DEF Fork, IInv, TypeInv
<1>5. \A u \in Threads : Running(u)' => Running(u)
  BY <1>4, InProgramIs DEF Running, Fork, IInv
<1>6. NumbersGrow'
  BY <1>2, <1>3, <1>5 DEF EdgeInv, NumbersGrow, Used
<1>7. ASSUME OnlyMainForks' PROVE SamplesAttributed'
  <2>1. OnlyMainForks
    BY <1>2, <1>7, ForksStay DEF IInv
  <2>2. t = Main
    BY <1>1, <1>2, <1>7 DEF OnlyMainForks
  <2>3. \A u \in Threads : Running(u)' <=> Running(u)
    BY <1>4, <2>2 DEF Running
  <2>4. \A u \in Threads : Running(u) => stack'[u] = stack[u]
    BY <1>4, <2>2 DEF Running
  <2>5. \A x \in DOMAIN samples : x.by # Main => regions'[x.in] = regions[x.in] /\ x.by \in Threads
    BY <1>2 DEF EdgeInv, NumbersGrow
  <2>6. \A u \in Threads : Running(u)' => Fresh(u)'
    BY <1>3, <2>1, <2>3, <2>4 DEF EdgeInv, SamplesAttributed, Fresh
  <2>7. \A x \in DOMAIN samples : x.by # Main => Attributed(x)'
    BY <1>3, <2>1, <2>3, <2>5 DEF EdgeInv, SamplesAttributed, Attributed, EdgesOf, Through
  <2> QED
    BY <1>3, <2>1, <2>6, <2>7 DEF EdgeInv, SamplesAttributed
<1> QED
  BY <1>6, <1>7 DEF EdgeInv

\* A new execution gets a number that no sample and no edge has.
LEMMA EnterEdges ==
    ASSUME OmpAssumption, IInv, EdgeInv, NEW t \in Threads, NEW k \in Nat, Enter(t, k)
    PROVE  EdgeInv'
<1>1. PICK n \in Nat : n = Tid(t, thread_global_id)
  BY TidIs DEF EdgeInv, NumbersGrow
<1>2. /\ thread_global_id \in Nat \ {0} /\ thread_global_id' = thread_global_id + 1
      /\ UNCHANGED <<regions, samples, edges>>
      /\ record_thread_gid' = [record_thread_gid EXCEPT ![t] = n]
      /\ record_perf_data_flag' = [record_perf_data_flag EXCEPT ![t] = FALSE]
      /\ \A u \in Threads : u # t => stack'[u] = stack[u]
  BY <1>1 DEF Enter, EdgeInv, NumbersGrow, IInv, TypeInv
<1>3. Used \subseteq Used' /\ n \in Used' /\ n \notin Used
  <2>1. /\ thread_global_id * Cores \in Nat /\ thread_global_id' * Cores \in Nat
        /\ Cores <= thread_global_id * Cores /\ thread_global_id * Cores <= n
        /\ n < thread_global_id' * Cores /\ thread_global_id * Cores < thread_global_id' * Cores
    BY <1>1, <1>2, TidIs
  <2>2. Cores \in Nat
    BY DEF OmpAssumption
  <2> QED
    BY <2>1, <2>2 DEF Used
<1>4. \A u \in Threads : u # t => /\ Running(u)' <=> Running(u)
                                  /\ record_thread_gid'[u] = record_thread_gid[u]
                                  /\ record_perf_data_flag'[u] = record_perf_data_flag[u]
  BY <1>2 DEF Running, EdgeInv, NumbersGrow
<1>5. record_thread_gid'[t] = n
  BY <1>2 DEF EdgeInv, NumbersGrow
<1>6. NumbersGrow'
  <2>1. /\ thread_global_id' \in Nat \ {0} /\ record_thread_gid' \in [Threads -> Nat]
        /\ record_perf_data_flag' \in [Threads -> BOOLEAN]
    BY <1>2 DEF EdgeInv, NumbersGrow
  <2>2. edges' \in Seq(Edge) /\ \A e \in ToSet(edges') : e.number \in Used'
    BY <1>2, <1>3 DEF EdgeInv, NumbersGrow
  <2>3. \A x \in DOMAIN samples' :
            IF x.by = Main THEN x.number = MainGid
            ELSE x.by \in Threads /\ x.number \in Used' /\ x.in \in 1..Len(regions')
    BY <1>2, <1>3 DEF EdgeInv, NumbersGrow
  <2>4. \A u \in Threads : Running(u)' => /\ record_thread_gid'[u] \in Used'
                                          /\ u # t => record_thread_gid'[u] \in Used
    BY <1>3, <1>4, <1>5 DEF EdgeInv, NumbersGrow
  <2>5. \A u, v \in Threads :
            Running(u)' /\ Running(v)' /\ record_thread_gid'[u] = record_thread_gid'[v] => u = v
    BY <1>3, <1>4, <1>5, <2>4 DEF EdgeInv, NumbersGrow
  <2> QED
    BY <2>1, <2>2, <2>3, <2>4, <2>5 DEF NumbersGrow
<1>7. ASSUME OnlyMainForks' PROVE SamplesAttributed'
  <2>1. OnlyMainForks
    BY <1>2, <1>7 DEF OnlyMainForks
  <2>2. ~Running(t)
    <3>1. k \in DOMAIN regions
      BY DEF Enter
    <3> QED
      BY <2>1, <3>1 DEF Enter, Called, Running, OnlyMainForks
  <2>3. \A u \in Threads : Running(u)' => Fresh(u)'
    <3>1. ASSUME NEW u \in Threads, u # t, Running(u)' PROVE Fresh(u)'
      BY <1>2, <1>4, <2>1, <3>1 DEF EdgeInv, SamplesAttributed, Fresh
    <3>2. Fresh(t)'
      BY <1>2, <1>3, <1>5 DEF EdgeInv, NumbersGrow, Fresh
    <3> QED
      BY <3>1, <3>2
  <2>4. ASSUME NEW x \in DOMAIN samples, x.by # Main PROVE Attributed(x)'
    <3>1. Attributed(x) /\ x.by \in Threads
      BY <2>1, <2>4 DEF EdgeInv, NumbersGrow, SamplesAttributed
    <3>2. Through(x.by, x.in) \/ x.by # t
      BY <2>2, <3>1 DEF Attributed
    <3> QED
      BY <1>2, <1>4, <3>1, <3>2 DEF Attributed, EdgesOf, Through
  <2> QED
    BY <1>2, <2>1, <2>3, <2>4 DEF EdgeInv, SamplesAttributed
<1> QED
  BY <1>6, <1>7 DEF EdgeInv

\* A sample has the number of the execution it is taken in, and of no other.
LEMMA SampleEdges ==
    ASSUME OmpAssumption, IInv, EdgeInv, NEW t \in Threads, NEW part, Sample(t, part)
    PROVE  EdgeInv'
<1>1. UNCHANGED <<regions, stack, thread_global_id, record_thread_gid, edges>>
  BY DEF Sample
<1>2. record_perf_data_flag' = [record_perf_data_flag EXCEPT ![t] = TRUE]
  BY DEF Sample
<1>3. PICK x : /\ DOMAIN samples' = DOMAIN samples \cup {x} /\ x.by = t
               /\ x.number = IF t = Main THEN MainGid ELSE record_thread_gid[t]
               /\ x.in = IF stack[t] = <<>> THEN 0 ELSE Top(t).region
  <2> DEFINE x == [path |-> Append(Path(t), <<part, Function(t)>>),
                   number |-> IF t = Main THEN MainGid ELSE record_thread_gid[t],
                   by |-> t,
                   in |-> IF stack[t] = <<>> THEN 0 ELSE Top(t).region]
  <2>1. samples' = samples (+) SetToBag({x})
    BY DEF Sample
  <2>2. DOMAIN samples' = DOMAIN samples \cup {x}
    BY <2>1 DEF (+), SetToBag
  <2> HIDE DEF x
  <2>3. x.by = t /\ x.number = (IF t = Main THEN MainGid ELSE record_thread_gid[t])
        /\ x.in = IF stack[t] = <<>> THEN 0 ELSE Top(t).region
    BY DEF x
  <2> QED
    BY <2>2, <2>3
<1>4. t # Main => /\ Running(t) /\ Top(t).region \in 1..Len(regions)
                  /\ x.number = record_thread_gid[t] /\ x.in = Top(t).region
  <2>1. ASSUME t # Main PROVE stack[t] # <<>> /\ EntryOK(t, Len(stack[t]))
    <3>1. InProgram(t)
      BY <2>1 DEF Sample, IInv, CountsTheProgram
    <3>2. stack[t] # <<>>
      BY <2>1, <3>1 DEF InProgram, InFunction
    <3> QED
      BY <3>2, TopIs DEF IInv, StacksNest
  <2> QED
    BY <1>3, <2>1, TopIs DEF Running, EntryOK, IInv
<1>5. NumbersGrow'
  <2>1. \A y \in DOMAIN samples' :
            IF y.by = Main THEN y.number = MainGid
            ELSE y.by \in Threads /\ y.number \in Used /\ y.in \in 1..Len(regions)
    BY <1>3, <1>4 DEF EdgeInv, NumbersGrow
  <2> QED
    BY <1>1, <1>2, <2>1 DEF EdgeInv, NumbersGrow, Used, Running
<1>6. ASSUME OnlyMainForks' PROVE SamplesAttributed'
  <2>1. OnlyMainForks
    BY <1>1, <1>6 DEF OnlyMainForks
  <2>2. t # Main => /\ Fresh(t) /\ x.in = stack[t][1].region /\ ~Through(t, x.in)
    BY <1>4, <2>1, WorkerIsFlat DEF IInv, EdgeInv, SamplesAttributed
  <2>3. ASSUME NEW u \in Threads, Running(u)' PROVE Fresh(u)'
    <3>1. Fresh(u) /\ Running(u)
      BY <1>1, <2>1, <2>3 DEF EdgeInv, SamplesAttributed, Running
    <3>2. x.by # Main /\ x.number = record_thread_gid[u] => x.by = u /\ x.in = stack[u][1].region
      BY <1>3, <1>4, <2>2, <3>1 DEF EdgeInv, NumbersGrow
    <3> QED
      BY <1>1, <1>3, <3>1, <3>2 DEF Fresh
  <2>4. ASSUME NEW y \in DOMAIN samples', y.by # Main PROVE Attributed(y)'
    <3>1. CASE y \in DOMAIN samples
      <4>1. Attributed(y) /\ y.by \in Threads
        BY <2>1, <2>4, <3>1 DEF EdgeInv, NumbersGrow, SamplesAttributed
      <4> QED
        BY <1>1, <1>2, <4>1 DEF EdgeInv, NumbersGrow, Attributed, EdgesOf, Through, Running
    <3>2. CASE y = x
      <4>1. t # Main /\ ~Through(y.by, y.in)'
        BY <1>1, <1>3, <2>2, <2>4, <3>2 DEF Through
      <4> QED
        BY <1>1, <1>2, <1>3, <1>4, <3>2, <4>1 DEF EdgeInv, NumbersGrow, Attributed, Running
    <3> QED
      BY <1>3, <3>1, <3>2
  <2>5. \A y \in DOMAIN samples :
            x.by # Main /\ y.by # Main /\ x.number = y.number => x.by = y.by /\ x.in = y.in
    BY <1>3, <1>4, <2>2 DEF Fresh
  <2>6. \A y, z \in DOMAIN samples' :
            y.by # Main /\ z.by # Main /\ y.number = z.number => y.by = z.by /\ y.in = z.in
    BY <1>3, <2>1, <2>5 DEF EdgeInv, SamplesAttributed
  <2> QED
    BY <2>3, <2>4, <2>6 DEF SamplesAttributed
<1> QED
  BY <1>5, <1>6 DEF EdgeInv

\* What Leave does to a region is to add the thread that is through.
LEMMA LeaveIs ==
    ASSUME IInv, IInv', NEW t \in Threads, Leave(t)
    PROVE  \E k \in 1..Len(regions) :
              /\ k = Top(t).region
              /\ Len(regions') = Len(regions) /\ DOMAIN regions' = 1..Len(regions)
              /\ \A l \in 1..Len(regions) :
                    /\ regions'[l].site = regions[l].site
                    /\ regions'[l].path = regions[l].path /\ regions'[l].caller = regions[l].caller
                    /\ \A u : u \in regions'[l].through
                                 <=> u \in regions[l].through \/ (l = k /\ u = t)
<1>1. EntryOK(t, Len(stack[t])) /\ Top(t) = stack[t][Len(stack[t])]
  BY TopIs DEF Leave, InFunction, IInv, StacksNest
<1>2. PICK k \in 1..Len(regions) :
          k = Top(t).region /\ regions' = [regions EXCEPT ![k].through = @ \cup {t}]
  BY <1>1 DEF Leave, EntryOK
<1>3. regions \in [1..Len(regions) -> Region] /\ Len(regions) \in Nat
  BY LenProperties DEF IInv, TypeInv
<1>4. \A l \in 1..Len(regions) : regions[l] \in Region
  BY <1>3
<1>5. regions' \in Seq(Region) /\ DOMAIN regions' = 1..Len(regions)
  BY <1>2, <1>3 DEF IInv, TypeInv
<1>6. ASSUME NEW l \in 1..Len(regions)
      PROVE  /\ regions'[l].site = regions[l].site
             /\ regions'[l].path = regions[l].path /\ regions'[l].caller = regions[l].caller
             /\ regions'[l].through = IF l = k THEN regions[l].through \cup {t}
                                        ELSE regions[l].through
  <2>1. regions'[l] = IF l = k THEN [regions[l] EXCEPT !.through = @ \cup {t}] ELSE regions[l]
    BY <1>2, <1>3
  <2>2. regions[l] \in Region
    BY <1>4
  <2> QED
    BY <2>1, <2>2 DEF Region
<1>7. Len(regions') = Len(regions)
  BY <1>3, <1>5, LenProperties
<1> QED
  BY <1>2, <1>5, <1>6, <1>7

\* The edge of an execution is recorded when it is through, if it was sampled: just once.
LEMMA LeaveEdges ==
    ASSUME OmpAssumption, IInv, IInv', EdgeInv, NEW t \in Threads, Leave(t)
    PROVE  EdgeInv'
<1>1. PICK k \in 1..Len(regions) :
          /\ k = Top(t).region
          /\ Len(regions') = Len(regions) /\ DOMAIN regions' = 1..Len(regions)
          /\ \A l \in 1..Len(regions) :
                /\ regions'[l].path = regions[l].path /\ regions'[l].caller = regions[l].caller
                /\ \A u : u \in regions'[l].through
                             <=> u \in regions[l].through \/ (l = k /\ u = t)
  BY LeaveIs
<1>2. /\ UNCHANGED <<thread_global_id, record_thread_gid, record_perf_data_flag, samples>>
      /\ \A u \in Threads : u # t => stack'[u] = stack[u] /\ (Running(u)' <=> Running(u))
      /\ stack[t] # <<>>
  BY DEF Leave, InFunction, locals, IInv, TypeInv, Running
<1> DEFINE e == [path |-> regions[k].path, number |-> record_thread_gid[t]]
<1>3. /\ edges' \in Seq(Edge)
      /\ ToSet(edges') = IF t = Main \/ ~record_perf_data_flag[t] THEN ToSet(edges)
                         ELSE ToSet(edges) \cup {e}
  <2>1. e \in Edge
    <3>1. regions[k] \in Region
      BY ElementOfSeq DEF IInv, TypeInv
    <3> QED
      BY <3>1 DEF Region, Edge, EdgeInv, NumbersGrow
  <2>2. edges' = IF t = Main \/ ~record_perf_data_flag[t] THEN edges ELSE Append(edges, e)
    BY <1>1 DEF Leave
  <2>3. edges \in Seq(Edge)
    BY DEF EdgeInv, NumbersGrow
  <2> HIDE DEF e
  <2>4. /\ ToSet(Append(edges, e)) = ToSet(edges) \cup {e}
        /\ Append(edges, e) \in Seq(Edge)
    BY <2>1, <2>3, ToSetAppend, AppendProperties
  <2> QED
    BY <2>2, <2>3, <2>4
<1> HIDE DEF e
<1>4. /\ e = [path |-> regions[k].path, number |-> record_thread_gid[t]]
      /\ e.number = record_thread_gid[t]
  BY DEF e
<1>5. t # Main => Running(t) /\ record_thread_gid[t] \in Used
  BY <1>2 DEF Running, EdgeInv, NumbersGrow
<1>6. \A u \in Threads : Running(u)' => Running(u)
  BY <1>2 DEF Running
<1>7. NumbersGrow'
  <2>1. \A f \in ToSet(edges') : f.number \in Used
    BY <1>3, <1>4, <1>5 DEF EdgeInv, NumbersGrow
  <2> QED
    BY <1>1, <1>2, <1>3, <1>6, <2>1 DEF EdgeInv, NumbersGrow, Used
<1>8. ASSUME OnlyMainForks' PROVE SamplesAttributed'
  <2>1. OnlyMainForks
    <3>1. Len(regions) <= Len(regions')
      BY <1>1, LenProperties DEF IInv, TypeInv
    <3> QED
      BY <1>1, <1>8, <3>1, ForksStay DEF IInv
  <2>2. t # Main => /\ Fresh(t) /\ k = stack[t][1].region /\ ~Through(t, k)
                    /\ stack'[t] = <<>>
    <3>1. ASSUME t # Main
          PROVE  /\ Fresh(t) /\ k = stack[t][1].region /\ ~Through(t, k)
                 /\ regions[k].caller # t /\ Len(stack[t]) = 1
      BY <1>1, <1>5, <2>1, <3>1, WorkerIsFlat DEF IInv, EdgeInv, SamplesAttributed
    <3>2. ASSUME t # Main PROVE stack'[t] = Front(stack[t])
      BY <1>1, <3>1, <3>2 DEF Leave, IInv, TypeInv
    <3>3. ASSUME t # Main PROVE stack'[t] = <<>>
      BY <1>2, <3>1, <3>2, <3>3, LastIs, EmptySeq DEF IInv, TypeInv
    <3> QED
      BY <3>1, <3>3
  <2>3. ASSUME NEW u \in Threads, Running(u)' PROVE Fresh(u)'
    <3>1. u # t /\ Running(u) /\ Fresh(u)
      BY <1>6, <2>1, <2>2, <2>3 DEF Running, EdgeInv, SamplesAttributed
    <3>2. t # Main => record_thread_gid[t] # record_thread_gid[u]
      BY <1>5, <3>1 DEF EdgeInv, NumbersGrow
    <3> QED
      BY <1>2, <1>3, <1>4, <3>1, <3>2 DEF Fresh
  <2>4. ASSUME NEW x \in DOMAIN samples, x.by # Main PROVE Attributed(x)'
    <3>1. Attributed(x) /\ x.by \in Threads /\ x.in \in 1..Len(regions)
      BY <2>1, <2>4 DEF EdgeInv, NumbersGrow, SamplesAttributed
    <3>2. CASE t = Main
      BY <1>1, <1>2, <1>3, <2>4, <3>1, <3>2, SMTT(60) DEF Attributed, EdgesOf, Through, Running
    <3>3. CASE t # Main /\ x.by = t /\ x.in = k
      <4>1. record_thread_gid[t] = x.number /\ record_perf_data_flag[t]
        BY <2>2, <3>1, <3>3 DEF Attributed
      <4>2. ToSet(edges') = ToSet(edges) \cup {e} /\ EdgesOf(x.number) = {}
        BY <1>3, <2>2, <3>3, <4>1 DEF Fresh, EdgesOf
      <4>3. EdgesOf(x.number)' = {e} /\ e = [path |-> regions'[x.in].path, number |-> x.number]
        BY <1>1, <1>4, <3>3, <4>1, <4>2 DEF EdgesOf
      <4>4. Through(x.by, x.in)'
        BY <1>1, <3>3 DEF Through
      <4> QED
        BY <4>3, <4>4 DEF Attributed
    <3>4. CASE t # Main /\ ~(x.by = t /\ x.in = k)
      <4>1. x.number # record_thread_gid[t]
        BY <2>2, <2>4, <3>4 DEF Fresh
      <4>2. EdgesOf(x.number)' = EdgesOf(x.number)
        BY <1>3, <1>4, <4>1 DEF EdgesOf
      <4>3. Through(x.by, x.in)' <=> Through(x.by, x.in)
        BY <1>1, <3>1, <3>4 DEF Through
      <4>4. Through(x.by, x.in) \/ x.by # t
        BY <3>1, <4>1 DEF Attributed
      <4> QED
        BY <1>1, <1>2, <3>1, <4>2, <4>3, <4>4 DEF Attributed
    <3> QED
      BY <3>2, <3>3, <3>4
  <2> QED
    BY <1>2, <2>1, <2>3, <2>4 DEF EdgeInv, SamplesAttributed
<1> QED
  BY <1>7, <1>8 DEF EdgeInv

\* The return of GOMP_parallel records nothing; where only the main thread forks, it is its own.
LEMMA JoinEdges ==
    ASSUME OmpAssumption, IInv, EdgeInv, NEW t \in Threads, Join(t)
    PROVE  EdgeInv'
<1>1. /\ UNCHANGED <<regions, thread_global_id, record_thread_gid, record_perf_data_flag>>
      /\ UNCHANGED <<samples, edges>>
      /\ \A u \in Threads : u # t => stack'[u] = stack[u]
      /\ stack[t] # <<>>
  BY DEF Join, locals, IInv, TypeInv
<1>2. \A u \in Threads : Running(u)' => Running(u)
  BY <1>1 DEF Running
<1>3. NumbersGrow'
  BY <1>1, <1>2 DEF EdgeInv, NumbersGrow, Used
<1>4. ASSUME OnlyMainForks' PROVE SamplesAttributed'
  <2>1. OnlyMainForks
    BY <1>1, <1>4 DEF OnlyMainForks
  <2>2. t = Main
    <3>1. t # Main => Running(t)
      BY <1>1 DEF Running
    <3> QED
      BY <2>1, <3>1, WorkerIsFlat DEF Join, IInv
  <2>3. \A u \in Threads : (Running(u)' <=> Running(u)) /\ (Running(u) => stack'[u] = stack[u])
    BY <1>1, <2>2 DEF Running
  <2>4. \A u \in Threads : Running(u)' => Fresh(u)'
    BY <1>1, <2>1, <2>3 DEF EdgeInv, SamplesAttributed, Fresh
  <2>5. \A x \in DOMAIN samples : x.by # Main => x.by \in Threads /\ Attributed(x)
    BY <2>1 DEF EdgeInv, NumbersGrow, SamplesAttributed
  <2>6. \A x \in DOMAIN samples : x.by # Main => Attributed(x)'
    BY <1>1, <2>3, <2>5 DEF Attributed, EdgesOf, Through
  <2> QED
    BY <1>1, <2>1, <2>4, <2>6 DEF EdgeInv, SamplesAttributed
<1> QED
  BY <1>3, <1>4 DEF EdgeInv

\* What the records depend on.
LEMMA SameEdges ==
    ASSUME EdgeInv, UNCHANGED <<regions, stack, thread_global_id, locals, samples, edges>>
    PROVE  EdgeInv'
<1>1. NumbersGrow'
  BY DEF EdgeInv, NumbersGrow, Used, Running, locals
<1>2. OnlyMainForks' => SamplesAttributed'
  BY DEF EdgeInv, OnlyMainForks, SamplesAttributed, Fresh, Attributed, EdgesOf, Through, Running,
         locals
<1> QED
  BY <1>1, <1>2 DEF EdgeInv

\* Every step of the sampler keeps what is known of its records.
LEMMA StepEdges == ASSUME OmpAssumption, IInv, IInv', EdgeInv, [OmpNext]_sampler PROVE EdgeInv'
<1>1. ASSUME NEW t \in Threads, NEW s \in Sites, Fork(t, s) PROVE EdgeInv'
  BY <1>1, ForkEdges
<1>2. ASSUME NEW t \in Threads, NEW k \in 1..MaxRegions, Enter(t, k) PROVE EdgeInv'
  BY <1>2, EnterEdges
<1>3. ASSUME NEW t \in Threads, NEW part, Sample(t, part) PROVE EdgeInv'
  BY <1>3, SampleEdges
<1>4. ASSUME NEW t \in Threads, Leave(t) \/ Join(t) PROVE EdgeInv'
  BY <1>4, LeaveEdges, JoinEdges
<1>5. CASE Exit \/ UNCHANGED sampler
  BY <1>5, SameEdges DEF Exit, sampler
<1> QED
  BY <1>1, <1>2, <1>3, <1>4, <1>5 DEF OmpNext

\* While no worker opens a region of its own, an execution of a worker that was sampled
\* has an edge from the call of GOMP_parallel to the number its samples have, once it is
\* through, and this number has no other edge and no samples of another execution
\* (omp_sampler.cpp, 174-196: the numbers are never given back).
THEOREM SampledWorkersAreNamed == OmpSpec => []SampledWorkersHaveEdge
<1> USE OmpAssumption
<1>1. OmpGraphInit => IInv /\ EdgeInv
  <2>1. ASSUME OmpInit PROVE EdgeInv
    <3>1. DOMAIN samples = {} /\ ToSet(edges) = {}
      BY <2>1, EmptySeq DEF OmpInit, EmptyBag, SetToBag, ToSet
    <3>2. NumbersGrow
      BY <2>1, <3>1, EmptySeq DEF OmpInit, NumbersGrow, Running
    <3> QED
      BY <2>1, <3>1, <3>2 DEF OmpInit, EdgeInv, SamplesAttributed, Running
  <2> QED
    BY <2>1, InitIInv DEF OmpGraphInit
<1>2. IInv /\ EdgeInv /\ [OmpGraphNext]_<<sampler, analysis>> => (IInv /\ EdgeInv)'
  BY StepIInv, StepEdges, SamplerSteps
<1>3. IInv /\ EdgeInv => SampledWorkersHaveEdge
  <2>1. ASSUME EdgeInv, OnlyMainForks, NEW x \in DOMAIN samples, x.by # Main
        PROVE  /\ Through(x.by, x.in) =>
                      {e \in ToSet(edges) : e.number = x.number}
                          = {[path |-> regions[x.in].path, number |-> x.number]}
               /\ \A y \in DOMAIN samples : y.number = x.number => y.by = x.by /\ y.in = x.in
    <3>1. x.number \in Used
      BY <2>1 DEF EdgeInv, NumbersGrow
    <3>2. \A y \in DOMAIN samples : y.number = x.number => y.by # Main
      BY <2>1, <3>1, OmpAssumption DEF EdgeInv, NumbersGrow, Used, MainGid
    <3>3. Through(x.by, x.in) => EdgesOf(x.number)
                                     = {[path |-> regions[x.in].path, number |-> x.number]}
      BY <2>1 DEF EdgeInv, SamplesAttributed, Attributed
    <3> QED
      BY <2>1, <3>2, <3>3 DEF EdgeInv, SamplesAttributed, EdgesOf
  <2> QED
    BY <2>1 DEF SampledWorkersHaveEdge, BagToSet
<1> QED
  BY <1>1, <1>2, <1>3, PTL DEF OmpSpec
-----------------------------------------------------------------------------
(* The call paths                                                            *)

CallPaths == Seq({"call"} \X (Sites \cup {Serial}))

\* Calls that end with that of function f, each made in the one before it.
Chained(p, f) ==
    /\ p \in CallPaths /\ p # <<>> /\ p[Len(p)][2] = f
    /\ \A i \in 2..Len(p) : p[i][2] \in Sites /\ Outer[p[i][2]] = p[i - 1][2]

\* The regions that a thread is in were called one inside the other.
LinkedIn(t) ==
    \A i \in 1..Len(stack[t]) :
        IF i = 1 THEN t = Main => Outer[regions[stack[t][1].region].site] = Serial
        ELSE Outer[regions[stack[t][i].region].site] = regions[stack[t][i - 1].region].site
Linked == \A t \in Threads : LinkedIn(t)

\* A sample's path is such a chain and the part of the last function, without the call that
\* starts the worker.
From(x, g) ==
    \E q, f : \E part \in {"fn", "loop"} :
        /\ Chained(q, f) /\ q[1][2] = g
        /\ x.path = Append(IF x.by = Main THEN q ELSE Tail(q), <<part, f>>)
PlaceOf(x) ==
    IF x.by = Main THEN From(x, Serial)
    ELSE /\ x.in \in 1..Len(regions)
         /\ \E g \in Sites : From(x, g)
         /\ regions[x.in].caller # x.by =>
                \E part \in {"fn", "loop"} : x.path = <<<<part, regions[x.in].site>>>>

\* The path of a region starts in the serial part if the main thread calls it.
PathsLead ==
    /\ Linked
    /\ \A k \in 1..Len(regions) : /\ Chained(regions[k].path, regions[k].site)
                                  /\ regions[k].path[1][2] = Serial <=> regions[k].caller = Main
    /\ \A x \in DOMAIN samples : PlaceOf(x)

Counted == IsFiniteSet(DOMAIN samples) /\ \A x \in DOMAIN samples : samples[x] \in Nat

PathInv == Counted /\ PathsLead

\* A chain and one more call, with and without its first call.
LEMMA ChainOn ==
    ASSUME NEW p, NEW f, Chained(p, f), NEW s \in Sites, Outer[s] = f
    PROVE  /\ Chained(Append(p, <<"call", s>>), s) /\ Append(p, <<"call", s>>)[1] = p[1]
           /\ Chained(Append(Tail(p), <<"call", s>>), s)
           /\ Append(Tail(p), <<"call", s>>)[1][2] \in Sites
<1> DEFINE C == {"call"} \X (Sites \cup {Serial})
<1>1. p \in Seq(C) /\ <<"call", s>> \in C /\ p # <<>>
  BY DEF Chained, CallPaths
<1>2. PICK n \in Nat \ {0} : n = Len(p)
  BY <1>1, LenProperties, EmptySeq
<1>3. PICK q : q = Append(p, <<"call", s>>)
  OBVIOUS
<1>4. PICK r : r = Append(Tail(p), <<"call", s>>)
  OBVIOUS
<1> HIDE DEF C
<1>5. /\ q \in Seq(C) /\ Len(q) = n + 1 /\ q[n + 1] = <<"call", s>>
      /\ \A i \in 1..n : q[i] = p[i]
  BY <1>1, <1>2, <1>3, PushIs
<1>6. /\ Tail(p) \in Seq(C) /\ Len(Tail(p)) = n - 1 /\ n - 1 \in Nat
      /\ \A i \in 1..(n - 1) : Tail(p)[i] = p[i + 1]
  BY <1>1, <1>2, HeadTailProperties
<1>7. /\ r \in Seq(C) /\ Len(r) = n /\ r[n] = <<"call", s>>
      /\ \A i \in 1..(n - 1) : r[i] = p[i + 1]
  <2>1. PICK w \in Seq(C) : w = Tail(p) /\ Len(w) = n - 1
    BY <1>6
  <2>2. /\ Append(w, <<"call", s>>) \in Seq(C) /\ Len(Append(w, <<"call", s>>)) = Len(w) + 1
        /\ Append(w, <<"call", s>>)[Len(w) + 1] = <<"call", s>>
        /\ \A i \in 1..Len(w) : Append(w, <<"call", s>>)[i] = w[i]
    BY <1>1, PushIs
  <2>3. Len(w) + 1 = n /\ r = Append(w, <<"call", s>>)
    BY <1>2, <1>4, <2>1
  <2> QED
    BY <1>6, <2>1, <2>2, <2>3
<1>8. \A i \in 2..n : p[i][2] \in Sites /\ Outer[p[i][2]] = p[i - 1][2]
  BY <1>2 DEF Chained
<1>9. p[n][2] = f
  BY <1>2 DEF Chained
<1>10. ASSUME NEW i \in 2..(n + 1) PROVE q[i][2] \in Sites /\ Outer[q[i][2]] = q[i - 1][2]
  <2>1. CASE i = n + 1
    <3>1. i - 1 = n /\ n \in 1..n
      BY <1>2, <2>1
    <3> QED
      BY <1>5, <1>9, <2>1, <3>1
  <2>2. CASE i # n + 1
    <3>1. i \in 2..n /\ q[i] = p[i] /\ q[i - 1] = p[i - 1]
      BY <1>2, <1>5, <2>2
    <3> QED
      BY <1>8, <3>1
  <2> QED
    BY <2>1, <2>2
<1>11. \A i \in 1..n : r[i] = q[i + 1]
  <2>1. ASSUME NEW i \in 1..n PROVE r[i] = q[i + 1]
    <3>1. CASE i = n
      BY <1>5, <1>7, <3>1
    <3>2. CASE i # n
      <4>1. i \in 1..(n - 1) /\ i + 1 \in 1..n
        BY <1>2, <3>2
      <4> QED
        BY <1>5, <1>7, <4>1
    <3> QED
      BY <3>1, <3>2
  <2> QED
    BY <2>1
<1>12. ASSUME NEW i \in 2..n PROVE r[i][2] \in Sites /\ Outer[r[i][2]] = r[i - 1][2]
  <2>1. PICK j \in 1..n : i = j + 1
    <3>1. i - 1 \in 1..n /\ i = (i - 1) + 1
      BY <1>2
    <3> QED
      BY <3>1
  <2>2. i + 1 \in 2..(n + 1) /\ (i + 1) - 1 = j + 1 /\ i - 1 = j
    BY <1>2, <2>1
  <2>3. r[i] = q[i + 1] /\ r[j] = q[j + 1]
    BY <1>2, <1>11
  <2>4. q[i + 1][2] \in Sites /\ Outer[q[i + 1][2]] = q[j + 1][2]
    BY <1>10, <2>2
  <2> QED
    BY <2>2, <2>3, <2>4
<1>13. r[1][2] \in Sites
  <2>1. 1 \in 1..n /\ 2 \in 2..(n + 1)
    BY <1>2
  <2> QED
    BY <1>10, <1>11, <2>1
<1>14. q # <<>> /\ r # <<>> /\ q[1] = p[1]
  BY <1>2, <1>5, <1>7, EmptySeq
<1>15. q \in CallPaths /\ r \in CallPaths
  BY <1>5, <1>7 DEF CallPaths, C
<1>16. Chained(q, s)
  BY <1>5, <1>10, <1>14, <1>15 DEF Chained
<1>17. Chained(r, s)
  BY <1>7, <1>12, <1>14, <1>15 DEF Chained
<1> QED
  BY <1>3, <1>4, <1>13, <1>14, <1>16, <1>17

\* The calls on the stack of a thread are such a chain, which ends in the function that the
\* thread is in.
LEMMA RouteIs ==
    ASSUME OmpAssumption, IInv, NEW t \in Threads, LinkedIn(t), t # Main => stack[t] # <<>>
    PROVE  \E q : /\ Chained(q, Function(t)) /\ Path(t) = IF t = Main THEN q ELSE Tail(q)
                  /\ q[1][2] = IF t = Main THEN Serial ELSE regions[stack[t][1].region].site
                  /\ t # Main => Len(q) = Len(stack[t])
<1> DEFINE at == [i \in DOMAIN stack[t] |-> <<"call", regions[stack[t][i].region].site>>]
           C == {"call"} \X (Sites \cup {Serial})
           first == <<<<"call", Serial>>>>
<1>1. PICK n \in Nat : n = Len(stack[t])
  BY TopIs DEF IInv
<1>2. DOMAIN stack[t] = 1..n /\ stack[t] \in Seq(Entry)
  BY <1>1, TopIs, LenProperties DEF IInv, TypeInv
<1>3. PICK site : site = [i \in 1..n |-> regions[stack[t][i].region].site]
  OBVIOUS
<1>4. \A i \in 1..n : site[i] \in Sites
  <2>1. \A i \in 1..n : stack[t][i].region \in 1..Len(regions)
    BY <1>1, <1>2 DEF IInv, StacksNest, EntryOK
  <2>2. \A k \in 1..Len(regions) : regions[k] \in Region
    BY ElementOfSeq DEF IInv, TypeInv
  <2> QED
    BY <1>3, <2>1, <2>2 DEF Region
<1>5. \A i \in 1..n : IF i = 1 THEN t = Main => Outer[site[1]] = Serial
                      ELSE Outer[site[i]] = site[i - 1]
  <2>1. \A i \in 1..n : i # 1 => i - 1 \in 1..n
    OBVIOUS
  <2> QED
    BY <1>1, <1>3, <2>1 DEF LinkedIn
<1>6. at \in Seq(C) /\ Len(at) = n /\ \A i \in 1..n : at[i] = <<"call", site[i]>>
  <2>1. at = [i \in 1..n |-> <<"call", site[i]>>]
    BY <1>2, <1>3
  <2>2. \A i \in 1..n : <<"call", site[i]>> \in C
    BY <1>4
  <2> HIDE DEF at, C
  <2> QED
    BY <2>1, <2>2, IsASeq
<1>7. first \in Seq(C) /\ Len(first) = 1 /\ first[1] = <<"call", Serial>>
  OBVIOUS
<1>8. Path(t) = IF t = Main THEN first \o at ELSE Tail(at)
  BY DEF Path
<1>9. Seq(C) = CallPaths
  BY DEF CallPaths
<1>10. Function(t) = IF n = 0 THEN Serial ELSE site[n]
  <2>1. n # 0 => n \in 1..n
    OBVIOUS
  <2> QED
    BY <1>1, <1>3, <2>1, TopIs DEF Function, IInv
<1> HIDE DEF at, first, C
<1>11. CASE t # Main
  <2>1. n # 0
    BY <1>1, <1>11, TopIs DEF IInv
  <2>2. 1 \in 1..n /\ n \in 1..n /\ site[1] = regions[stack[t][1].region].site
    BY <1>3, <2>1
  <2>3. ASSUME NEW i \in 2..n PROVE at[i][2] \in Sites /\ Outer[at[i][2]] = at[i - 1][2]
    <3>1. i \in 1..n /\ i - 1 \in 1..n /\ i # 1
      OBVIOUS
    <3>2. at[i][2] = site[i] /\ at[i - 1][2] = site[i - 1]
      BY <1>6, <3>1
    <3> QED
      BY <1>4, <1>5, <3>1, <3>2
  <2>4. at # <<>>
    BY <1>6, <2>1, EmptySeq
  <2>5. Chained(at, Function(t))
    BY <1>6, <1>9, <1>10, <2>1, <2>2, <2>3, <2>4 DEF Chained
  <2> QED
    BY <1>1, <1>6, <1>8, <1>11, <2>2, <2>5
<1>12. CASE t = Main
  <2>1. PICK q : q = first \o at
    OBVIOUS
  <2>2. /\ q \in Seq(C) /\ Len(q) = n + 1 /\ q[1] = <<"call", Serial>>
        /\ \A i \in 1..n : q[i + 1] = <<"call", site[i]>>
    <3>1. PICK a \in Seq(C), b \in Seq(C) : a = first /\ b = at
      BY <1>6, <1>7
    <3>2. /\ a \o b \in Seq(C) /\ Len(a \o b) = Len(a) + Len(b)
          /\ \A i \in 1..(Len(a) + Len(b)) :
                (a \o b)[i] = IF i <= Len(a) THEN a[i] ELSE b[i - Len(a)]
      BY ConcatProperties
    <3>3. Len(a) = 1 /\ Len(b) = n /\ a[1] = <<"call", Serial>> /\ q = a \o b
      BY <1>6, <1>7, <2>1, <3>1
    <3>4. \A i \in 1..n : (a \o b)[i + 1] = b[i]
      BY <3>2, <3>3
    <3>5. (a \o b)[1] = a[1]
      BY <3>2, <3>3
    <3> QED
      BY <1>6, <3>1, <3>2, <3>3, <3>4, <3>5
  <2>3. ASSUME NEW i \in 2..(n + 1) PROVE q[i][2] \in Sites /\ Outer[q[i][2]] = q[i - 1][2]
    <3>1. PICK j \in 1..n : i = j + 1
      OBVIOUS
    <3>2. q[i][2] = site[j] /\ i - 1 = j
      BY <2>2, <3>1
    <3>3. CASE j = 1
      BY <1>4, <1>5, <1>12, <2>2, <3>2, <3>3
    <3>4. CASE j # 1
      <4>1. PICK k \in 1..n : j = k + 1
        BY <3>4
      <4>2. q[j][2] = site[k] /\ Outer[site[j]] = site[k]
        BY <1>5, <2>2, <3>4, <4>1
      <4> QED
        BY <1>4, <3>2, <4>2
    <3> QED
      BY <3>3, <3>4
  <2>4. q[n + 1][2] = Function(t)
    <3>1. CASE n = 0
      BY <1>10, <2>2, <3>1
    <3>2. CASE n # 0
      <4>1. n \in 1..n
        BY <3>2
      <4> QED
        BY <1>10, <2>2, <3>2, <4>1
    <3> QED
      BY <3>1, <3>2
  <2>5. q # <<>>
    BY <2>2, EmptySeq
  <2>6. Chained(q, Function(t))
    BY <1>9, <2>2, <2>3, <2>4, <2>5 DEF Chained
  <2>7. q[1][2] = Serial /\ Path(t) = q
    BY <1>8, <1>12, <2>1, <2>2
  <2> QED
    BY <1>12, <2>6, <2>7
<1> QED
  BY <1>11, <1>12

\* What is linked stays so while regions keep their site and entries their region.
LEMMA LinkedKept ==
    ASSUME OmpAssumption, IInv, NEW u \in Threads, LinkedIn(u),
           Len(stack'[u]) \in Nat, Len(stack'[u]) <= Len(stack[u]),
           \A i \in 1..Len(stack'[u]) : stack'[u][i].region = stack[u][i].region,
           \A k \in 1..Len(regions) : regions'[k].site = regions[k].site
    PROVE  LinkedIn(u)'
<1>1. Len(stack[u]) \in Nat
  BY TopIs DEF IInv
<1>2. \A i \in 1..Len(stack'[u]) : i \in 1..Len(stack[u]) /\ (i # 1 => i - 1 \in 1..Len(stack'[u]))
  BY <1>1
<1>3. \A i \in 1..Len(stack[u]) : stack[u][i].region \in 1..Len(regions)
  BY DEF IInv, StacksNest, EntryOK
<1>4. \A i \in 1..Len(stack'[u]) :
          regions'[stack'[u][i].region].site = regions[stack[u][i].region].site
  BY <1>2, <1>3
<1>5. ASSUME NEW i \in 1..Len(stack'[u])
      PROVE  IF i = 1 THEN u = Main => Outer[regions'[stack'[u][1].region].site] = Serial
             ELSE Outer[regions'[stack'[u][i].region].site] = regions'[stack'[u][i - 1].region].site
  <2>1. CASE i = 1
    BY <1>2, <1>4, <2>1 DEF LinkedIn
  <2>2. CASE i # 1
    <3>1. PICK j \in 1..Len(stack'[u]) : j = i - 1
      BY <1>2, <2>2
    <3>2. Outer[regions[stack[u][i].region].site] = regions[stack[u][j].region].site
      BY <1>2, <2>2, <3>1 DEF LinkedIn
    <3> QED
      BY <1>4, <2>2, <3>1, <3>2
  <2> QED
    BY <2>1, <2>2
<1> QED
  BY <1>5 DEF LinkedIn

\* A step that samples nothing and leaves the regions as they are called.
LEMMA PathsKept ==
    ASSUME IInv, PathInv, samples' = samples, Linked', Len(regions') = Len(regions),
           \A k \in 1..Len(regions) : /\ regions'[k].site = regions[k].site
                                      /\ regions'[k].path = regions[k].path
                                      /\ regions'[k].caller = regions[k].caller
    PROVE  PathInv'
<1>1. Counted'
  BY DEF PathInv, Counted
<1>2. \A k \in 1..Len(regions') :
          /\ Chained(regions'[k].path, regions'[k].site)
          /\ regions'[k].path[1][2] = Serial <=> regions'[k].caller = Main
  BY DEF PathInv, PathsLead
<1>3. ASSUME NEW x \in DOMAIN samples PROVE PlaceOf(x)'
  <2>1. PlaceOf(x)
    BY DEF PathInv, PathsLead
  <2> QED
    BY <2>1 DEF PlaceOf
<1> QED
  BY <1>1, <1>2, <1>3 DEF PathInv, PathsLead

\* The new region's path ends with the call that starts it.
LEMMA ForkPaths ==
    ASSUME OmpAssumption, IInv, IInv', PathInv, NEW t \in Threads, NEW s \in Sites, Fork(t, s)
    PROVE  PathInv'
<1>1. PICK r \in Region : /\ regions' = Append(regions, r) /\ r.caller = t
                          /\ r.site = s /\ r.path = Append(Path(t), <<"call", s>>)
  BY ForkIs
<1>2. /\ Len(regions) \in Nat /\ Len(regions') = Len(regions) + 1
      /\ regions'[Len(regions) + 1] = r /\ \A k \in 1..Len(regions) : regions'[k] = regions[k]
      /\ DOMAIN regions' = 1..Len(regions')
  BY <1>1, PushIs, LenProperties DEF IInv, TypeInv
<1>3. samples' = samples /\ Linked /\ Outer[s] = Function(t)
  BY DEF Fork, PathInv, PathsLead
<1>4. Counted'
  BY <1>3 DEF PathInv, Counted
<1>5. t # Main => stack[t] # <<>>
  BY InProgramIs DEF Fork, IInv
<1>6. PICK q : /\ Chained(q, Function(t)) /\ Path(t) = IF t = Main THEN q ELSE Tail(q)
               /\ q[1][2] = IF t = Main THEN Serial ELSE regions[stack[t][1].region].site
  BY <1>3, <1>5, RouteIs DEF Linked
<1>7. Chained(r.path, r.site) /\ (r.path[1][2] = Serial <=> r.caller = Main)
  <2>1. /\ Chained(Append(q, <<"call", s>>), s) /\ Append(q, <<"call", s>>)[1] = q[1]
        /\ Chained(Append(Tail(q), <<"call", s>>), s)
        /\ Append(Tail(q), <<"call", s>>)[1][2] \in Sites
    BY <1>3, <1>6, ChainOn
  <2>2. CASE t = Main
    BY <1>1, <1>6, <2>1, <2>2
  <2>3. CASE t # Main
    <3>1. r.path = Append(Tail(q), <<"call", s>>)
      BY <1>1, <1>6, <2>3
    <3> QED
      BY <1>1, <2>1, <2>3, <3>1 DEF OmpAssumption
  <2> QED
    BY <2>2, <2>3
<1>8. \A k \in 1..Len(regions') :
          /\ Chained(regions'[k].path, regions'[k].site)
          /\ regions'[k].path[1][2] = Serial <=> regions'[k].caller = Main
  BY <1>2, <1>7 DEF PathInv, PathsLead
<1>9. ASSUME NEW x \in DOMAIN samples' PROVE PlaceOf(x)'
  <2>1. PlaceOf(x)
    BY <1>3 DEF PathInv, PathsLead
  <2>2. x.in \in 1..Len(regions) => x.in \in 1..Len(regions') /\ regions'[x.in] = regions[x.in]
    BY <1>2
  <2> QED
    BY <2>1, <2>2 DEF PlaceOf
<1>10. ASSUME NEW u \in Threads PROVE LinkedIn(u)'
  <2>1. \A k \in 1..Len(regions) : regions'[k].site = regions[k].site
    BY <1>2
  <2>2. CASE u # t
    <3>1. stack'[u] = stack[u] /\ Len(stack[u]) \in Nat
      BY <2>2, TopIs DEF Fork, IInv, TypeInv
    <3> QED
      BY <1>3, <2>1, <3>1, LinkedKept DEF Linked
  <2>3. CASE u = t
    <3> DEFINE e == [region |-> Len(regions) + 1, in |-> "team"]
    <3>1. PICK n \in Nat : n = Len(stack[t])
      BY TopIs DEF IInv
    <3>2. stack[t] \in Seq(Entry) /\ e \in Entry /\ stack'[t] = Append(stack[t], e)
      BY <1>2, TopIs DEF IInv, TypeInv, Entry, Fork
    <3>3. /\ Len(stack'[t]) = n + 1 /\ stack'[t][n + 1].region = Len(regions) + 1
          /\ \A i \in 1..n : stack'[t][i] = stack[t][i]
      BY <3>1, <3>2, PushIs
    <3>4. \A i \in 1..n : stack[t][i].region \in 1..Len(regions)
      BY <3>1 DEF IInv, StacksNest, EntryOK
    <3>5. \A i \in 1..n : regions'[stack'[t][i].region].site = regions[stack[t][i].region].site
      BY <1>2, <3>3, <3>4
    <3>6. regions'[stack'[t][n + 1].region].site = s
      BY <1>1, <1>2, <3>3
    <3>7. Function(t) = IF n = 0 THEN Serial ELSE regions[stack[t][n].region].site
      BY <3>1, TopIs DEF IInv, Function
    <3>8. n = 0 => t = Main
      BY <1>5, <3>1, TopIs DEF IInv
    <3>9. ASSUME NEW i \in 1..(n + 1)
          PROVE  IF i = 1 THEN t = Main => Outer[regions'[stack'[t][1].region].site] = Serial
                 ELSE Outer[regions'[stack'[t][i].region].site]
                          = regions'[stack'[t][i - 1].region].site
      <4>1. CASE i = 1 /\ n = 0
        BY <1>3, <3>6, <3>7, <4>1
      <4>2. CASE i = 1 /\ n # 0
        <5>1. 1 \in 1..n
          BY <4>2
        <5>2. t = Main => Outer[regions[stack[t][1].region].site] = Serial
          BY <1>3, <3>1, <5>1 DEF Linked, LinkedIn
        <5> QED
          BY <3>5, <4>2, <5>1, <5>2
      <4>3. CASE i # 1 /\ i = n + 1
        <5>1. n \in 1..n /\ i - 1 = n /\ n # 0
          BY <4>3
        <5>2. regions'[stack'[t][n].region].site = Function(t)
          BY <3>5, <3>7, <5>1
        <5> QED
          BY <1>3, <3>6, <4>3, <5>1, <5>2
      <4>4. CASE i # 1 /\ i # n + 1
        <5>1. PICK j \in 1..n : j = i - 1 /\ i \in 1..n
          <6>1. i - 1 \in 1..n /\ i \in 1..n
            BY <4>4
          <6> QED
            BY <6>1
        <5>2. Outer[regions[stack[t][i].region].site] = regions[stack[t][j].region].site
          BY <1>3, <3>1, <4>4, <5>1 DEF Linked, LinkedIn
        <5> QED
          BY <3>5, <4>4, <5>1, <5>2
      <4> QED
        BY <4>1, <4>2, <4>3, <4>4
    <3> QED
      BY <2>3, <3>3, <3>9 DEF LinkedIn
  <2> QED
    BY <2>2, <2>3
<1>11. Linked'
  BY <1>10 DEF Linked
<1> QED
  BY <1>4, <1>8, <1>9, <1>11 DEF PathInv, PathsLead

\* A thread that has another last entry, of the same region.
LEMMA LastReplaced ==
    ASSUME OmpAssumption, IInv, NEW t \in Threads, LinkedIn(t), stack[t] # <<>>,
           NEW e \in Entry, e.region = Top(t).region, stack'[t] = Append(Front(stack[t]), e),
           \A k \in 1..Len(regions) : regions'[k].site = regions[k].site
    PROVE  LinkedIn(t)'
<1>1. /\ stack[t] \in Seq(Entry) /\ Len(stack[t]) \in Nat \ {0}
      /\ Top(t) = stack[t][Len(stack[t])]
  BY TopIs DEF IInv
<1>2. /\ Len(stack'[t]) = Len(stack[t]) /\ stack'[t][Len(stack[t])] = e
      /\ \A i \in 1..(Len(stack[t]) - 1) : stack'[t][i] = stack[t][i]
  BY <1>1, ReplaceIs
<1>3. \A i \in 1..Len(stack[t]) : i = Len(stack[t]) \/ i \in 1..(Len(stack[t]) - 1)
  BY <1>1
<1>4. \A i \in 1..Len(stack'[t]) : stack'[t][i].region = stack[t][i].region
  BY <1>1, <1>2, <1>3
<1>5. Len(stack'[t]) \in Nat /\ Len(stack'[t]) <= Len(stack[t])
  BY <1>1, <1>2
<1> QED
  BY <1>4, <1>5, LinkedKept

\* A thread that has lost its last entry.
LEMMA LastDropped ==
    ASSUME OmpAssumption, IInv, NEW t \in Threads, LinkedIn(t), stack[t] # <<>>,
           stack'[t] = Front(stack[t]),
           \A k \in 1..Len(regions) : regions'[k].site = regions[k].site
    PROVE  LinkedIn(t)'
<1>1. stack[t] \in Seq(Entry)
  BY TopIs DEF IInv
<1>2. /\ Len(stack[t]) \in Nat \ {0} /\ Len(stack'[t]) = Len(stack[t]) - 1
      /\ \A i \in 1..(Len(stack[t]) - 1) : stack'[t][i] = stack[t][i]
  BY <1>1, LastIs
<1>3. Len(stack'[t]) \in Nat /\ Len(stack'[t]) <= Len(stack[t])
      /\ \A i \in 1..Len(stack'[t]) : stack'[t][i].region = stack[t][i].region
  BY <1>2, SMTT(60)
<1> QED
  BY <1>3, LinkedKept

\* A thread whose stack stays.
LEMMA LinkStays ==
    ASSUME OmpAssumption, IInv, NEW u \in Threads, LinkedIn(u), stack'[u] = stack[u],
           \A k \in 1..Len(regions) : regions'[k].site = regions[k].site
    PROVE  LinkedIn(u)'
<1>1. Len(stack[u]) \in Nat
  BY TopIs DEF IInv
<1> QED
  BY <1>1, LinkedKept

LEMMA EnterPaths ==
    ASSUME OmpAssumption, IInv, IInv', PathInv, NEW t \in Threads, NEW k \in Nat, Enter(t, k)
    PROVE  PathInv'
<1>1. UNCHANGED <<regions, samples>>
  BY DEF Enter
<1>2. /\ k \in 1..Len(regions) /\ t \in regions[k].team /\ t \notin regions[k].through
      /\ IF t = regions[k].caller THEN Top(t) = [region |-> k, in |-> "team"] ELSE stack[t] = <<>>
  BY LenProperties DEF Enter, Called, IInv, TypeInv
<1>3. PICK e \in Entry : e = [region |-> k, in |-> "function"]
  BY DEF Entry
<1>4. stack' = [stack EXCEPT ![t] = Append(IF t = regions[k].caller THEN Front(@) ELSE @, e)]
  BY <1>3 DEF Enter
<1>5. LinkedIn(t) /\ \A u \in Threads : LinkedIn(u)
  BY DEF PathInv, PathsLead, Linked
<1>6. LinkedIn(t)'
  <2>1. CASE t = regions[k].caller
    <3>1. stack[t] # <<>>
      <4>1. \E i \in 1..Len(stack[t]) : stack[t][i].region = k
        BY <1>2, <2>1 DEF IInv, CallersWait, Complete
      <4>2. Len(stack[t]) # 0
        BY <4>1
      <4> QED
        BY <4>2, TopIs DEF IInv
    <3>2. stack'[t] = Append(Front(stack[t]), e) /\ e.region = Top(t).region
      BY <1>2, <1>3, <1>4, <2>1 DEF IInv, TypeInv
    <3> QED
      BY <1>1, <1>5, <3>1, <3>2, LastReplaced
  <2>2. CASE t # regions[k].caller
    <3>1. t # Main
      BY <1>2, <2>2 DEF IInv, MainCalls
    <3>2. stack'[t] = Append(<<>>, e)
      BY <1>2, <1>4, <2>2 DEF IInv, TypeInv
    <3>3. Len(stack'[t]) = 1
      BY <3>2
    <3> QED
      BY <3>1, <3>3 DEF LinkedIn
  <2> QED
    BY <2>1, <2>2
<1>7. ASSUME NEW u \in Threads, u # t PROVE LinkedIn(u)'
  <2>1. stack'[u] = stack[u]
    BY <1>4, <1>7 DEF IInv, TypeInv
  <2> QED
    BY <1>1, <1>5, <2>1, LinkStays
<1>8. Linked'
  BY <1>6, <1>7 DEF Linked
<1> QED
  BY <1>1, <1>8, PathsKept

LEMMA LeavePaths ==
    ASSUME OmpAssumption, IInv, IInv', PathInv, NEW t \in Threads, Leave(t)
    PROVE  PathInv'
<1>1. PICK k \in 1..Len(regions) :
          /\ k = Top(t).region
          /\ Len(regions') = Len(regions)
          /\ \A l \in 1..Len(regions) : /\ regions'[l].site = regions[l].site
                                        /\ regions'[l].path = regions[l].path
                                        /\ regions'[l].caller = regions[l].caller
  BY LeaveIs
<1>2. samples' = samples /\ stack[t] # <<>>
  BY DEF Leave, InFunction
<1>3. PICK e \in Entry : e = [region |-> k, in |-> "team"]
  <2>1. k \in Nat
    BY LenProperties DEF IInv, TypeInv
  <2> QED
    BY <2>1 DEF Entry
<1>4. stack' = [stack EXCEPT ![t] = IF t # regions[k].caller THEN Front(@) ELSE Append(Front(@), e)]
  BY <1>1, <1>3 DEF Leave
<1>5. LinkedIn(t) /\ \A u \in Threads : LinkedIn(u)
  BY DEF PathInv, PathsLead, Linked
<1>6. LinkedIn(t)'
  <2>1. CASE t = regions[k].caller
    <3>1. stack'[t] = Append(Front(stack[t]), e)
      BY <1>4, <2>1 DEF IInv, TypeInv
    <3>2. e.region = Top(t).region
      BY <1>1, <1>3
    <3> QED
      BY <1>1, <1>2, <1>5, <3>1, <3>2, LastReplaced
  <2>2. CASE t # regions[k].caller
    <3>1. stack'[t] = Front(stack[t])
      BY <1>4, <2>2 DEF IInv, TypeInv
    <3> QED
      BY <1>1, <1>2, <1>5, <3>1, LastDropped
  <2> QED
    BY <2>1, <2>2
<1>7. ASSUME NEW u \in Threads, u # t PROVE LinkedIn(u)'
  <2>1. stack'[u] = stack[u]
    BY <1>4, <1>7 DEF IInv, TypeInv
  <2> QED
    BY <1>1, <1>5, <2>1, LinkStays
<1>8. Linked'
  BY <1>6, <1>7 DEF Linked
<1> QED
  BY <1>1, <1>2, <1>8, PathsKept

LEMMA JoinPaths ==
    ASSUME OmpAssumption, IInv, IInv', PathInv, NEW t \in Threads, Join(t)
    PROVE  PathInv'
<1>1. UNCHANGED <<regions, samples>> /\ stack[t] # <<>>
      /\ stack' = [stack EXCEPT ![t] = Front(@)]
  BY DEF Join
<1>2. ASSUME NEW u \in Threads PROVE LinkedIn(u)'
  <2>1. LinkedIn(u)
    BY DEF PathInv, PathsLead, Linked
  <2>2. CASE u = t
    <3>1. stack'[u] = Front(stack[u])
      BY <1>1, <2>2 DEF IInv, TypeInv
    <3> QED
      BY <1>1, <2>1, <2>2, <3>1, LastDropped
  <2>3. CASE u # t
    <3>1. stack'[u] = stack[u]
      BY <1>1, <2>3 DEF IInv, TypeInv
    <3> QED
      BY <1>1, <2>1, <3>1, LinkStays
  <2> QED
    BY <2>2, <2>3
<1>3. Linked'
  BY <1>2 DEF Linked
<1> QED
  BY <1>1, <1>3, PathsKept

\* A sample has the calls on the stack of its thread, and the part it was taken in.
LEMMA SampleIs ==
    ASSUME OmpAssumption, IInv, Linked, NEW t \in Threads, NEW part \in {"fn", "loop"},
           Sample(t, part)
    PROVE  \E x : /\ samples' = samples (+) SetToBag({x}) /\ PlaceOf(x) /\ x.by = t
                  /\ t # Main => /\ stack[t] # <<>> /\ x.number = record_thread_gid[t]
                                 /\ From(x, regions[stack[t][1].region].site)
<1> DEFINE x == [path |-> Append(Path(t), <<part, Function(t)>>),
                 number |-> IF t = Main THEN MainGid ELSE record_thread_gid[t],
                 by |-> t,
                 in |-> IF stack[t] = <<>> THEN 0 ELSE Top(t).region]
<1>1. samples' = samples (+) SetToBag({x})
  BY DEF Sample
<1>2. /\ x.by = t /\ x.path = Append(Path(t), <<part, Function(t)>>)
      /\ x.in = IF stack[t] = <<>> THEN 0 ELSE Top(t).region
      /\ t # Main => x.number = record_thread_gid[t]
  OBVIOUS
<1> HIDE DEF x
<1>3. t # Main => stack[t] # <<>>
  BY InProgramIs DEF Sample, IInv, CountsTheProgram
<1>4. PICK q : /\ Chained(q, Function(t)) /\ Path(t) = IF t = Main THEN q ELSE Tail(q)
               /\ q[1][2] = IF t = Main THEN Serial ELSE regions[stack[t][1].region].site
               /\ t # Main => Len(q) = Len(stack[t])
  BY <1>3, RouteIs DEF Linked
<1>5. From(x, IF t = Main THEN Serial ELSE regions[stack[t][1].region].site)
  BY <1>2, <1>4, ZenonT(60) DEF From
<1>6. CASE t = Main
  <2>1. PlaceOf(x)
    BY <1>2, <1>5, <1>6 DEF PlaceOf
  <2> QED
    BY <1>1, <1>2, <1>6, <2>1
<1>7. CASE t # Main
  <2>1. PICK n \in Nat \ {0} : n = Len(stack[t])
    BY <1>3, <1>7, TopIs DEF IInv
  <2>2. Top(t) = stack[t][n] /\ x.in = stack[t][n].region
    BY <1>2, <1>3, <1>7, <2>1, TopIs DEF IInv
  <2>3. \A i \in 1..n : stack[t][i].region \in 1..Len(regions)
                        /\ regions[stack[t][i].region] \in Region
    BY <2>1, ElementOfSeq DEF IInv, StacksNest, EntryOK, TypeInv
  <2>4. x.in \in 1..Len(regions) /\ regions[stack[t][1].region].site \in Sites
    BY <2>2, <2>3 DEF Region
  <2>5. Function(t) = regions[x.in].site
    BY <1>2, <1>3, <1>7 DEF Function
  <2>6. ASSUME regions[x.in].caller # t PROVE x.path = <<<<part, regions[x.in].site>>>>
    <3>1. n = 1
      <4>1. EntryOK(t, n)
        BY <2>1 DEF IInv, StacksNest
      <4> QED
        BY <2>1, <2>2, <2>6, <4>1 DEF EntryOK
    <3>2. q \in CallPaths /\ q # <<>> /\ Len(q) = 1
      BY <1>4, <1>7, <2>1, <3>1 DEF Chained
    <3>3. Tail(q) = <<>>
      <4>1. PICK C : CallPaths = Seq(C)
        BY DEF CallPaths
      <4>2. Tail(q) \in Seq(C) /\ Len(Tail(q)) = 0
        BY <3>2, <4>1, HeadTailProperties
      <4> QED
        BY <4>2, EmptySeq
    <3>4. x.path = Append(<<>>, <<part, regions[x.in].site>>)
      BY <1>2, <1>4, <1>7, <2>5, <3>3
    <3> QED
      BY <3>4
  <2>7. PlaceOf(x)
    BY <1>2, <1>5, <1>7, <2>4, <2>6 DEF PlaceOf
  <2> QED
    BY <1>1, <1>2, <1>3, <1>5, <1>7, <2>7
<1> QED
  BY <1>6, <1>7

LEMMA SamplePaths ==
    ASSUME OmpAssumption, IInv, PathInv, NEW t \in Threads, NEW part \in {"fn", "loop"},
           Sample(t, part)
    PROVE  PathInv'
<1>1. UNCHANGED <<regions, stack>>
  BY DEF Sample
<1>2. PICK x : samples' = samples (+) SetToBag({x}) /\ PlaceOf(x)
  BY SampleIs DEF PathInv, PathsLead
<1>3. /\ DOMAIN samples' = DOMAIN samples \cup {x}
      /\ \A y \in DOMAIN samples' : samples'[y] = (IF y \in DOMAIN samples THEN samples[y] ELSE 0)
                                                  + (IF y = x THEN 1 ELSE 0)
  BY <1>2 DEF (+), SetToBag
<1>4. Counted'
  <2>1. IsFiniteSet(DOMAIN samples')
    <3>1. IsFiniteSet(DOMAIN samples)
      BY DEF PathInv, Counted
    <3> QED
      BY <1>3, <3>1, FS_AddElement
  <2> QED
    BY <1>3, <2>1 DEF PathInv, Counted
<1>5. ASSUME NEW y \in DOMAIN samples' PROVE PlaceOf(y)'
  <2>1. PlaceOf(y)
    BY <1>2, <1>3 DEF PathInv, PathsLead
  <2> QED
    BY <1>1, <2>1 DEF PlaceOf
<1>6. Linked' /\ \A k \in 1..Len(regions') :
                    /\ Chained(regions'[k].path, regions'[k].site)
                    /\ regions'[k].path[1][2] = Serial <=> regions'[k].caller = Main
  BY <1>1 DEF PathInv, PathsLead, Linked, LinkedIn
<1> QED
  BY <1>4, <1>5, <1>6 DEF PathInv, PathsLead

LEMMA StepPaths == ASSUME OmpAssumption, IInv, IInv', PathInv, [OmpNext]_sampler PROVE PathInv'
<1>1. ASSUME NEW t \in Threads, NEW s \in Sites, Fork(t, s) PROVE PathInv'
  BY <1>1, ForkPaths
<1>2. ASSUME NEW t \in Threads, NEW k \in 1..MaxRegions, Enter(t, k) PROVE PathInv'
  BY <1>2, EnterPaths
<1>3. ASSUME NEW t \in Threads, NEW part \in {"fn", "loop"}, Sample(t, part) PROVE PathInv'
  BY <1>3, SamplePaths
<1>4. ASSUME NEW t \in Threads, Leave(t) \/ Join(t) PROVE PathInv'
  BY <1>4, LeavePaths, JoinPaths
<1>5. CASE Exit \/ UNCHANGED sampler
  <2>1. UNCHANGED <<regions, stack, samples>>
    BY <1>5 DEF Exit, sampler
  <2>2. Linked'
    BY <2>1 DEF PathInv, PathsLead, Linked, LinkedIn
  <2> QED
    BY <2>1, <2>2, PathsKept
<1> QED
  BY <1>1, <1>2, <1>3, <1>4, <1>5 DEF OmpNext
-----------------------------------------------------------------------------
(* The numbers of nested executions                                          *)

\* A worker that calls GOMP_parallel has, from then on, the number of what it executed last.
\* Samples with the number of a worker were taken below the function it was taken into; an
\* edge from a call of the main thread leads to the function its samples were taken below.
OwnSamples(t) ==
    /\ \A x \in DOMAIN samples : x.by # Main /\ x.number = record_thread_gid[t]
                                     => From(x, regions[stack[t][1].region].site)
    /\ \A e \in ToSet(edges) : e.number = record_thread_gid[t] => e.path[1][2] # Serial
EdgeLeads(e) ==
    \E f \in Sites :
        /\ Chained(e.path, f)
        /\ e.path[1][2] = Serial => \A x \in DOMAIN samples : x.by # Main /\ x.number = e.number
                                                                  => From(x, f)
NumberInv == /\ \A t \in Threads : Running(t) => OwnSamples(t)
             /\ \A e \in ToSet(edges) : EdgeLeads(e)

\* What records nothing and leaves the first entry of every worker.
LEMMA NumbersKept ==
    ASSUME IInv, NumberInv, UNCHANGED <<samples, edges, record_thread_gid>>,
           \A k \in 1..Len(regions) : regions'[k].site = regions[k].site,
           \A u \in Threads : Running(u)' => Running(u) /\ stack'[u][1].region = stack[u][1].region
    PROVE  NumberInv'
<1>1. ASSUME NEW u \in Threads, Running(u)' PROVE OwnSamples(u)'
  <2>1. Running(u) /\ stack'[u][1].region = stack[u][1].region /\ OwnSamples(u)
    BY <1>1 DEF NumberInv
  <2>2. stack[u][1].region \in 1..Len(regions)
    BY <2>1, WorkerIsIn DEF IInv, Running
  <2>3. regions'[stack'[u][1].region].site = regions[stack[u][1].region].site
    BY <2>1, <2>2
  <2> QED
    BY <2>1, <2>3 DEF OwnSamples
<1>2. ASSUME NEW e \in ToSet(edges) PROVE EdgeLeads(e)'
  <2>1. EdgeLeads(e)
    BY DEF NumberInv
  <2> QED
    BY <2>1 DEF EdgeLeads
<1> QED
  BY <1>1, <1>2 DEF NumberInv

LEMMA ForkNumbers ==
    ASSUME OmpAssumption, IInv, NumberInv, NEW t \in Threads, NEW s \in Sites, Fork(t, s)
    PROVE  NumberInv'
<1>1. UNCHANGED <<samples, edges, record_thread_gid>>
  BY DEF Fork, locals
<1>2. \A k \in 1..Len(regions) : regions'[k].site = regions[k].site
  <2>1. PICK r \in Region : regions' = Append(regions, r)
    BY ForkIs
  <2> QED
    BY <2>1, PushIs DEF IInv, TypeInv
<1>3. ASSUME NEW u \in Threads, Running(u)'
      PROVE  Running(u) /\ stack'[u][1].region = stack[u][1].region
  <2>1. CASE u # t
    BY <1>3, <2>1 DEF Fork, Running, IInv, TypeInv
  <2>2. CASE u = t
    <3>1. t # Main /\ stack[t] # <<>>
      BY <1>3, <2>2, InProgramIs DEF Fork, IInv, Running
    <3>2. stack[t] \in Seq(Entry) /\ 1 \in 1..Len(stack[t])
      BY <3>1, TopIs DEF IInv
    <3>3. PICK e \in Entry : e = [region |-> Len(regions) + 1, in |-> "team"]
      <4>1. Len(regions) + 1 \in Nat
        BY LenProperties DEF IInv, TypeInv
      <4> QED
        BY <4>1 DEF Entry
    <3>4. stack'[t] = Append(stack[t], e)
      BY <3>3 DEF Fork, IInv, TypeInv
    <3> QED
      BY <2>2, <3>1, <3>2, <3>4, PushIs DEF Running
  <2> QED
    BY <2>1, <2>2
<1> QED
  BY <1>1, <1>2, <1>3, NumbersKept

LEMMA JoinNumbers ==
    ASSUME OmpAssumption, IInv, NumberInv, NEW t \in Threads, Join(t)
    PROVE  NumberInv'
<1>1. UNCHANGED <<samples, edges, record_thread_gid, regions>> /\ stack[t] # <<>>
  BY DEF Join, locals
<1>2. ASSUME NEW u \in Threads, Running(u)'
      PROVE  Running(u) /\ stack'[u][1].region = stack[u][1].region
  <2>1. CASE u # t
    BY <1>2, <2>1 DEF Join, Running, IInv, TypeInv
  <2>2. CASE u = t
    <3>1. stack[t] \in Seq(Entry) /\ stack'[t] = Front(stack[t])
      BY TopIs DEF Join, IInv, TypeInv
    <3>2. /\ Front(stack[t]) \in Seq(Entry) /\ Len(Front(stack[t])) = Len(stack[t]) - 1
          /\ Len(stack[t]) \in Nat \ {0}
          /\ \A i \in 1..(Len(stack[t]) - 1) : Front(stack[t])[i] = stack[t][i]
      BY <1>1, <3>1, LastIs
    <3>3. stack'[t] # <<>>
      BY <1>2, <2>2 DEF Running
    <3>4. Len(stack[t]) - 1 # 0
      BY <3>1, <3>2, <3>3, EmptySeq
    <3>5. 1 \in 1..(Len(stack[t]) - 1)
      <4>1. PICK m \in Nat \ {0} : m = Len(stack[t])
        BY <3>2
      <4>2. m - 1 # 0 /\ Len(stack[t]) - 1 = m - 1
        BY <3>4, <4>1
      <4>3. 1 \in 1..(m - 1)
        BY <4>2
      <4> QED
        BY <4>2, <4>3
    <3> QED
      BY <1>1, <1>2, <2>2, <3>1, <3>2, <3>5 DEF Running
  <2> QED
    BY <2>1, <2>2
<1> QED
  BY <1>1, <1>2, NumbersKept

\* A new number is no sample's and no edge's.
LEMMA EnterNumbers ==
    ASSUME OmpAssumption, IInv, EdgeInv, NumberInv, NEW t \in Threads, NEW k \in Nat, Enter(t, k)
    PROVE  NumberInv'
<1>1. PICK n \in Nat : n = Tid(t, thread_global_id) /\ n \notin Used
  <2>1. thread_global_id \in Nat \ {0} /\ Cores \in Nat
    BY DEF EdgeInv, NumbersGrow, OmpAssumption
  <2>2. PICK n \in Nat : n = Tid(t, thread_global_id)
    BY <2>1, TidIs
  <2>3. thread_global_id * Cores \in Nat /\ thread_global_id * Cores <= n
    BY <2>1, <2>2, TidIs
  <2>4. n \notin Used
    BY <2>1, <2>3 DEF Used
  <2> QED
    BY <2>2, <2>4
<1>2. /\ UNCHANGED <<regions, samples, edges>>
      /\ record_thread_gid' = [record_thread_gid EXCEPT ![t] = n]
      /\ \A u \in Threads : u # t => stack'[u] = stack[u]
  BY <1>1 DEF Enter, IInv, TypeInv
<1>3. ASSUME NEW u \in Threads, Running(u)' PROVE OwnSamples(u)'
  <2>1. CASE u = t
    <3>1. record_thread_gid'[t] = n
      BY <1>2 DEF EdgeInv, NumbersGrow
    <3>2. /\ \A x \in DOMAIN samples : x.by # Main => x.number # n
          /\ \A e \in ToSet(edges) : e.number # n
      BY <1>1 DEF EdgeInv, NumbersGrow
    <3> QED
      BY <1>2, <2>1, <3>1, <3>2 DEF OwnSamples
  <2>2. CASE u # t
    <3>1. Running(u) /\ stack'[u] = stack[u] /\ record_thread_gid'[u] = record_thread_gid[u]
      BY <1>2, <1>3, <2>2 DEF Running, EdgeInv, NumbersGrow
    <3>2. OwnSamples(u)
      BY <3>1 DEF NumberInv
    <3> QED
      BY <1>2, <3>1, <3>2 DEF OwnSamples
  <2> QED
    BY <2>1, <2>2
<1>4. ASSUME NEW e \in ToSet(edges) PROVE EdgeLeads(e)'
  <2>1. EdgeLeads(e)
    BY DEF NumberInv
  <2> QED
    BY <1>2, <2>1 DEF EdgeLeads
<1> QED
  BY <1>2, <1>3, <1>4 DEF NumberInv

\* A sample of a worker has its number, which no edge from the main thread has yet.
LEMMA SampleNumbers ==
    ASSUME OmpAssumption, IInv, EdgeInv, PathInv, NumberInv, NEW t \in Threads,
           NEW part \in {"fn", "loop"}, Sample(t, part)
    PROVE  NumberInv'
<1>1. UNCHANGED <<regions, stack, edges, record_thread_gid>>
  BY DEF Sample
<1>2. PICK x : /\ samples' = samples (+) SetToBag({x}) /\ x.by = t
               /\ t # Main => /\ stack[t] # <<>> /\ x.number = record_thread_gid[t]
                              /\ From(x, regions[stack[t][1].region].site)
  BY SampleIs DEF PathInv, PathsLead
<1>3. DOMAIN samples' = DOMAIN samples \cup {x}
  BY <1>2 DEF (+), SetToBag
<1>4. t # Main => Running(t) /\ OwnSamples(t)
  BY <1>2 DEF Running, NumberInv
<1>5. ASSUME NEW u \in Threads, Running(u)' PROVE OwnSamples(u)'
  <2>1. Running(u) /\ OwnSamples(u)
    BY <1>1, <1>5 DEF Running, NumberInv
  <2>2. ASSUME NEW y \in DOMAIN samples', y.by # Main, y.number = record_thread_gid[u]
        PROVE  From(y, regions[stack[u][1].region].site)
    <3>1. CASE y \in DOMAIN samples
      BY <2>1, <2>2, <3>1 DEF OwnSamples
    <3>2. CASE y = x
      <4>1. u = t
        BY <1>2, <1>4, <2>1, <2>2, <3>2 DEF EdgeInv, NumbersGrow
      <4> QED
        BY <1>2, <2>2, <3>2, <4>1
    <3> QED
      BY <1>3, <3>1, <3>2
  <2>3. \A e \in ToSet(edges) : e.number = record_thread_gid[u] => e.path[1][2] # Serial
    BY <2>1 DEF OwnSamples
  <2> QED
    BY <1>1, <2>2, <2>3 DEF OwnSamples
<1>6. ASSUME NEW e \in ToSet(edges) PROVE EdgeLeads(e)'
  <2>1. PICK f \in Sites :
            /\ Chained(e.path, f)
            /\ e.path[1][2] = Serial => \A y \in DOMAIN samples : y.by # Main /\ y.number = e.number
                                                                      => From(y, f)
    BY DEF NumberInv, EdgeLeads
  <2>2. x.by # Main /\ x.number = e.number => e.path[1][2] # Serial
    BY <1>2, <1>4 DEF OwnSamples
  <2> QED
    BY <1>3, <2>1, <2>2 DEF EdgeLeads
<1> QED
  BY <1>1, <1>5, <1>6 DEF NumberInv

\* A worker leaves a region of the main thread when it goes back to be idle.
LEMMA LeaveNumbers ==
    ASSUME OmpAssumption, IInv, IInv', EdgeInv, PathInv, NumberInv, NEW t \in Threads, Leave(t)
    PROVE  NumberInv'
<1>1. PICK k \in 1..Len(regions) :
          /\ k = Top(t).region
          /\ \A l \in 1..Len(regions) : regions'[l].site = regions[l].site
  BY LeaveIs
<1>2. /\ UNCHANGED <<record_thread_gid, samples>> /\ stack[t] # <<>>
      /\ \A u \in Threads : u # t => stack'[u] = stack[u]
  BY DEF Leave, InFunction, locals, IInv, TypeInv
<1> DEFINE e == [path |-> regions[k].path, number |-> record_thread_gid[t]]
<1>3. ToSet(edges') \subseteq ToSet(edges) \cup (IF t = Main THEN {} ELSE {e})
  <2>1. e \in Edge
    <3>1. regions[k] \in Region
      BY ElementOfSeq DEF IInv, TypeInv
    <3> QED
      BY <3>1 DEF Region, Edge, EdgeInv, NumbersGrow
  <2>2. edges' = IF t = Main \/ ~record_perf_data_flag[t] THEN edges ELSE Append(edges, e)
    BY <1>1 DEF Leave
  <2>3. edges \in Seq(Edge)
    BY DEF EdgeInv, NumbersGrow
  <2> HIDE DEF e
  <2>4. ToSet(Append(edges, e)) = ToSet(edges) \cup {e}
    BY <2>1, <2>3, ToSetAppend
  <2> QED
    BY <2>2, <2>4
<1>4. e.path = regions[k].path /\ e.number = record_thread_gid[t]
  OBVIOUS
<1> HIDE DEF e
<1>5. /\ Chained(regions[k].path, regions[k].site) /\ regions[k].site \in Sites
      /\ regions[k].path[1][2] = Serial <=> regions[k].caller = Main
  <2>1. regions[k] \in Region
    BY ElementOfSeq DEF IInv, TypeInv
  <2> QED
    BY <2>1 DEF PathInv, PathsLead, Region
<1>6. t # Main => Running(t) /\ OwnSamples(t)
  BY <1>2 DEF Running, NumberInv
<1>7. PICK n \in Nat \ {0} : n = Len(stack[t]) /\ stack[t][n].region = k
  BY <1>1, <1>2, TopIs DEF IInv
<1>8. EntryOK(t, n)
  BY <1>7 DEF IInv, StacksNest
<1>9. t # Main => (n = 1 <=> regions[k].caller # t)
  BY <1>7, <1>8 DEF EntryOK
<1>10. ASSUME NEW u \in Threads, Running(u)', u = t
       PROVE  regions[k].caller = t /\ stack'[t][1].region = stack[t][1].region
  <2>1. stack[t] \in Seq(Entry) /\ stack'[t] # <<>> /\ t # Main
    BY <1>10, TopIs DEF Running, IInv
  <2>2. regions[k].caller = t
    <3>1. SUFFICES ASSUME regions[k].caller # t PROVE FALSE
      OBVIOUS
    <3>2. stack'[t] = Front(stack[t])
      BY <1>1, <3>1 DEF Leave, IInv, TypeInv
    <3>3. Front(stack[t]) \in Seq(Entry) /\ Len(Front(stack[t])) = 0
      BY <1>2, <1>7, <1>9, <2>1, <3>1, LastIs
    <3> QED
      BY <2>1, <3>2, <3>3, EmptySeq
  <2>3. n # 1
    BY <1>9, <2>1, <2>2
  <2>4. PICK d \in Entry : d = [region |-> k, in |-> "team"]
    <3>1. k \in Nat
      BY LenProperties DEF IInv, TypeInv
    <3> QED
      BY <3>1 DEF Entry
  <2>5. stack'[t] = Append(Front(stack[t]), d)
    BY <1>1, <2>2, <2>4 DEF Leave, IInv, TypeInv
  <2>6. \A i \in 1..(n - 1) : stack'[t][i] = stack[t][i]
    BY <1>2, <1>7, <2>1, <2>5, ReplaceIs, SMTT(60)
  <2>7. 1 \in 1..(n - 1)
    BY <2>3
  <2> QED
    BY <2>2, <2>6, <2>7
<1>11. ASSUME NEW u \in Threads, Running(u)' PROVE OwnSamples(u)'
  <2>1. Running(u) /\ stack'[u][1].region = stack[u][1].region
    BY <1>2, <1>10, <1>11 DEF Running
  <2>2. OwnSamples(u) /\ stack[u][1].region \in 1..Len(regions)
    BY <2>1, WorkerIsIn DEF NumberInv, Running, IInv
  <2>3. regions'[stack'[u][1].region].site = regions[stack[u][1].region].site
    BY <1>1, <2>1, <2>2
  <2>4. ASSUME NEW d \in ToSet(edges'), d.number = record_thread_gid[u]
        PROVE  d.path[1][2] # Serial
    <3>1. CASE d \in ToSet(edges)
      BY <2>2, <2>4, <3>1 DEF OwnSamples
    <3>2. CASE d # e
      BY <1>3, <3>1, <3>2
    <3>3. CASE d = e /\ t # Main
      <4>1. u = t
        BY <1>4, <1>6, <2>1, <2>4, <3>3 DEF EdgeInv, NumbersGrow
      <4>2. regions[k].caller = t
        BY <1>10, <1>11, <4>1
      <4> QED
        BY <1>4, <1>5, <3>3, <4>2
    <3> QED
      BY <1>3, <3>1, <3>2, <3>3
  <2> QED
    BY <1>2, <2>2, <2>3, <2>4 DEF OwnSamples
<1>12. ASSUME NEW d \in ToSet(edges') PROVE EdgeLeads(d)'
  <2>1. CASE d \in ToSet(edges)
    <3>1. EdgeLeads(d)
      BY <2>1 DEF NumberInv
    <3> QED
      BY <1>2, <3>1 DEF EdgeLeads
  <2>2. CASE d = e /\ t # Main
    <3>1. ASSUME e.path[1][2] = Serial, NEW x \in DOMAIN samples, x.by # Main, x.number = e.number
          PROVE  From(x, regions[k].site)
      <4>1. stack[t][1].region = k
        BY <1>4, <1>5, <1>7, <1>9, <2>2, <3>1
      <4> QED
        BY <1>4, <1>6, <2>2, <3>1, <4>1 DEF OwnSamples
    <3> QED
      BY <1>2, <1>4, <1>5, <2>2, <3>1 DEF EdgeLeads
  <2> QED
    BY <1>3, <2>1, <2>2
<1> QED
  BY <1>11, <1>12 DEF NumberInv

LEMMA StepNumbers ==
    ASSUME OmpAssumption, IInv, IInv', EdgeInv, PathInv, NumberInv, [OmpNext]_sampler
    PROVE  NumberInv'
<1>1. ASSUME NEW t \in Threads, NEW s \in Sites, Fork(t, s) PROVE NumberInv'
  BY <1>1, ForkNumbers
<1>2. ASSUME NEW t \in Threads, NEW k \in 1..MaxRegions, Enter(t, k) PROVE NumberInv'
  BY <1>2, EnterNumbers
<1>3. ASSUME NEW t \in Threads, NEW part \in {"fn", "loop"}, Sample(t, part) PROVE NumberInv'
  BY <1>3, SampleNumbers
<1>4. ASSUME NEW t \in Threads, Leave(t) \/ Join(t) PROVE NumberInv'
  BY <1>4, LeaveNumbers, JoinNumbers
<1>5. CASE Exit \/ UNCHANGED sampler
  <2>1. UNCHANGED <<regions, stack, samples, edges, record_thread_gid>>
    BY <1>5 DEF Exit, sampler, locals
  <2> QED
    BY <2>1, NumbersKept DEF Running
<1> QED
  BY <1>1, <1>2, <1>3, <1>4, <1>5 DEF OmpNext
-----------------------------------------------------------------------------
(* The graph and the search in it                                            *)

Nodes == ({"call"} \X Sites) \cup ({"fn", "loop"} \X Functions)

CallsIn(f) == {s \in Sites : Outer[s] = f}
KidsOfFn(f) == {<<"loop", f>>} \cup {<<"call", s>> : s \in CallsIn(f)}

\* The calls in a function, each once.
Inside(f) == Selected(Order, {i \in DOMAIN Order : Outer[Order[i]] = f})
LEMMA InsideIs ==
    ASSUME OrderAssumption, NEW f
    PROVE  \E m \in Nat :
              /\ Len(Inside(f)) = m /\ DOMAIN Inside(f) = 1..m
              /\ \A i \in 1..m : Inside(f)[i] \in CallsIn(f)
              /\ \A c \in CallsIn(f) : \E i \in 1..m : Inside(f)[i] = c
              /\ \A i, j \in 1..m : Inside(f)[i] = Inside(f)[j] => i = j
<1>1. Order \in Seq(Sites) /\ DOMAIN Order = 1..Len(Order) /\ IsSequence(Order) /\ ToSet(Order) = Sites
      /\ Len(Order) \in Nat
  BY LenProperties DEF OrderAssumption, IsSequence
<1>2. \A i, j \in 1..Len(Order) : Order[i] = Order[j] => i = j
  BY <1>1 DEF OrderAssumption, IsInjective
<1>3. PICK S \in SUBSET (1..Len(Order)) : S = {i \in DOMAIN Order : Outer[Order[i]] = f}
  BY <1>1
<1>4. PICK s : s = Selected(Order, S) /\ s = Inside(f)
  BY <1>3 DEF Inside
<1>5. PICK m \in Nat : m = Cardinality(S)
  BY <1>1, SelectedIs
<1>6. /\ Len(s) = m /\ DOMAIN s = 1..m
      /\ \A n \in 1..m : Nth(S, n) \in S /\ s[n] = Order[Nth(S, n)]
      /\ \A i \in S : \E n \in 1..m : Nth(S, n) = i
      /\ \A i, n \in 1..m : i < n => Nth(S, i) < Nth(S, n)
  <2>1. /\ Len(Selected(Order, S)) = Cardinality(S) /\ DOMAIN Selected(Order, S) = 1..Cardinality(S)
        /\ \A n \in 1..Cardinality(S) :
              Nth(S, n) \in S /\ Selected(Order, S)[n] = Order[Nth(S, n)]
        /\ \A i \in S : \E n \in 1..Cardinality(S) : Nth(S, n) = i
        /\ \A i, n \in 1..Cardinality(S) : i < n => Nth(S, i) < Nth(S, n)
    BY <1>1, SelectedIs
  <2> QED
    BY <1>4, <1>5, <2>1
<1>7. \A i \in S : i \in 1..Len(Order) /\ i \in Int
  BY <1>1
<1>8. \A i \in S : Order[i] \in CallsIn(f)
  <2>1. \A i \in S : Order[i] \in Sites /\ Outer[Order[i]] = f
    BY <1>1, <1>3, ElementOfSeq
  <2> QED
    BY <2>1 DEF CallsIn
<1>9. \A c \in CallsIn(f) : \E i \in S : Order[i] = c
  BY <1>1, <1>3 DEF CallsIn, ToSet
<1>10. ASSUME NEW i \in 1..m, NEW j \in 1..m, s[i] = s[j] PROVE i = j
  <2>1. PICK a \in S, b \in S : a = Nth(S, i) /\ b = Nth(S, j)
    BY <1>6
  <2>2. a = b /\ a \in Int
    BY <1>2, <1>6, <1>7, <1>10, <2>1
  <2>3. ~(a < a)
    BY <2>2
  <2>4. ASSUME i < j PROVE FALSE
    <3>1. Nth(S, i) < Nth(S, j)
      BY <1>6, <2>4
    <3> QED
      BY <2>1, <2>2, <2>3, <3>1
  <2>5. ASSUME j < i PROVE FALSE
    <3>1. Nth(S, j) < Nth(S, i)
      BY <1>6, <2>5
    <3> QED
      BY <2>1, <2>2, <2>3, <3>1
  <2> QED
    BY <2>4, <2>5
<1>11. \A i \in 1..m : s[i] \in CallsIn(f)
  BY <1>6, <1>8
<1>12. \A c \in CallsIn(f) : \E i \in 1..m : s[i] = c
  <2>1. ASSUME NEW c \in CallsIn(f) PROVE \E i \in 1..m : s[i] = c
    <3>1. PICK a \in S : Order[a] = c
      BY <1>9
    <3>2. PICK n \in 1..m : Nth(S, n) = a
      BY <1>6
    <3> QED
      BY <1>6, <3>1, <3>2
  <2> QED
    BY <2>1
<1> QED
  BY <1>4, <1>6, <1>10, <1>11, <1>12

\* What is below a vertex, each once.
KidSet(v) == IF v[1] = "loop" THEN {}
             ELSE IF v[1] = "call" THEN IF v[2] \in Connected THEN {<<"fn", v[2]>>} ELSE {}
             ELSE KidsOfFn(v[2])
LEMMA KidsIs ==
    ASSUME OmpAssumption, OrderAssumption, NEW v \in Nodes
    PROVE  /\ Kids(v) \in Seq(Nodes) /\ Len(Kids(v)) \in Nat /\ DOMAIN Kids(v) = 1..Len(Kids(v))
           /\ \A i, j \in 1..Len(Kids(v)) : Kids(v)[i] = Kids(v)[j] => i = j
           /\ ToSet(Kids(v)) = KidSet(v) /\ KidSet(v) \subseteq Nodes
<1>1. CASE v[1] = "loop"
  <2>1. Kids(v) = <<>> /\ KidSet(v) = {}
    BY <1>1 DEF Kids, KidSet
  <2> QED
    BY <2>1, EmptySeq DEF ToSet
<1>2. CASE v[1] = "call" /\ v[2] \notin Connected
  <2>1. Kids(v) = <<>> /\ KidSet(v) = {}
    BY <1>2 DEF Kids, KidSet
  <2> QED
    BY <2>1, EmptySeq DEF ToSet
<1>3. CASE v[1] = "call" /\ v[2] \in Connected
  <2>1. Kids(v) = <<<<"fn", v[2]>>>> /\ KidSet(v) = {<<"fn", v[2]>>}
    BY <1>3 DEF Kids, KidSet
  <2>2. <<"fn", v[2]>> \in Nodes
    BY <1>3 DEF Nodes, Functions
  <2> QED
    BY <2>1, <2>2 DEF ToSet
<1>4. CASE v[1] = "fn"
  <2>1. PICK f \in Functions : v = <<"fn", f>>
    BY <1>4 DEF Nodes
  <2>2. PICK s : s = Inside(f)
    OBVIOUS
  <2>3. PICK m \in Nat :
            /\ Len(s) = m /\ DOMAIN s = 1..m
            /\ \A i \in 1..m : s[i] \in CallsIn(f)
            /\ \A c \in CallsIn(f) : \E i \in 1..m : s[i] = c
            /\ \A i, j \in 1..m : s[i] = s[j] => i = j
    BY <2>2, InsideIs
  <2>5. PICK calls : calls = [i \in 1..m |-> <<"call", s[i]>>]
    OBVIOUS
  <2>6. calls \in Seq(Nodes) /\ Len(calls) = m /\ \A i \in 1..m : calls[i] = <<"call", s[i]>>
    <3>1. \A i \in 1..m : <<"call", s[i]>> \in Nodes
      BY <2>3 DEF Nodes, CallsIn
    <3> QED
      BY <2>5, <3>1, IsASeq
  <2>7. PICK first \in Seq(Nodes) : first = <<<<"loop", f>>>> /\ Len(first) = 1 /\ first[1] = <<"loop", f>>
    <3>1. <<"loop", f>> \in Nodes
      BY DEF Nodes
    <3>2. PICK u \in Nodes : u = <<"loop", f>>
      BY <3>1
    <3>3. <<u>> \in Seq(Nodes) /\ Len(<<u>>) = 1 /\ <<u>>[1] = u
      OBVIOUS
    <3> QED
      BY <3>2, <3>3
  <2>8. Kids(v) = first \o calls
    <3>1. Kids(v) = <<<<"loop", f>>>> \o [i \in DOMAIN Inside(f) |-> <<"call", Inside(f)[i]>>]
      BY <2>1 DEF Kids, Inside
    <3> QED
      BY <2>2, <2>3, <2>5, <2>7, <3>1
  <2>9. /\ first \o calls \in Seq(Nodes) /\ Len(first \o calls) = Len(first) + Len(calls)
        /\ \A i \in 1..(Len(first) + Len(calls)) :
              (first \o calls)[i] = IF i <= Len(first) THEN first[i] ELSE calls[i - Len(first)]
    BY <2>6, <2>7, ConcatProperties
  <2>10. PICK k : k = first \o calls
    OBVIOUS
  <2>11. /\ k \in Seq(Nodes) /\ Len(k) = m + 1 /\ k[1] = <<"loop", f>>
         /\ \A i \in 1..m : k[i + 1] = <<"call", s[i]>>
    <3>1. \A i \in 1..m : k[i + 1] = calls[i]
      BY <2>6, <2>7, <2>9, <2>10
    <3>2. k[1] = first[1]
      BY <2>6, <2>7, <2>9, <2>10
    <3> QED
      BY <2>6, <2>7, <2>9, <2>10, <3>1, <3>2
  <2>12. \A i \in 1..(m + 1) : i = 1 \/ \E j \in 1..m : i = j + 1
    <3>1. \A i \in 1..(m + 1) : i # 1 => i - 1 \in 1..m /\ i = (i - 1) + 1
      OBVIOUS
    <3> QED
      BY <3>1
  <2>13. DOMAIN k = 1..(m + 1)
    BY <2>11, LenProperties
  <2>14. ToSet(k) = KidsOfFn(f)
    <3>1. ASSUME NEW u \in ToSet(k) PROVE u \in KidsOfFn(f)
      <4>1. PICK i \in 1..(m + 1) : u = k[i]
        BY <2>13 DEF ToSet
      <4>2. CASE i = 1
        BY <2>11, <4>1, <4>2 DEF KidsOfFn
      <4>3. CASE i # 1
        <5>1. PICK j \in 1..m : i = j + 1
          BY <2>12, <4>3
        <5>2. u = <<"call", s[j]>> /\ s[j] \in CallsIn(f)
          BY <2>3, <2>11, <4>1, <5>1
        <5> QED
          BY <5>2 DEF KidsOfFn
      <4> QED
        BY <4>2, <4>3
    <3>2. ASSUME NEW u \in KidsOfFn(f) PROVE u \in ToSet(k)
      <4>1. CASE u = <<"loop", f>>
        <5>1. 1 \in 1..(m + 1)
          OBVIOUS
        <5> QED
          BY <2>11, <2>13, <4>1, <5>1 DEF ToSet
      <4>2. CASE u # <<"loop", f>>
        <5>1. PICK c \in CallsIn(f) : u = <<"call", c>>
          BY <3>2, <4>2 DEF KidsOfFn
        <5>2. PICK i \in 1..m : s[i] = c
          BY <2>3
        <5>3. i + 1 \in 1..(m + 1) /\ k[i + 1] = u
          BY <2>11, <5>1, <5>2
        <5> QED
          BY <2>13, <5>3 DEF ToSet
      <4> QED
        BY <4>1, <4>2
    <3> QED
      BY <3>1, <3>2
  <2>15. ASSUME NEW i \in 1..(m + 1), NEW j \in 1..(m + 1), k[i] = k[j] PROVE i = j
    <3>1. \A n \in 1..m : k[n + 1] # k[1]
      <4>1. ASSUME NEW n \in 1..m, k[n + 1] = k[1] PROVE FALSE
        <5>1. <<"call", s[n]>> = <<"loop", f>>
          BY <2>11, <4>1
        <5> QED
          BY ONLY <5>1
      <4> QED
        BY <4>1
    <3>2. CASE i = 1 \/ j = 1
      <4>1. CASE i # 1
        <5>1. PICK n \in 1..m : i = n + 1
          BY <2>12, <4>1
        <5> QED
          BY <2>15, <3>1, <3>2, <4>1, <5>1
      <4>2. CASE j # 1
        <5>1. PICK n \in 1..m : j = n + 1
          BY <2>12, <4>2
        <5> QED
          BY <2>15, <3>1, <3>2, <4>2, <5>1
      <4> QED
        BY <3>2, <4>1, <4>2
    <3>3. CASE i # 1 /\ j # 1
      <4>1. PICK x \in 1..m : i = x + 1
        BY <2>12, <3>3
      <4>2. PICK y \in 1..m : j = y + 1
        BY <2>12, <3>3
      <4>3. k[i] = <<"call", s[x]>> /\ k[j] = <<"call", s[y]>>
        BY <2>11, <4>1, <4>2
      <4>4. s[x] = s[y]
        <5>1. <<"call", s[x]>> = <<"call", s[y]>>
          BY <2>15, <4>3
        <5> QED
          BY ONLY <5>1
      <4> QED
        BY <2>3, <4>1, <4>2, <4>4
    <3> QED
      BY <3>2, <3>3
  <2>16. KidSet(v) = KidsOfFn(f) /\ KidsOfFn(f) \subseteq Nodes
    BY <2>1 DEF KidSet, KidsOfFn, Nodes, CallsIn
  <2> QED
    BY <2>8, <2>10, <2>11, <2>13, <2>14, <2>15, <2>16
<1> QED
  BY <1>1, <1>2, <1>3, <1>4 DEF Nodes

\* The results of the search for the first addresses, by the sets of numbers that FoldLeft
\* goes through.
IsSearch(H, w, path, S) ==
    H = [V \in SUBSET S |-> IF V = {} THEN w ELSE Descend(H[V \ {Max(V)}], path[Max(V)])]

LEMMA SearchExists ==
    ASSUME NEW w, NEW path, NEW n \in Nat
    PROVE  \E H : IsSearch(H, w, path, 1..n)
<1> DEFINE T == {m \in Nat : ~\E H : IsSearch(H, w, path, 1..m)}
<1>1. SUFFICES ASSUME T # {} PROVE FALSE
  OBVIOUS
<1>2. PICK m \in T : \A k \in T : m <= k
  <2>1. T \in SUBSET Nat
    OBVIOUS
  <2> HIDE DEF T
  <2> QED
    BY <1>1, <2>1, LeastNumber
<1>3. m # 0
  <2>1. SUBSET (1..0) = {{}}
    OBVIOUS
  <2>2. PICK H : H = [V \in {{}} |-> w]
    OBVIOUS
  <2>3. H = [V \in SUBSET (1..0) |->
               IF V = {} THEN w ELSE Descend(H[V \ {Max(V)}], path[Max(V)])]
    BY <2>1, <2>2
  <2>4. IsSearch(H, w, path, 1..0)
    BY <2>3 DEF IsSearch
  <2> QED
    BY <2>4
<1>4. m \in Nat /\ m - 1 \in Nat /\ m - 1 \notin T
  BY <1>2, <1>3
<1>5. PICK H : IsSearch(H, w, path, 1..(m - 1))
  BY <1>4
<1> DEFINE K == [V \in SUBSET (1..m) |->
                   IF m \in V THEN Descend(H[V \ {m}], path[m]) ELSE H[V]]
<1>6. ASSUME NEW V \in SUBSET (1..m)
      PROVE  K[V] = IF V = {} THEN w ELSE Descend(K[V \ {Max(V)}], path[Max(V)])
  <2>1. CASE m \in V
    <3>1. Max(V) = m
      <4>1. m \in V /\ \A y \in V : m >= y
        BY <2>1, <1>4
      <4>2. \A x \in V : (\A y \in V : x >= y) => x = m
        BY <4>1, <1>4
      <4> QED
        BY <4>1, <4>2 DEF Max
    <3>2. V \ {m} \in SUBSET (1..m) /\ m \notin V \ {m}
      OBVIOUS
    <3>3. K[V \ {m}] = H[V \ {m}]
      BY <3>2
    <3> HIDE DEF K
    <3>4. K[V] = Descend(H[V \ {m}], path[m])
      BY <2>1 DEF K
    <3> QED
      BY <2>1, <3>1, <3>3, <3>4
  <2>2. CASE m \notin V
    <3>1. V \in SUBSET (1..(m - 1)) /\ V \ {Max(V)} \in SUBSET (1..m) /\ m \notin V \ {Max(V)}
      <4>1. \A i \in V : i \in 1..(m - 1)
        BY <2>2, <1>4
      <4> QED
        BY <2>2, <4>1
    <3>2. K[V] = H[V] /\ K[V \ {Max(V)}] = H[V \ {Max(V)}]
      BY <2>2, <3>1
    <3> HIDE DEF K
    <3>3. H[V] = IF V = {} THEN w ELSE Descend(H[V \ {Max(V)}], path[Max(V)])
      BY <1>5, <3>1 DEF IsSearch
    <3> QED
      BY <3>2, <3>3
  <2> QED
    BY <2>1, <2>2
<1>7. IsSearch(K, w, path, 1..m)
  <2>1. K = [V \in SUBSET (1..m) |-> K[V]]
    OBVIOUS
  <2> HIDE DEF K
  <2> QED
    BY <1>6, <2>1 DEF IsSearch
<1> HIDE DEF K
<1> QED
  BY <1>2, <1>7

\* The addresses are taken one after the other.
Start(v) == [at |-> v, ends |-> FALSE]
Goes(F, v, path, n) == /\ F[0] = Start(v) /\ F[n].at = Find(v, path)
                       /\ \A k \in 1..n : F[k] = Descend(F[k - 1], path[k])
LEMMA SearchIs ==
    ASSUME NEW v, NEW path, NEW n \in Nat, DOMAIN path = 1..n
    PROVE  \E F : Goes(F, v, path, n)
<1>1. PICK w : w = Start(v)
  OBVIOUS
<1>2. PICK H : IsSearch(H, w, path, DOMAIN path) /\ FoldLeft(Descend, w, path) = H[DOMAIN path]
  <2>1. \E H : IsSearch(H, w, path, DOMAIN path)
    BY SearchExists
  <2> QED
    BY <2>1, ZenonT(40) DEF IsSearch, FoldLeft, MapThenFoldSet
<1>3. IsSearch(H, w, path, 1..n)
  BY <1>2
<1> DEFINE F == [k \in 0..n |-> H[1..k]]
<1>4. F[0] = w
  <2>1. 1..0 = {} /\ {} \in SUBSET (1..n)
    OBVIOUS
  <2>2. H[{}] = w
    BY <1>3, <2>1 DEF IsSearch
  <2>3. F[0] = H[1..0]
    OBVIOUS
  <2> HIDE DEF F
  <2> QED
    BY <2>1, <2>2, <2>3
<1>5. F[n].at = Find(v, path)
  <2>1. F[n] = H[1..n]
    OBVIOUS
  <2>2. Find(v, path) = FoldLeft(Descend, w, path).at
    BY <1>1, Zenon DEF Find, Start
  <2> HIDE DEF F
  <2> QED
    BY <1>2, <2>1, <2>2
<1>6. ASSUME NEW k \in 1..n PROVE F[k] = Descend(F[k - 1], path[k])
  <2>1. Max(1..k) = k
    <3>1. k \in 1..k /\ \A y \in 1..k : k >= y
      OBVIOUS
    <3>2. \A x \in 1..k : (\A y \in 1..k : x >= y) => x = k
      BY <3>1
    <3> QED
      BY <3>1, <3>2 DEF Max
  <2>2. 1..k \in SUBSET (1..n) /\ 1..k # {} /\ (1..k) \ {k} = 1..(k - 1)
    OBVIOUS
  <2>3. F[k] = H[1..k] /\ F[k - 1] = H[1..(k - 1)]
    OBVIOUS
  <2> HIDE DEF F
  <2>4. H[1..k] = Descend(H[(1..k) \ {Max(1..k)}], path[Max(1..k)])
    BY <1>3, <2>2 DEF IsSearch
  <2> QED
    BY <2>1, <2>2, <2>3, <2>4
<1> HIDE DEF F
<1> QED
  BY <1>1, <1>4, <1>5, <1>6 DEF Goes

LEMMA KidCases ==
    ASSUME NEW f, NEW u \in KidsOfFn(f)
    PROVE  (u[1] = "loop" /\ u[2] = f) \/ (u[1] = "call" /\ u[2] \in Sites /\ Outer[u[2]] = f)
<1>1. CASE u = <<"loop", f>>
  BY <1>1
<1>2. CASE u # <<"loop", f>>
  <2>1. PICK s \in CallsIn(f) : u = <<"call", s>>
    BY <1>2 DEF KidsOfFn
  <2> QED
    BY <2>1 DEF CallsIn
<1> QED
  BY <1>1, <1>2

\* What the search finds below a vertex.
LEMMA BelowIs ==
    ASSUME OmpAssumption, OrderAssumption
    PROVE  /\ \A f \in Functions : Below(<<"fn", f>>) = KidsOfFn(f)
           /\ \A s \in Sites : Below(<<"call", s>>) = IF s \in Connected
                                                      THEN {<<"fn", s>>} \cup KidsOfFn(s) ELSE {}
<1>1. \A v \in Nodes : ToSet(Kids(v)) = KidSet(v)
  BY KidsIs
<1>2. ASSUME NEW f \in Functions PROVE Below(<<"fn", f>>) = KidsOfFn(f) /\ <<"fn", f>> \in Nodes
  <2>1. <<"fn", f>> \in Nodes
    BY DEF Nodes
  <2>2. ToSet(Kids(<<"fn", f>>)) = KidsOfFn(f)
    BY <1>1, <2>1 DEF KidSet
  <2>3. \A k \in KidsOfFn(f) : k[1] # "fn"
    BY DEF KidsOfFn
  <2> QED
    BY <2>1, <2>2, <2>3 DEF Below
<1>3. ASSUME NEW s \in Sites
      PROVE  Below(<<"call", s>>) = IF s \in Connected THEN {<<"fn", s>>} \cup KidsOfFn(s) ELSE {}
  <2>1. <<"call", s>> \in Nodes /\ <<"fn", s>> \in Nodes
    BY DEF Nodes, Functions
  <2>2. ToSet(Kids(<<"call", s>>)) = IF s \in Connected THEN {<<"fn", s>>} ELSE {}
    BY <1>1, <2>1 DEF KidSet
  <2>3. ToSet(Kids(<<"fn", s>>)) = KidsOfFn(s)
    BY <1>1, <2>1 DEF KidSet
  <2>4. CASE s \in Connected
    <3>1. ToSet(Kids(<<"call", s>>)) = {<<"fn", s>>} /\ <<"fn", s>>[1] = "fn"
      BY <2>2, <2>4
    <3>2. Below(<<"call", s>>) = {<<"fn", s>>} \cup ToSet(Kids(<<"fn", s>>))
      BY <3>1, ZenonT(60) DEF Below
    <3> QED
      BY <2>3, <2>4, <3>2
  <2>5. CASE s \notin Connected
    BY <2>2, <2>5 DEF Below
  <2> QED
    BY <2>4, <2>5
<1> QED
  BY <1>2, <1>3

\* One step of a search that has come to the function g, or to the call that starts it.
Stuck(g) == [at |-> <<"call", g>>, ends |-> TRUE]
LEMMA StepDown ==
    ASSUME OmpAssumption, OrderAssumption, NEW u, NEW g,
           (u = Root /\ g = Serial) \/ (u = <<"call", g>> /\ g \in Sites)
    PROVE  /\ \A s \in CallsIn(g) :
                 \/ Descend(Start(u), <<"call", s>>) = Start(<<"call", s>>)
                 \/ g \in Sites \ Connected /\ Descend(Start(u), <<"call", s>>) = Stuck(g)
           /\ \A part \in {"fn", "loop"} :
                 \/ Descend(Start(u), <<part, g>>) = [at |-> <<part, g>>, ends |-> TRUE]
                 \/ g \in Sites \ Connected /\ Descend(Start(u), <<part, g>>) = Stuck(g)
<1>1. \A a : Descend(Start(u), a) = IF a \in Below(u) THEN [at |-> a, ends |-> a[1] # "call"]
                                    ELSE [at |-> u, ends |-> TRUE]
  BY DEF Descend, Start
<1>2. CASE u = Root /\ g = Serial
  <2>1. Below(u) = KidsOfFn(g) /\ u = <<"fn", g>>
    BY <1>2, BelowIs DEF Root, Functions
  <2>2. ASSUME NEW s \in CallsIn(g)
        PROVE  Descend(Start(u), <<"call", s>>) = Start(<<"call", s>>)
    <3>1. <<"call", s>> \in Below(u)
      BY <2>1 DEF KidsOfFn
    <3> QED
      BY <1>1, <3>1 DEF Start
  <2>3. ASSUME NEW part \in {"fn", "loop"}
        PROVE  Descend(Start(u), <<part, g>>) = [at |-> <<part, g>>, ends |-> TRUE]
    <3>1. CASE part = "fn"
      <4>1. <<part, g>> \notin Below(u)
        BY <2>1, <3>1 DEF KidsOfFn
      <4> QED
        BY <1>1, <2>1, <3>1, <4>1
    <3>2. CASE part = "loop"
      <4>1. <<part, g>> \in Below(u) /\ <<part, g>>[1] # "call"
        BY <2>1, <3>2 DEF KidsOfFn
      <4> QED
        BY <1>1, <4>1
    <3> QED
      BY <3>1, <3>2
  <2> QED
    BY <2>2, <2>3
<1>3. CASE u = <<"call", g>> /\ g \in Sites /\ g \in Connected
  <2>1. Below(u) = {<<"fn", g>>} \cup KidsOfFn(g)
    BY <1>3, BelowIs
  <2>2. ASSUME NEW s \in CallsIn(g)
        PROVE  Descend(Start(u), <<"call", s>>) = Start(<<"call", s>>)
    <3>1. <<"call", s>> \in Below(u)
      BY <2>1 DEF KidsOfFn
    <3> QED
      BY <1>1, <3>1 DEF Start
  <2>3. ASSUME NEW part \in {"fn", "loop"}
        PROVE  Descend(Start(u), <<part, g>>) = [at |-> <<part, g>>, ends |-> TRUE]
    <3>1. <<part, g>> \in Below(u) /\ <<part, g>>[1] # "call"
      BY <2>1 DEF KidsOfFn
    <3> QED
      BY <1>1, <3>1
  <2> QED
    BY <2>2, <2>3
<1>4. CASE u = <<"call", g>> /\ g \in Sites /\ g \notin Connected
  <2>1. Below(u) = {}
    BY <1>4, BelowIs
  <2>2. \A a : Descend(Start(u), a) = Stuck(g)
    BY <1>1, <1>4, <2>1 DEF Stuck
  <2> QED
    BY <1>4, <2>2
<1> QED
  BY <1>2, <1>3, <1>4

\* Of the numbers up to n that are in T, none of them 0, one has a number before it that
\* is not.
LEMMA FirstOf ==
    ASSUME NEW n \in Nat, NEW T \in SUBSET (0..n), T # {}, 0 \notin T
    PROVE  \E j \in 0..n : j \notin T /\ j + 1 \in T
<1>1. T \in SUBSET Nat
  OBVIOUS
<1>2. PICK k \in T : \A j \in T : k <= j
  BY <1>1, LeastNumber
<1>3. k \in 0..n /\ k # 0
  OBVIOUS
<1>4. PICK j \in 0..n : k = j + 1
  <2>1. k - 1 \in 0..n /\ k = (k - 1) + 1
    BY <1>3
  <2> QED
    BY <2>1
<1>5. ~(k <= j)
  BY <1>4
<1> QED
  BY <1>2, <1>4, <1>5

\* A search that finds nothing below the vertex it starts from, or has nothing to find.
LEMMA SearchStays ==
    ASSUME NEW v, NEW path, NEW n \in Nat, DOMAIN path = 1..n, n # 0 => path[1] \notin Below(v)
    PROVE  Find(v, path) = v
<1>1. PICK F : /\ F[0] = Start(v) /\ F[n].at = Find(v, path)
               /\ \A k \in 1..n : F[k] = Descend(F[k - 1], path[k])
  <2>1. PICK F : Goes(F, v, path, n)
    BY SearchIs
  <2> QED
    BY <2>1 DEF Goes
<1>2. CASE n = 0
  BY <1>1, <1>2 DEF Start
<1>3. CASE n # 0
  <2> DEFINE stop == [at |-> v, ends |-> TRUE]
             T == {k \in 0..n : k # 0 /\ F[k] # stop}
  <2>1. SUFFICES ASSUME T # {} PROVE FALSE
    <3>1. n \in 0..n
      OBVIOUS
    <3>2. T = {} => F[n] = stop
      BY <1>3, <3>1
    <3> QED
      BY <1>1, <3>2
  <2>2. PICK j \in 0..n : j \notin T /\ j + 1 \in T
    <3>1. T \in SUBSET (0..n) /\ 0 \notin T
      OBVIOUS
    <3> HIDE DEF T
    <3> QED
      BY <2>1, <3>1, FirstOf
  <2>3. j + 1 \in 1..n /\ F[j + 1] # stop /\ (j + 1) - 1 = j
    BY <2>2
  <2>4. F[j + 1] = Descend(F[j], path[j + 1])
    BY <1>1, <2>3
  <2>5. CASE j = 0
    <3>1. Descend(Start(v), path[1]) = stop
      BY <1>3 DEF Descend, Start
    <3>2. F[1] = Descend(F[0], path[1]) /\ F[1] # stop
      BY <2>3, <2>4, <2>5
    <3> QED
      BY <1>1, <3>1, <3>2
  <2>6. CASE j # 0
    <3>1. F[j] = stop
      BY <2>2, <2>6
    <3>2. Descend(stop, path[j + 1]) = stop
      BY DEF Descend
    <3> QED
      BY <2>3, <2>4, <3>1, <3>2
  <2> QED
    BY <2>5, <2>6
<1> QED
  BY <1>2, <1>3

\* The search for the calls of a chain, and perhaps the part of the function at its end,
\* arrives, or ends at a call on the way that is not connected.
Begins(v, q) == \/ v = Root /\ q[1][2] = Serial
                \/ v = <<"call", q[1][2]>> /\ q[1][2] \in Sites
Spells(path, m, q, e) == /\ DOMAIN path = 1..m
                         /\ m = Len(q) - 1 \/ (m = Len(q) /\ path[m] = e)
                         /\ \A i \in 1..(Len(q) - 1) : path[i] = q[i + 1]
Finds(v, path, q, f, m, e) ==
    \/ Find(v, path) = IF m = Len(q) THEN e ELSE IF m = 0 THEN v ELSE <<"call", f>>
    \/ \E i \in 1..Len(q) : q[i][2] \in Sites \ Connected /\ Find(v, path) = <<"call", q[i][2]>>
LEMMA SearchGoes ==
    ASSUME OmpAssumption, OrderAssumption, NEW q, NEW f, Chained(q, f), NEW v, Begins(v, q),
           NEW path, NEW m \in Nat, NEW part \in {"fn", "loop"}, NEW e, e = <<part, f>>,
           Spells(path, m, q, e)
    PROVE  Finds(v, path, q, f, m, e)
<1> SUFFICES
       \/ Find(v, path) = IF m = Len(q) THEN <<part, f>> ELSE IF m = 0 THEN v ELSE <<"call", f>>
       \/ \E i \in 1..Len(q) : q[i][2] \in Sites \ Connected /\ Find(v, path) = <<"call", q[i][2]>>
  BY DEF Finds
<1> USE DEF Begins, Spells
<1>1. PICK n \in Nat \ {0} : n = Len(q)
  <2>1. PICK C : CallPaths = Seq(C)
    BY DEF CallPaths
  <2>2. q \in Seq(C) /\ q # <<>>
    BY <2>1 DEF Chained
  <2> QED
    BY <2>2, LenProperties, EmptySeq
<1>2. /\ \A i \in 1..n : q[i] = <<"call", q[i][2]>>
      /\ \A i \in 1..n : i # 1 => q[i][2] \in CallsIn(q[i - 1][2]) /\ q[i][2] \in Sites
      /\ q[n][2] = f
  <2>1. \A i \in 1..n : q[i] = <<"call", q[i][2]>>
    <3>1. \A i \in 1..n : q[i] \in {"call"} \X (Sites \cup {Serial})
      BY <1>1, ElementOfSeq DEF Chained, CallPaths
    <3> QED
      BY <3>1
  <2>2. \A i \in 1..n : i # 1 => i \in 2..n
    BY <1>1
  <2> QED
    BY <1>1, <2>1, <2>2 DEF Chained, CallsIn
<1>3. m \in (n - 1)..n /\ (m = n => path[n] = <<part, f>>) /\ \A i \in 1..(n - 1) : path[i] = q[i + 1]
  BY <1>1
<1>4. PICK F : /\ F[0] = Start(v) /\ F[m].at = Find(v, path)
               /\ \A k \in 1..m : F[k] = Descend(F[k - 1], path[k])
  <2>1. PICK F : Goes(F, v, path, m)
    BY SearchIs
  <2> QED
    BY <2>1 DEF Goes
<1> DEFINE Arrives(k) == F[k] = IF k = n THEN [at |-> <<part, f>>, ends |-> TRUE]
                             ELSE Start(IF k = 0 THEN v ELSE q[k + 1])
           Ends(k) == \E i \in 1..n : q[i][2] \in Sites \ Connected /\ F[k] = Stuck(q[i][2])
           T == {k \in 0..m : ~Arrives(k) /\ ~Ends(k)}
<1>5. T = {}
  <2>1. SUFFICES ASSUME T # {} PROVE FALSE
    OBVIOUS
  <2>2. PICK j \in 0..m : j \notin T /\ j + 1 \in T
    <3>1. T \in SUBSET (0..m) /\ 0 \notin T
      <4>1. Arrives(0)
        BY <1>4
      <4> QED
        BY <4>1
    <3> HIDE DEF T
    <3> QED
      BY <2>1, <3>1, FirstOf
  <2>3. PICK k \in 1..m : k = j + 1 /\ ~Arrives(k) /\ ~Ends(k)
    BY <2>2
  <2>4. Arrives(j) \/ Ends(j)
    BY <2>2
  <2>5. F[k] = Descend(F[j], path[k]) /\ k \in 1..n /\ j # n /\ k # 0
    BY <1>3, <1>4, <2>3
  <2>6. CASE Ends(j)
    <3>1. PICK i \in 1..n : q[i][2] \in Sites \ Connected /\ F[j] = Stuck(q[i][2])
      BY <2>6
    <3>2. F[k] = F[j]
      BY <2>5, <3>1 DEF Stuck, Descend
    <3> QED
      BY <2>3, <3>1, <3>2
  <2>7. CASE Arrives(j)
    <3>1. PICK u : u = (IF j = 0 THEN v ELSE q[j + 1]) /\ F[j] = Start(u)
      BY <2>5, <2>7
    <3>2. PICK g : g = q[k][2]
      OBVIOUS
    <3>3. (u = Root /\ g = Serial) \/ (u = <<"call", g>> /\ g \in Sites)
      <4>1. CASE j = 0
        BY <2>3, <3>1, <3>2, <4>1
      <4>2. CASE j # 0
        <5>1. u = q[k] /\ k # 1
          BY <2>3, <3>1, <4>2
        <5> QED
          BY <1>2, <2>5, <3>2, <5>1
      <4> QED
        BY <4>1, <4>2
    <3>4. /\ \A s \in CallsIn(g) :
                \/ Descend(Start(u), <<"call", s>>) = Start(<<"call", s>>)
                \/ g \in Sites \ Connected /\ Descend(Start(u), <<"call", s>>) = Stuck(g)
          /\ \/ Descend(Start(u), <<part, g>>) = [at |-> <<part, g>>, ends |-> TRUE]
             \/ g \in Sites \ Connected /\ Descend(Start(u), <<part, g>>) = Stuck(g)
      BY <3>3, StepDown, ZenonT(60)
    <3>5. ~(g \in Sites \ Connected /\ F[k] = Stuck(g))
      BY <2>3, <2>5, <3>2
    <3>6. CASE k = n
      <4>1. path[k] = <<part, g>> /\ g = f
        BY <1>2, <1>3, <2>3, <3>2, <3>6
      <4>2. F[k] = [at |-> <<part, f>>, ends |-> TRUE]
        BY <2>5, <3>1, <3>4, <3>5, <4>1
      <4> QED
        BY <2>3, <3>6, <4>2
    <3>7. CASE k # n
      <4>1. k \in 1..(n - 1) /\ k + 1 \in 1..n /\ k + 1 # 1 /\ (k + 1) - 1 = k
        <5>1. k \in 1..n /\ k # n
          BY <2>5, <3>7
        <5> QED
          BY <5>1
      <4>2. q[k + 1][2] \in CallsIn(g) /\ path[k] = q[k + 1] /\ q[k + 1] = <<"call", q[k + 1][2]>>
        BY <1>2, <1>3, <3>2, <4>1
      <4>3. F[k] = Start(q[k + 1])
        BY <2>5, <3>1, <3>4, <3>5, <4>2
      <4> QED
        BY <2>3, <2>5, <3>7, <4>3
    <3> QED
      BY <3>6, <3>7
  <2> QED
    BY <2>4, <2>6, <2>7
<1>6. Arrives(m) \/ Ends(m)
  <2>1. m \in 0..m
    OBVIOUS
  <2> QED
    BY <1>5, <2>1
<1>7. CASE Ends(m)
  <2>1. PICK i \in 1..n : q[i][2] \in Sites \ Connected /\ F[m] = Stuck(q[i][2])
    BY <1>7
  <2>2. Find(v, path) = <<"call", q[i][2]>>
    BY <1>4, <2>1 DEF Stuck
  <2> QED
    BY <1>1, <2>1, <2>2
<1>8. CASE Arrives(m)
  <2>1. CASE m = n
    BY <1>1, <1>4, <1>8, <2>1
  <2>2. CASE m # n
    <3>1. m + 1 = n
      BY <1>3, <2>2
    <3>2. F[m].at = IF m = 0 THEN v ELSE q[n]
      BY <1>8, <2>2, <3>1 DEF Start
    <3>3. q[n] = <<"call", f>>
      BY <1>1, <1>2
    <3> QED
      BY <1>1, <1>4, <2>2, <3>2, <3>3
  <2> QED
    BY <2>1, <2>2
<1> QED
  BY <1>6, <1>7, <1>8

\* An address of a part of a function is not that of a call.
LEMMA PartIs ==
    ASSUME NEW part \in {"fn", "loop"}, NEW f, NEW e, e = <<part, f>>
    PROVE  e[1] # "call" /\ e[1] = part /\ e[2] = f
<1>1. CASE part = "fn"
  BY <1>1
<1>2. CASE part = "loop"
  BY <1>2
<1> QED
  BY <1>1, <1>2
-----------------------------------------------------------------------------
(* Where samples are embedded                                                *)

\* The last edge with a number is one of them.
LEMMA MaxIs ==
    ASSUME NEW n \in Nat, NEW S \in SUBSET (1..n), S # {}
    PROVE  Max(S) \in S
<1> DEFINE T == {n - i : i \in S}
<1>1. T \in SUBSET Nat /\ T # {}
  <2>1. \A i \in S : n - i \in Nat
    OBVIOUS
  <2> QED
    BY <2>1
<1>2. PICK m \in T : \A k \in T : m <= k
  <2> HIDE DEF T
  <2> QED
    BY <1>1, LeastNumber
<1>3. PICK i \in S : m = n - i
  BY <1>2
<1>4. \A j \in S : i >= j
  <2>1. \A j \in S : n - i <= n - j
    BY <1>2, <1>3
  <2> QED
    BY <2>1
<1> QED
  BY <1>4 DEF Max

\* The addresses that the search is given: the chain without its first call, and an address.
Addresses(q, e, n) ==
    /\ n = Len(q) /\ Tail(Append(q, e)) = Append(Tail(q), e)
    /\ DOMAIN Append(Tail(q), e) = 1..n /\ Len(Append(Tail(q), e)) = n
    /\ Append(Tail(q), e)[n] = e
    /\ \A i \in 1..(n - 1) : Append(Tail(q), e)[i] = q[i + 1]
    /\ DOMAIN Tail(q) = 1..(n - 1) /\ n - 1 \in Nat
    /\ \A i \in 1..(n - 1) : Tail(q)[i] = q[i + 1]
    /\ Len(Append(q, e)) = n + 1 /\ Append(q, e)[n + 1] = e
    /\ \A i \in 1..n : Append(q, e)[i] = q[i]
    /\ Last(Append(Tail(q), e)) = e /\ Last(Append(q, e)) = e
LEMMA AddressesAre ==
    ASSUME NEW q, NEW f, Chained(q, f), NEW e
    PROVE  \E n \in Nat \ {0} : Addresses(q, e, n)
<1>1. PICK C : CallPaths = Seq(C)
  BY DEF CallPaths
<1>2. PICK S : C \subseteq S /\ e \in S
  <2>1. C \subseteq C \cup {e} /\ e \in C \cup {e}
    OBVIOUS
  <2> QED
    BY <2>1
<1>3. q \in Seq(S) /\ q # <<>>
  <2>1. q \in Seq(C) /\ q # <<>>
    BY <1>1 DEF Chained
  <2> QED
    BY <1>2, <2>1, SeqMonotonic
<1>4. PICK n \in Nat \ {0} : n = Len(q)
  BY <1>3, LenProperties, EmptySeq
<1>5. PICK w \in Seq(S) : w = Tail(q)
  BY <1>3, HeadTailProperties
<1>6. Len(w) = n - 1 /\ n - 1 \in Nat /\ \A i \in 1..(n - 1) : w[i] = q[i + 1]
  BY <1>3, <1>4, <1>5, HeadTailProperties
<1>7. DOMAIN w = 1..(n - 1)
  BY <1>6, LenProperties
<1>8. PICK z \in Seq(S) : z = Append(w, e)
  BY <1>2, AppendProperties
<1>9. Len(z) = n /\ z[n] = e /\ \A i \in 1..(n - 1) : z[i] = w[i]
  <2>1. /\ Len(Append(w, e)) = Len(w) + 1 /\ Append(w, e)[Len(w) + 1] = e
        /\ \A i \in 1..Len(w) : Append(w, e)[i] = w[i]
    BY <1>2, PushIs
  <2> QED
    BY <1>4, <1>6, <1>8, <2>1
<1>10. DOMAIN z = 1..n
  BY <1>9, LenProperties
<1>11. Tail(Append(q, e)) = z
  BY <1>3, <1>5, <1>8, HeadTailAppend
<1>12. PICK y \in Seq(S) : y = Append(q, e)
  BY <1>2, <1>3, AppendProperties
<1>13. Len(y) = n + 1 /\ y[n + 1] = e /\ \A i \in 1..n : y[i] = q[i]
  BY <1>2, <1>3, <1>4, <1>12, PushIs
<1>14. Last(z) = e /\ Last(y) = e
  BY <1>9, <1>13 DEF Last
<1> QED
  BY <1>4, <1>5, <1>6, <1>7, <1>8, <1>9, <1>10, <1>11, <1>12, <1>13, <1>14 DEF Addresses

\* The calls that the path of a sample shows to be connected.
CallsOf(x) == {x.path[i][2] : i \in 2..(Len(x.path) - 1)}
LEMMA ConnectedIs ==
    ASSUME NEW x \in DOMAIN samples
    PROVE  CallsOf(x) \subseteq Connected
<1>1. x \in Recorded
  BY DEF Recorded, BagToSet
<1>2. Connected = UNION {CallsOf(y) : y \in Recorded}
  BY DEF Connected, CallsOf
<1> QED
  BY <1>1, <1>2

\* An address of a function, at the end of calls that start with that of g.
AddressOf(e, q, f, g) ==
    Chained(q, f) /\ q[1][2] = g /\ \E part \in {"fn", "loop"} : e = <<part, f>>
Whole(path, q, f, g, e) == AddressOf(e, q, f, g) /\ path = Append(q, e)
Inner(path, q, f, g, e) == AddressOf(e, q, f, g) /\ path = Append(Tail(q), e)
LEMMA FromIs ==
    ASSUME NEW x, NEW g, From(x, g)
    PROVE  \E q, f, e : IF x.by = Main THEN Whole(x.path, q, f, g, e) ELSE Inner(x.path, q, f, g, e)
<1>1. PICK q, f : \E part \in {"fn", "loop"} :
          /\ Chained(q, f) /\ q[1][2] = g
          /\ x.path = Append(IF x.by = Main THEN q ELSE Tail(q), <<part, f>>)
  BY DEF From
<1>2. PICK part \in {"fn", "loop"} : x.path = Append(IF x.by = Main THEN q ELSE Tail(q), <<part, f>>)
  BY <1>1
<1>3. PICK e : e = <<part, f>>
  OBVIOUS
<1>4. AddressOf(e, q, f, g) /\ x.path = Append(IF x.by = Main THEN q ELSE Tail(q), e)
  BY <1>1, <1>2, <1>3 DEF AddressOf
<1> QED
  BY <1>4 DEF Whole, Inner

\* A sample of the main thread has its own path connected, and is found where it was taken.
LEMMA MainVertex ==
    ASSUME OmpAssumption, OrderAssumption, NEW x \in DOMAIN samples,
           NEW q, NEW f, NEW e, Whole(x.path, q, f, Serial, e)
    PROVE  /\ FindFromMain(x.path) = e
           /\ \A i \in 2..Len(q) : q[i][2] \in Connected
           /\ f \in Connected \cup {Serial} /\ Last(x.path) = e
           /\ Len(x.path) = Len(q) + 1 /\ \A i \in 1..Len(q) : x.path[i] = q[i]
<1> USE DEF Whole, AddressOf
<1>0. PICK part \in {"fn", "loop"} : e = <<part, f>>
  OBVIOUS
<1>1. PICK n \in Nat \ {0} : Addresses(q, e, n)
  BY AddressesAre
<1>2. PICK rest : rest = Tail(x.path)
  OBVIOUS
<1>3. /\ n = Len(q) /\ DOMAIN rest = 1..n /\ rest[n] = e
      /\ \A i \in 1..(n - 1) : rest[i] = q[i + 1]
      /\ Len(x.path) = n + 1 /\ \A i \in 1..n : x.path[i] = q[i]
      /\ Last(x.path) = e
  <2>1. x.path = Append(q, e) /\ rest = Append(Tail(q), e)
    BY <1>0, <1>1, <1>2 DEF Addresses
  <2> QED
    BY <1>1, <2>1 DEF Addresses
<1>4. \A i \in 2..n : q[i][2] \in Connected
  <2>1. ASSUME NEW i \in 2..n PROVE q[i][2] \in Connected
    <3>1. i \in 2..(Len(x.path) - 1) /\ x.path[i] = q[i]
      BY <1>3
    <3>2. q[i][2] \in CallsOf(x)
      BY <3>1 DEF CallsOf
    <3> QED
      BY <3>2, ConnectedIs
  <2> QED
    BY <2>1
<1>5. Finds(Root, rest, q, f, n, e)
  <2>1. Begins(Root, q) /\ Spells(rest, n, q, e)
    BY <1>3 DEF Begins, Spells
  <2> QED
    BY <1>0, <2>1, SearchGoes
<1>6. \A i \in 1..n : q[i][2] \notin Sites \ Connected
  <2>1. \A i \in 1..n : i = 1 \/ i \in 2..n
    BY <1>1
  <2> QED
    BY <1>4, <2>1 DEF OmpAssumption
<1>7. FindFromMain(x.path) = e
  BY <1>2, <1>3, <1>5, <1>6 DEF FindFromMain, Finds
<1>8. f \in Connected \cup {Serial}
  <2>1. f = q[n][2] /\ (n = 1 \/ n \in 2..n)
    BY <1>1, <1>3 DEF Chained
  <2> QED
    BY <1>4, <2>1
<1> QED
  BY <1>0, <1>3, <1>4, <1>7, <1>8

\* A sample of a worker, from the root, from the call that started the worker, and from a
\* call that is not connected.
LEMMA WorkerVertex ==
    ASSUME OmpAssumption, OrderAssumption,
           NEW path, NEW q, NEW f, NEW g \in Sites, NEW e, Inner(path, q, f, g, e)
    PROVE  /\ Find(Root, path) = Root
           /\ Finds(<<"call", g>>, path, q, f, Len(q), e)
           /\ \A s \in Sites \ Connected : Find(<<"call", s>>, path) = <<"call", s>>
<1> USE DEF Inner, AddressOf
<1>0. PICK part \in {"fn", "loop"} : e = <<part, f>>
  OBVIOUS
<1>1. PICK n \in Nat \ {0} :
          /\ n = Len(q) /\ DOMAIN path = 1..n /\ path[n] = e
          /\ \A i \in 1..(n - 1) : path[i] = q[i + 1]
  <2>1. PICK n \in Nat \ {0} : Addresses(q, e, n)
    BY AddressesAre
  <2> QED
    BY <2>1 DEF Addresses
<1>2. Find(Root, path) = Root
  <2>1. Below(Root) = KidsOfFn(Serial)
    BY BelowIs DEF Root, Functions
  <2>2. CASE n = 1
    <3>1. path[1] = e /\ f = g /\ g # Serial
      BY <1>1, <2>2 DEF Chained, OmpAssumption
    <3>2. e[1] # "call" /\ e[2] = f
      BY <1>0, PartIs
    <3>3. ASSUME e \in KidsOfFn(Serial) PROVE FALSE
      <4>1. e[2] = Serial
        BY ONLY <3>2, <3>3, KidCases
      <4> QED
        BY <3>1, <3>2, <4>1
    <3>4. path[1] \notin Below(Root)
      BY <2>1, <3>1, <3>3
    <3> QED
      BY <1>1, <3>4, SearchStays
  <2>3. CASE n # 1
    <3>1. path[1] = q[2] /\ 2 \in 2..n /\ 2 \in 1..n
      <4>1. 1 \in 1..(n - 1) /\ 1 + 1 = 2 /\ 2 \in 2..n /\ 2 \in 1..n
        BY <2>3
      <4> QED
        BY <1>1, <4>1
    <3>2. Outer[q[2][2]] = g /\ g # Serial
      <4>1. Outer[q[2][2]] = q[2 - 1][2] /\ 2 - 1 = 1
        BY <1>1, <3>1 DEF Chained
      <4> QED
        BY <4>1 DEF OmpAssumption
    <3>3. q[2][1] = "call"
      <4>1. q[2] \in {"call"} \X (Sites \cup {Serial})
        BY <1>1, <3>1, ElementOfSeq DEF Chained, CallPaths
      <4> QED
        BY <4>1
    <3>4. path[1] \notin KidsOfFn(Serial)
      BY <3>1, <3>2, <3>3, KidCases
    <3> QED
      BY <1>1, <2>1, <3>4, SearchStays
  <2> QED
    BY <2>2, <2>3
<1>3. Finds(<<"call", g>>, path, q, f, n, e)
  <2>1. PICK u : u = <<"call", g>>
    OBVIOUS
  <2>2. Begins(u, q) /\ Spells(path, n, q, e)
    BY <1>1, <2>1 DEF Begins, Spells
  <2>3. Finds(u, path, q, f, n, e)
    BY <1>0, <2>2, SearchGoes
  <2> QED
    BY <2>1, <2>3
<1>4. ASSUME NEW s \in Sites \ Connected PROVE Find(<<"call", s>>, path) = <<"call", s>>
  <2>1. PICK u : u = <<"call", s>>
    OBVIOUS
  <2>2. Below(u) = {}
    BY <2>1, BelowIs
  <2>3. Find(u, path) = u
    BY <1>1, <2>2, SearchStays
  <2> QED
    BY <2>1, <2>3
<1> QED
  BY <1>1, <1>2, <1>3, <1>4

\* Where the path of a call of GOMP_parallel leads.
LeadsTo(p, g) ==
    IF p[1][2] = Serial
    THEN \/ FindFromMain(p) = <<"call", g>>
         \/ \E i \in 2..Len(p) : p[i][2] \in Sites \ Connected /\ FindFromMain(p) = <<"call", p[i][2]>>
    ELSE FindFromMain(p) = Root
LEMMA CreationIs ==
    ASSUME OmpAssumption, OrderAssumption, NEW p, NEW g \in Sites, Chained(p, g)
    PROVE  LeadsTo(p, g)
<1>1. PICK n \in Nat \ {0} : /\ n = Len(p) /\ DOMAIN Tail(p) = 1..(n - 1) /\ n - 1 \in Nat
                             /\ \A i \in 1..(n - 1) : Tail(p)[i] = p[i + 1]
  <2>1. PICK n \in Nat \ {0} : Addresses(p, g, n)
    BY AddressesAre
  <2> QED
    BY <2>1 DEF Addresses
<1>2. \A i \in 2..n : p[i][2] \in Sites /\ Outer[p[i][2]] = p[i - 1][2]
  BY <1>1 DEF Chained
<1>3. p[n][2] = g
  BY <1>1 DEF Chained
<1>4. CASE p[1][2] = Serial
  <2>1. n # 1
    BY <1>3, <1>4 DEF OmpAssumption
  <2>2. PICK m \in Nat : m = n - 1 /\ m # n /\ m # 0
    BY <1>1, <2>1
  <2>3. PICK e : e = <<"fn", g>>
    OBVIOUS
  <2>4. PICK rest : rest = Tail(p)
    OBVIOUS
  <2>5. Begins(Root, p) /\ Spells(rest, m, p, e)
    BY <1>1, <1>4, <2>2, <2>4 DEF Begins, Spells
  <2>6. Finds(Root, rest, p, g, m, e)
    BY <2>3, <2>5, SearchGoes
  <2>7. \A i \in 1..n : p[i][2] \in Sites => i \in 2..n
    BY <1>4 DEF OmpAssumption
  <2> QED
    BY <1>1, <1>4, <2>2, <2>4, <2>6, <2>7 DEF FindFromMain, Finds, LeadsTo
<1>5. CASE p[1][2] # Serial
  <2>1. Below(Root) = KidsOfFn(Serial)
    BY BelowIs DEF Root, Functions
  <2>2. PICK rest : rest = Tail(p)
    OBVIOUS
  <2>3. PICK m \in Nat : m = n - 1
    BY <1>1
  <2>4. m # 0 => rest[1] \notin KidsOfFn(Serial)
    <3>1. SUFFICES ASSUME m # 0 PROVE rest[1] \notin KidsOfFn(Serial)
      OBVIOUS
    <3>2. 1 \in 1..(n - 1) /\ 2 \in 2..n /\ 2 \in 1..n /\ 2 - 1 = 1 /\ 1 + 1 = 2
      BY <1>1, <2>2, <2>3, <3>1
    <3>3. rest[1] = p[2] /\ Outer[p[2][2]] # Serial
      <4>1. rest[1] = p[1 + 1] /\ Outer[p[2][2]] = p[2 - 1][2]
        BY <1>1, <1>2, <2>2, <2>3, <3>2
      <4> QED
        BY <1>5, <3>2, <4>1
    <3>4. p[2][1] = "call"
      <4>1. p[2] \in {"call"} \X (Sites \cup {Serial})
        BY <1>1, <3>2, ElementOfSeq DEF Chained, CallPaths
      <4> QED
        BY <4>1
    <3> QED
      BY <3>3, <3>4, KidCases
  <2>5. Find(Root, rest) = Root
    BY <1>1, <2>1, <2>2, <2>3, <2>4, SearchStays
  <2> QED
    BY <1>5, <2>2, <2>5 DEF FindFromMain, LeadsTo
<1> QED
  BY <1>4, <1>5

\* The edge of a number that counts.
Created(n, e, g) ==
    /\ e \in EdgesOf(n) /\ g \in Sites /\ Chained(e.path, g)
    /\ Creation(n) = FindFromMain(e.path) /\ LeadsTo(e.path, g)
    /\ e.path[1][2] = Serial => \A x \in DOMAIN samples : x.by # Main /\ x.number = n => From(x, g)
LEMMA CreatedIs ==
    ASSUME OmpAssumption, OrderAssumption, EdgeInv, NumberInv, NEW n
    PROVE  (EdgesOf(n) = {} /\ Creation(n) = Root) \/ \E e, g : Created(n, e, g)
<1>1. PICK m \in Nat : m = Len(edges) /\ DOMAIN edges = 1..m /\ ToSet(edges) = {edges[i] : i \in 1..m}
  BY LenProperties DEF EdgeInv, NumbersGrow, ToSet
<1>2. PICK own \in SUBSET (1..m) : own = {i \in DOMAIN edges : edges[i].number = n}
  BY <1>1
<1>3. Creation(n) = IF own = {} THEN Root ELSE FindFromMain(edges[Max(own)].path)
  BY <1>2 DEF Creation
<1>4. CASE own = {}
  <2>1. EdgesOf(n) = {}
    BY <1>1, <1>2, <1>4 DEF EdgesOf
  <2> QED
    BY <1>3, <1>4, <2>1
<1>5. CASE own # {}
  <2>1. PICK i \in own : i = Max(own)
    BY <1>5, MaxIs
  <2>2. PICK e : e = edges[i]
    OBVIOUS
  <2>3. e \in EdgesOf(n) /\ e \in ToSet(edges) /\ e.number = n
    BY <1>1, <1>2, <2>1, <2>2 DEF EdgesOf
  <2>4. Creation(n) = FindFromMain(e.path)
    BY <1>3, <1>5, <2>1, <2>2
  <2>5. EdgeLeads(e)
    BY <2>3 DEF NumberInv
  <2>6. PICK g \in Sites : /\ Chained(e.path, g)
                           /\ e.path[1][2] = Serial => \A x \in DOMAIN samples :
                                                         x.by # Main /\ x.number = n => From(x, g)
    BY <2>3, <2>5 DEF EdgeLeads
  <2>7. PICK p : p = e.path
    OBVIOUS
  <2>8. LeadsTo(p, g)
    BY <2>6, <2>7, CreationIs
  <2> QED
    BY <2>3, <2>4, <2>6, <2>7, <2>8 DEF Created
<1> QED
  BY <1>4, <1>5

\* Who took a sample, by its number.
LEMMA ByNumber ==
    ASSUME OmpAssumption, EdgeInv, NEW x \in DOMAIN samples
    PROVE  x.number = MainGid <=> x.by = Main
<1>1. Cores \in Nat \ {0}
  BY DEF OmpAssumption
<1> QED
  BY <1>1 DEF EdgeInv, NumbersGrow, Used, MainGid

\* A sample is embedded at a part of a function, or at a call that is not connected.
AtPart(w) == \E f : \E part \in {"fn", "loop"} : w = <<part, f>>
AtLoose(w) == \E s \in Sites \ Connected : w = <<"call", s>>
LEMMA NeverAtConnected ==
    ASSUME OmpAssumption, OrderAssumption, EdgeInv, PathInv, NumberInv, NEW x \in DOMAIN samples
    PROVE  AtPart(VertexOf(x)) \/ AtLoose(VertexOf(x))
<1>1. PlaceOf(x)
  BY DEF PathInv, PathsLead
<1>2. CASE x.by = Main
  <2>1. PICK q, f, e : Whole(x.path, q, f, Serial, e)
    BY <1>1, <1>2, FromIs DEF PlaceOf
  <2>2. FindFromMain(x.path) = e
    BY <2>1, MainVertex
  <2>4. \E part \in {"fn", "loop"} : e = <<part, f>>
    BY <2>1 DEF Whole, AddressOf
  <2>3. VertexOf(x) = FindFromMain(x.path)
    BY <1>2, ByNumber DEF VertexOf
  <2> QED
    BY <2>2, <2>3, <2>4 DEF AtPart
<1>3. CASE x.by # Main
  <2>1. VertexOf(x) = Find(Creation(x.number), x.path)
    BY <1>3, ByNumber DEF VertexOf
  <2>2. ASSUME NEW g \in Sites, From(x, g)
        PROVE  /\ Find(Root, x.path) = Root
               /\ AtPart(Find(<<"call", g>>, x.path)) \/ AtLoose(Find(<<"call", g>>, x.path))
               /\ \A s \in Sites \ Connected : Find(<<"call", s>>, x.path) = <<"call", s>>
    <3>1. PICK q, f, e : Inner(x.path, q, f, g, e)
      BY <1>3, <2>2, FromIs
    <3>2. PICK path : path = x.path
      OBVIOUS
    <3>3. Inner(path, q, f, g, e)
      BY <3>1, <3>2
    <3>4. \E part \in {"fn", "loop"} : e = <<part, f>>
      BY <3>1 DEF Inner, AddressOf
    <3>5. /\ Find(Root, path) = Root
          /\ Finds(<<"call", g>>, path, q, f, Len(q), e)
          /\ \A s \in Sites \ Connected : Find(<<"call", s>>, path) = <<"call", s>>
      BY <3>3, WorkerVertex
    <3>6. CASE Find(<<"call", g>>, path) = e
      BY <3>2, <3>4, <3>5, <3>6 DEF AtPart
    <3>7. CASE Find(<<"call", g>>, path) # e
      <4>1. PICK i \in 1..Len(q) : q[i][2] \in Sites \ Connected
                                   /\ Find(<<"call", g>>, path) = <<"call", q[i][2]>>
        BY <3>5, <3>7 DEF Finds
      <4> QED
        BY <3>2, <3>5, <4>1 DEF AtLoose
    <3> QED
      BY <3>6, <3>7
  <2>3. PICK g0 \in Sites : From(x, g0)
    BY <1>1, <1>3 DEF PlaceOf
  <2>4. CASE Creation(x.number) = Root
    <3>1. VertexOf(x) = <<"fn", Serial>>
      BY <2>1, <2>2, <2>3, <2>4 DEF Root
    <3> QED
      BY <3>1 DEF AtPart
  <2>5. ASSUME NEW s \in Sites \ Connected, Creation(x.number) = <<"call", s>> PROVE AtLoose(VertexOf(x))
    BY <2>1, <2>2, <2>3, <2>5 DEF AtLoose
  <2>6. ASSUME NEW e, NEW g, Created(x.number, e, g), Creation(x.number) # Root
        PROVE  AtPart(VertexOf(x)) \/ AtLoose(VertexOf(x))
    <3>1. e.path[1][2] = Serial
      BY <2>6 DEF Created, LeadsTo
    <3>2. g \in Sites /\ From(x, g)
      BY <1>3, <2>6, <3>1 DEF Created
    <3>3. CASE Creation(x.number) = <<"call", g>>
      <4>1. AtPart(Find(<<"call", g>>, x.path)) \/ AtLoose(Find(<<"call", g>>, x.path))
        BY <2>2, <3>2
      <4> QED
        BY <2>1, <3>3, <4>1
    <3>4. CASE \E i \in 2..Len(e.path) :
                  e.path[i][2] \in Sites \ Connected /\ Creation(x.number) = <<"call", e.path[i][2]>>
      BY <2>5, <3>4
    <3> QED
      BY <2>6, <3>1, <3>3, <3>4 DEF Created, LeadsTo
  <2> QED
    BY <2>4, <2>6, CreatedIs
<1> QED
  BY <1>2, <1>3

\* While only the main thread forks, only its samples connect calls, and with a call those
\* around it.
LEMMA ConnectedUp ==
    ASSUME OmpAssumption, OrderAssumption, OnlyMainForks, TypeInv, PathInv, NEW c \in Connected
    PROVE  c \in Sites /\ Outer[c] \in Connected \cup {Serial}
<1>1. PICK x \in DOMAIN samples : c \in CallsOf(x)
  <2>1. Connected = UNION {CallsOf(x) : x \in DOMAIN samples}
    BY DEF Connected, CallsOf, Recorded, BagToSet
  <2> QED
    BY <2>1
<1>2. PICK i \in 2..(Len(x.path) - 1) : c = x.path[i][2]
  BY <1>1 DEF CallsOf
<1>3. PlaceOf(x)
  BY DEF PathInv, PathsLead
<1>4. x.by = Main
  <2>1. SUFFICES ASSUME x.by # Main PROVE FALSE
    OBVIOUS
  <2>2. x.in \in DOMAIN regions
    BY <1>3, <2>1, LenProperties DEF PlaceOf, TypeInv
  <2>3. regions[x.in].caller # x.by
    BY <2>1, <2>2 DEF OnlyMainForks
  <2>4. PICK e : x.path = <<e>>
    BY <1>3, <2>1, <2>3 DEF PlaceOf
  <2>5. Len(x.path) = 1
    BY <2>4
  <2> QED
    BY <1>2, <2>5
<1>5. PICK q, f, e : Whole(x.path, q, f, Serial, e)
  BY <1>3, <1>4, FromIs DEF PlaceOf
<1>6. /\ \A k \in 2..Len(q) : q[k][2] \in Connected
      /\ Len(x.path) = Len(q) + 1 /\ \A k \in 1..Len(q) : x.path[k] = q[k]
  BY <1>5, MainVertex
<1>7. PICK n \in Nat : n = Len(q)
  <2>1. PICK C : CallPaths = Seq(C)
    BY DEF CallPaths
  <2> QED
    BY <1>5, <2>1, LenProperties DEF Chained, Whole, AddressOf
<1>8. i \in 2..n /\ i \in 1..n /\ (i - 1 = 1 \/ i - 1 \in 2..n)
  BY <1>2, <1>6, <1>7
<1>9. q[i][2] \in Sites /\ Outer[q[i][2]] = q[i - 1][2]
  BY <1>5, <1>7, <1>8 DEF Chained, Whole, AddressOf
<1> QED
  BY <1>2, <1>5, <1>6, <1>7, <1>8, <1>9 DEF Whole, AddressOf

LEMMA ChainConnected ==
    ASSUME OmpAssumption, OrderAssumption, OnlyMainForks, TypeInv, PathInv,
           NEW p, NEW g \in Connected, Chained(p, g), NEW i \in 2..Len(p)
    PROVE  p[i][2] \in Connected
<1>1. PICK n \in Nat : n = Len(p)
  <2>1. PICK C : CallPaths = Seq(C)
    BY DEF CallPaths
  <2> QED
    BY <2>1, LenProperties DEF Chained
<1> DEFINE T == {k \in 0..n : k # 0 /\ n - k >= 2 /\ p[n - k][2] \notin Connected}
<1>2. SUFFICES ASSUME p[i][2] \notin Connected PROVE FALSE
  OBVIOUS
<1>3. p[n][2] \in Connected
  BY <1>1 DEF Chained
<1>4. T # {}
  <2>1. n - i \in 0..n /\ n - (n - i) = i /\ i >= 2 /\ n - i # 0
    BY <1>1, <1>2, <1>3
  <2> QED
    BY <1>2, <2>1
<1>5. PICK j \in 0..n : j \notin T /\ j + 1 \in T
  <2>1. T \in SUBSET (0..n) /\ 0 \notin T
    OBVIOUS
  <2> HIDE DEF T
  <2> QED
    BY <1>4, <2>1, FirstOf
<1>6. PICK k \in 2..n : k = n - j
  <2>1. n - (j + 1) >= 2
    BY <1>5
  <2> QED
    BY <2>1
<1>7. p[k][2] \in Connected
  <2>1. CASE j = 0
    BY <1>3, <1>6, <2>1
  <2>2. CASE j # 0
    BY <1>5, <1>6, <2>2
  <2> QED
    BY <2>1, <2>2
<1>8. p[k - 1][2] \notin Connected /\ k - 1 \in 2..n
  <2>1. n - (j + 1) = k - 1
    BY <1>6
  <2> QED
    BY <1>5, <2>1
<1>9. Outer[p[k][2]] = p[k - 1][2] /\ p[k - 1][2] \in Sites
  BY <1>1, <1>6, <1>8 DEF Chained
<1>10. Outer[p[k][2]] \in Connected \cup {Serial}
  BY <1>7, ConnectedUp
<1> QED
  BY <1>8, <1>9, <1>10 DEF OmpAssumption

\* A sample with a path of one address was taken in a function that the search finds or not.
LEMMA OneAddress ==
    ASSUME OmpAssumption, OrderAssumption, NEW x \in DOMAIN samples, x.by # Main,
           NEW g \in Sites, From(x, g), NEW part \in {"fn", "loop"}, NEW e, e = <<part, g>>,
           x.path = <<e>>
    PROVE  /\ g \in Connected => Find(<<"call", g>>, x.path) = e
           /\ \A s \in Sites \ Connected : Find(<<"call", s>>, x.path) = <<"call", s>>
<1>1. PICK q, f, d : Inner(x.path, q, f, g, d)
  BY FromIs
<1>2. PICK n \in Nat \ {0} : Addresses(q, d, n)
  BY <1>1, AddressesAre DEF Inner, AddressOf
<1>3. PICK path : path = x.path /\ Inner(path, q, f, g, d)
  BY <1>1
<1>4. n = 1 /\ d = e /\ n = Len(q)
  <2>1. DOMAIN <<e>> = 1..n /\ <<e>>[n] = d /\ n = Len(q)
    BY <1>1, <1>2 DEF Inner, Addresses
  <2>2. DOMAIN <<e>> = 1..1 /\ <<e>>[1] = e
    OBVIOUS
  <2>3. n = 1
    <3>1. n \in 1..1
      BY <2>1, <2>2
    <3> QED
      BY <3>1
  <2> QED
    BY <2>1, <2>2, <2>3
<1>5. q[1][2] = g
  BY <1>1 DEF Inner, AddressOf
<1>6. /\ Finds(<<"call", g>>, path, q, f, Len(q), d)
      /\ \A s \in Sites \ Connected : Find(<<"call", s>>, path) = <<"call", s>>
  BY <1>3, WorkerVertex
<1>7. ASSUME g \in Connected PROVE Find(<<"call", g>>, path) = e
  <2>1. \A i \in 1..Len(q) : q[i][2] \notin Sites \ Connected
    <3>2. Len(q) = 1
      BY <1>4
    <3>1. \A i \in 1..Len(q) : i = 1
      BY ONLY <3>2
    <3> QED
      BY <1>5, <1>7, <3>1
  <2> QED
    BY <1>4, <1>6, <2>1 DEF Finds
<1> QED
  BY <1>3, <1>6, <1>7

\* After the program, while only the main thread has forked, a sample is embedded where it was
\* taken, or, if that function is not connected, at some call that is not.
Located(x) ==
    \E f \in Functions : \E part \in {"fn", "loop"} :
        /\ Last(x.path) = <<part, f>>
        /\ IF f \in Connected \cup {Serial} THEN VertexOf(x) = Last(x.path)
           ELSE f \in Sites /\ AtLoose(VertexOf(x))
LEMMA SamplesLocated ==
    ASSUME OmpAssumption, OrderAssumption, IInv, EdgeInv, PathInv, NumberInv, OnlyMainForks, ended,
           NEW x \in DOMAIN samples
    PROVE  Located(x)
<1>0. TypeInv /\ PlaceOf(x)
  BY DEF IInv, PathInv, PathsLead
<1>1. CASE x.by = Main
  <2>1. PICK q, f, e : Whole(x.path, q, f, Serial, e)
    BY <1>0, <1>1, FromIs DEF PlaceOf
  <2>2. FindFromMain(x.path) = e /\ f \in Connected \cup {Serial} /\ Last(x.path) = e
    <3>1. FindFromMain(x.path) = e
      BY <2>1, MainVertex
    <3>2. f \in Connected \cup {Serial}
      BY <2>1, MainVertex
    <3>3. Last(x.path) = e
      <4>1. PICK n \in Nat \ {0} : Addresses(q, e, n)
        BY <2>1, AddressesAre DEF Whole, AddressOf
      <4> QED
        BY <2>1, <4>1 DEF Whole, Addresses
    <3> QED
      BY <3>1, <3>2, <3>3
  <2>3. VertexOf(x) = e
    BY <1>1, <2>2, ByNumber DEF VertexOf
  <2>4. PICK part \in {"fn", "loop"} : e = <<part, f>>
    BY <2>1 DEF Whole, AddressOf
  <2>5. f \in Functions
    BY <1>0, <2>2, ConnectedUp DEF Functions
  <2> QED
    BY <2>2, <2>3, <2>4, <2>5 DEF Located
<1>2. CASE x.by # Main
  <2>1. PICK k \in 1..Len(regions) : k = x.in
    BY <1>0, <1>2 DEF PlaceOf
  <2>2. regions[k].caller = Main
    BY <1>0, <2>1, LenProperties DEF OnlyMainForks, TypeInv
  <2>3. PICK g \in Sites : g = regions[k].site
    <3>1. regions[k] \in Region
      BY ElementOfSeq, <1>0, <2>1 DEF TypeInv
    <3> QED
      BY <3>1 DEF Region
  <2>4. PICK part \in {"fn", "loop"} : x.path = <<<<part, g>>>>
    BY <1>0, <1>2, <2>1, <2>2, <2>3 DEF PlaceOf
  <2>5. PICK e : e = <<part, g>>
    OBVIOUS
  <2>6. x.path = <<e>> /\ Last(x.path) = e
    BY <2>4, <2>5 DEF Last
  <2>7. PICK p : p = regions[k].path /\ Chained(p, g) /\ p[1][2] = Serial
    BY <2>1, <2>2, <2>3 DEF PathInv, PathsLead
  <2>8. EdgesOf(x.number) = {[path |-> p, number |-> x.number]}
    <3>1. Through(x.by, x.in)
      <4>1. x.by \in Threads
        BY <1>2 DEF EdgeInv, NumbersGrow
      <4>2. SUFFICES ASSUME Running(x.by) PROVE FALSE
        BY <1>2 DEF EdgeInv, SamplesAttributed, Attributed
      <4>3. stack[x.by][1].region \in 1..Len(regions) /\ ~Complete(stack[x.by][1].region)
        BY <1>2, <4>1, <4>2, WorkerIsIn DEF IInv, Running
      <4> QED
        BY <4>3 DEF IInv, EndsQuiet
    <3> QED
      BY <1>2, <2>1, <2>7, <3>1 DEF EdgeInv, SamplesAttributed, Attributed
  <2>9. PICK d, h : Created(x.number, d, h)
    BY <2>8, CreatedIs
  <2>10. d.path = p
    BY <2>8, <2>9 DEF Created
  <2>11. h = g
    BY <2>7, <2>9, <2>10 DEF Created, Chained
  <2>12. From(x, g) /\ Creation(x.number) = FindFromMain(p) /\ LeadsTo(p, g)
    BY <1>2, <2>7, <2>9, <2>10, <2>11 DEF Created
  <2>13. VertexOf(x) = Find(Creation(x.number), x.path)
    BY <1>2, ByNumber DEF VertexOf
  <2>14. /\ g \in Connected => Find(<<"call", g>>, x.path) = e
         /\ \A s \in Sites \ Connected : Find(<<"call", s>>, x.path) = <<"call", s>>
    BY <1>2, <2>5, <2>6, <2>12, OneAddress
  <2>15. CASE g \in Connected
    <3>1. FindFromMain(p) = <<"call", g>>
      BY <1>0, <2>7, <2>12, <2>15, ChainConnected DEF LeadsTo
    <3>2. VertexOf(x) = e
      BY <2>12, <2>13, <2>14, <2>15, <3>1
    <3> QED
      BY <2>5, <2>6, <2>15, <3>2 DEF Located, Functions
  <2>16. CASE g \notin Connected
    <3>1. PICK s \in Sites \ Connected : FindFromMain(p) = <<"call", s>>
      BY <2>7, <2>12, <2>16 DEF LeadsTo
    <3>2. VertexOf(x) = <<"call", s>>
      BY <2>12, <2>13, <2>14, <3>1
    <3>3. AtLoose(VertexOf(x)) /\ g # Serial
      BY <3>2 DEF AtLoose, OmpAssumption
    <3> QED
      BY <2>5, <2>6, <2>16, <3>3 DEF Located, Functions
  <2> QED
    BY <2>15, <2>16
<1> QED
  BY <1>1, <1>2
-----------------------------------------------------------------------------
(* The time of the samples                                                   *)

DataOK(d) == IsFiniteSet(DOMAIN d) /\ DOMAIN d \subseteq Nat /\ \A n \in DOMAIN d : d[n] \in Nat

\* What is put together by part has the same total.
Parted(F, S, c) == [k \in {c[x] : x \in S} |-> Total([x \in {y \in S : c[y] = k} |-> F[x]])]
LEMMA TotalByPart ==
    ASSUME NEW F, NEW S, IsFiniteSet(S), \A x \in S : F[x] \in Nat,
           NEW c, \A x \in S : c[x] \in Nat, NEW d,
           d = Parted(F, S, c)
    PROVE  DataOK(d) /\ Total(d) = SumFunctionOnSet(F, S)
<1> USE DEF Parted
<1>1. PICK K : K = {c[x] : x \in S} /\ IsFiniteSet(K)
  <2>1. PICK K : K = {c[x] : x \in S}
    OBVIOUS
  <2>2. [x \in S |-> c[x]] \in Surjection(S, K)
    BY <2>1 DEF Surjection
  <2> QED
    BY <2>1, <2>2, FS_Surjection
<1>2. ASSUME NEW k \in K
      PROVE  d[k] = SumFunctionOnSet(F, Fibre(S, c, k)) /\ d[k] \in Nat
  <2>1. PICK V : V = {y \in S : c[y] = k} /\ V = Fibre(S, c, k)
    BY DEF Fibre
  <2>2. IsFiniteSet(V) /\ V \subseteq S
    BY <2>1, FS_Subset
  <2>3. PICK G : G = [x \in V |-> F[x]]
    OBVIOUS
  <2>4. d[k] = SumFunctionOnSet(G, V)
    BY <1>1, <2>1, <2>3 DEF Total
  <2>5. SumFunctionOnSet(G, V) = SumFunctionOnSet(F, V)
    BY <2>2, <2>3, SumSame
  <2>6. SumFunctionOnSet(F, V) \in Nat
    BY <2>2, SumNat
  <2> QED
    BY <2>1, <2>4, <2>5, <2>6
<1>3. DOMAIN d = K
  BY <1>1
<1>4. PICK P : P = ByPart(F, S, c, K)
  OBVIOUS
<1>5. \A k \in K : d[k] = P[k]
  BY <1>2, <1>4 DEF ByPart
<1>6. SumFunctionOnSet(d, K) = SumFunctionOnSet(P, K)
  <2>1. IsFiniteSet(K)
    BY <1>1
  <2> QED
    BY ONLY <1>5, <2>1, SumSame
<1>7. SumFunctionOnSet(P, K) = SumFunctionOnSet(F, S)
  <2>1. \A x \in S : F[x] \in Int
    OBVIOUS
  <2>2. \A x \in S : c[x] \in K
    BY <1>1
  <2> QED
    BY <1>1, <1>4, <2>1, <2>2, SumFibres
<1>8. K \subseteq Nat
  BY <1>1
<1> QED
  BY <1>1, <1>2, <1>3, <1>6, <1>7, <1>8 DEF DataOK, Total

\* The samples that c sends to K, by what they are sent to.
Within(D, c, K) == {x \in D : c[x] \in K}
LEMMA SumOver ==
    ASSUME NEW F, NEW D, IsFiniteSet(D), \A x \in D : F[x] \in Nat, NEW c,
           NEW K, IsFiniteSet(K), NEW G, \A k \in K : G[k] = SumFunctionOnSet(F, Fibre(D, c, k))
    PROVE  SumFunctionOnSet(G, K) = SumFunctionOnSet(F, Within(D, c, K))
<1> USE DEF Within
<1>1. PICK S \in SUBSET D : S = {x \in D : c[x] \in K}
  OBVIOUS
<1>2. IsFiniteSet(S) /\ \A x \in S : F[x] \in Int
  BY FS_Subset
<1>3. PICK P : P = ByPart(F, S, c, K)
  OBVIOUS
<1>4. \A k \in K : G[k] = P[k]
  <2>1. ASSUME NEW k \in K PROVE G[k] = P[k]
    <3>1. Fibre(D, c, k) = Fibre(S, c, k)
      BY <1>1 DEF Fibre
    <3> QED
      BY <1>3, <3>1 DEF ByPart
  <2> QED
    BY <2>1
<1>5. SumFunctionOnSet(G, K) = SumFunctionOnSet(P, K)
  BY <1>4, SumSame
<1>6. \A x \in S : c[x] \in K
  BY <1>1
<1>7. SumFunctionOnSet(P, K) = SumFunctionOnSet(F, S)
  BY <1>2, <1>3, <1>6, SumFibres
<1> QED
  BY <1>1, <1>5, <1>7

\* The property, of the data, the samples and the connected calls.
SpentAt(smp, v) == Total([x \in {y \in DOMAIN smp : Last(y.path) = v} |-> smp[x]])
TimeOK(d, smp, C) ==
    /\ \A f \in C \cup {Serial} : \A part \in {"fn", "loop"} :
          Total(d[<<part, f>>]) = SpentAt(smp, <<part, f>>)
    /\ Total([s \in Sites |-> Total(d[<<"call", s>>])])
       = Total([v \in {"fn", "loop"} \X (Sites \ C) |-> SpentAt(smp, v)])

\* After the embedding, nobody runs; no call that is connected has data.
DataInv ==
    /\ stage \in {"record", "embed", "expand"}
    /\ stage # "record" =>
          /\ ended
          /\ \A v \in Vertices : DataOK(data[v])
          /\ \A s \in Connected : DOMAIN data[<<"call", s>>] = {}
          /\ OnlyMainForks => TimeOK(data, samples, Connected)

\* At the end nobody can move.
LEMMA EndedStays == ASSUME OmpAssumption, IInv, ended, OmpNext PROVE FALSE
<1>1. \A t \in Threads : stack[t] = <<>>
  <2>1. ASSUME NEW t \in Threads, stack[t] # <<>> PROVE FALSE
    <3>1. t # Main
      BY <2>1 DEF IInv, EndsQuiet
    <3>2. stack[t][1].region \in 1..Len(regions) /\ ~Complete(stack[t][1].region)
      BY <2>1, <3>1, WorkerIsIn DEF IInv
    <3> QED
      BY <3>2 DEF IInv, EndsQuiet
  <2> QED
    BY <2>1
<1>2. ASSUME NEW t \in Threads PROVE ~InProgram(t) /\ ~InFunction(t) /\ counter[t] # "running"
  BY <1>1 DEF InProgram, InFunction, IInv, CountsTheProgram
<1>3. ASSUME NEW t \in Threads, NEW k \in 1..MaxRegions, Enter(t, k) PROVE FALSE
  <2>1. k \in 1..Len(regions)
    BY <1>3, LenProperties DEF Enter, IInv, TypeInv
  <2>2. regions[k].through = regions[k].team
    BY <2>1 DEF IInv, EndsQuiet, Complete
  <2> QED
    BY <1>3, <2>2 DEF Enter, Called
<1>4. Main \in Threads
  BY DEF OmpAssumption
<1> QED
  BY <1>1, <1>2, <1>3, <1>4 DEF OmpNext, Fork, Sample, Leave, Join, Exit

\* A connected call is one of GOMP_parallel.
LEMMA ConnectedSites ==
    ASSUME OmpAssumption, PathInv
    PROVE  Connected \subseteq Sites
<1>1. Connected = UNION {CallsOf(x) : x \in DOMAIN samples}
  BY DEF Connected, CallsOf, Recorded, BagToSet
<1>2. ASSUME NEW x \in DOMAIN samples, NEW c \in CallsOf(x) PROVE c \in Sites
  <2>1. PICK i \in 2..(Len(x.path) - 1) : c = x.path[i][2]
    BY <1>2 DEF CallsOf
  <2>2. PICK g : From(x, g)
    BY DEF PathInv, PathsLead, PlaceOf
  <2>3. PICK q, f, e : IF x.by = Main THEN Whole(x.path, q, f, g, e) ELSE Inner(x.path, q, f, g, e)
    BY <2>2, FromIs
  <2>4. Chained(q, f) /\ x.path = Append(IF x.by = Main THEN q ELSE Tail(q), e)
    BY <2>3 DEF Whole, Inner, AddressOf
  <2>5. PICK n \in Nat \ {0} : Addresses(q, e, n)
    BY <2>4, AddressesAre
  <2>6. \A j \in 2..n : q[j][2] \in Sites
    BY <2>4, <2>5 DEF Chained, Addresses
  <2>7. CASE x.by = Main
    <3>1. x.path = Append(q, e) /\ Len(x.path) = n + 1 /\ \A j \in 1..n : x.path[j] = q[j]
      BY <2>4, <2>5, <2>7 DEF Addresses
    <3>2. i \in 2..n /\ i \in 1..n
      BY <2>1, <3>1
    <3> QED
      BY <2>1, <2>6, <3>1, <3>2
  <2>8. CASE x.by # Main
    <3>1. PICK p : p = x.path /\ p = Append(Tail(q), e)
      BY <2>4, <2>8
    <3>2. \A j \in 1..(n - 1) : p[j] = q[j + 1]
      BY <2>5, <3>1 DEF Addresses
    <3>3. Len(p) = n
      BY <2>5, <3>1 DEF Addresses
    <3>4. i \in 1..(n - 1) /\ i + 1 \in 2..n
      BY <2>1, <3>1, <3>3
    <3>5. c = q[i + 1][2]
      BY <2>1, <3>1, <3>2, <3>4
    <3> QED
      BY <2>6, <3>4, <3>5
  <2> QED
    BY <2>7, <2>8
<1> QED
  BY <1>1, <1>2

\* The samples that are embedded at a vertex.
LEMMA EmbedIs ==
    ASSUME OmpAssumption, EdgeInv, Counted, Embed, NEW v \in Vertices,
           NEW S, S = {x \in DOMAIN samples : VertexOf(x) = v}
    PROVE  /\ DataOK(data'[v]) /\ Total(data'[v]) = SumFunctionOnSet(samples, S)
           /\ S = {} => DOMAIN data'[v] = {}
<1>1. PICK number : number = [x \in DOMAIN samples |-> x.number]
  OBVIOUS
<1>2. \A x \in DOMAIN samples : number[x] \in Nat
  <2>1. \A x \in DOMAIN samples : x.number = MainGid \/ x.number \in Used
    BY DEF EdgeInv, NumbersGrow
  <2>2. Cores \in Nat
    BY DEF OmpAssumption
  <2>3. \A n \in Used : n \in Nat
    BY <2>2 DEF Used
  <2> QED
    BY <1>1, <2>1, <2>3 DEF MainGid
<1>3. S \subseteq DOMAIN samples /\ IsFiniteSet(S) /\ \A x \in S : samples[x] \in Nat
  BY FS_Subset DEF Counted
<1>4. data'[v] = [n \in {x.number : x \in S} |-> Total([x \in {y \in S : y.number = n} |-> samples[x]])]
  <2>1. {x \in Recorded : VertexOf(x) = v} = S
    BY DEF Recorded, BagToSet
  <2>2. data' = [u \in Vertices |->
                  LET here == {x \in Recorded : VertexOf(x) = u}
                  IN  [n \in {x.number : x \in here} |->
                         Total([x \in {y \in here : y.number = n} |-> samples[x]])]]
    BY DEF Embed
  <2>3. data'[v] = LET here == {x \in Recorded : VertexOf(x) = v}
                   IN  [n \in {x.number : x \in here} |->
                         Total([x \in {y \in here : y.number = n} |-> samples[x]])]
    BY <2>2, Zenon
  <2> QED
    BY <2>1, <2>3, Zenon
<1>5. \A n : {y \in S : y.number = n} = {y \in S : number[y] = n}
  BY <1>1, <1>3
<1>6. {x.number : x \in S} = {number[x] : x \in S}
  <2>1. \A x \in S : x.number = number[x]
    BY <1>1, <1>3
  <2> QED
    BY <2>1
<1>7. PICK d : d = data'[v]
  OBVIOUS
<1>8. d = Parted(samples, S, number)
  <2> DEFINE A == {x.number : x \in S}
             one(n) == Total([x \in {y \in S : y.number = n} |-> samples[x]])
             two(n) == Total([x \in {y \in S : number[y] = n} |-> samples[x]])
  <2>1. d = [n \in A |-> one(n)]
    BY <1>4, <1>7, Zenon
  <2>2. ASSUME NEW n PROVE one(n) = two(n)
    <3>1. {y \in S : y.number = n} = {y \in S : number[y] = n}
      BY <1>5
    <3> QED
      BY <3>1
  <2>3. [n \in A |-> one(n)] = [n \in A |-> two(n)]
    <3> HIDE DEF A, one, two
    <3> QED
      BY <2>2
  <2>4. [n \in A |-> two(n)] = [n \in {number[x] : x \in S} |-> two(n)]
    BY <1>6
  <2> QED
    BY <2>1, <2>3, <2>4, Zenon DEF Parted
<1>9. DataOK(d) /\ Total(d) = SumFunctionOnSet(samples, S)
  <2>1. \A x \in S : number[x] \in Nat
    BY <1>2, <1>3
  <2> QED
    BY <1>3, <1>8, <2>1, TotalByPart
<1>10. S = {} => DOMAIN d = {}
  BY <1>8 DEF Parted
<1> QED
  BY <1>7, <1>9, <1>10

\* Embedding puts the time of the samples where they are located.
LEMMA EmbedTime ==
    ASSUME OmpAssumption, OrderAssumption, IInv, EdgeInv, PathInv, NumberInv, OnlyMainForks, Embed
    PROVE  TimeOK(data', samples, Connected)
<1>0. PICK D : D = DOMAIN samples /\ IsFiniteSet(D) /\ \A x \in D : samples[x] \in Nat
  BY DEF PathInv, Counted
<1>1. \A x \in D : Located(x)
  BY <1>0, SamplesLocated DEF Embed
<1>2. PICK at : at = [x \in D |-> VertexOf(x)]
  OBVIOUS
<1>3. PICK last : last = [x \in D |-> Last(x.path)]
  OBVIOUS
<1>4. ASSUME NEW v \in Vertices
      PROVE  Total(data'[v]) = SumFunctionOnSet(samples, Fibre(D, at, v))
  <2>1. Fibre(D, at, v) = {x \in DOMAIN samples : VertexOf(x) = v}
    BY <1>0, <1>2 DEF Fibre
  <2>2. PICK S : S = {x \in DOMAIN samples : VertexOf(x) = v}
    OBVIOUS
  <2>3. Total(data'[v]) = SumFunctionOnSet(samples, S)
    BY <2>2, EmbedIs DEF PathInv
  <2> QED
    BY <2>1, <2>2, <2>3
<1>5. ASSUME NEW v
      PROVE  SpentAt(samples, v) = SumFunctionOnSet(samples, Fibre(D, last, v))
  <2>1. PICK S \in SUBSET D : S = {y \in DOMAIN samples : Last(y.path) = v}
    BY <1>0
  <2>2. S = Fibre(D, last, v)
    BY <1>0, <1>3, <2>1 DEF Fibre
  <2>3. PICK G : G = [x \in S |-> samples[x]]
    OBVIOUS
  <2>4. SpentAt(samples, v) = SumFunctionOnSet(G, S)
    BY <2>1, <2>3 DEF SpentAt, Total
  <2>5. SumFunctionOnSet(G, S) = SumFunctionOnSet(samples, S)
    BY <1>0, <2>1, <2>3, FS_Subset, SumSame
  <2> QED
    BY <2>2, <2>4, <2>5
<1>6. ASSUME NEW x \in D
      PROVE  \E f \in Functions : \E part \in {"fn", "loop"} :
                 /\ last[x] = <<part, f>>
                 /\ IF f \in Connected \cup {Serial} THEN at[x] = last[x]
                    ELSE f \in Sites /\ AtLoose(at[x])
  BY <1>1, <1>2, <1>3 DEF Located
<1>7. Connected \subseteq Sites
  BY ConnectedSites
<1> HIDE DEF Located
<1>8. ASSUME NEW f \in Connected \cup {Serial}, NEW part \in {"fn", "loop"}
      PROVE  Total(data'[<<part, f>>]) = SpentAt(samples, <<part, f>>)
  <2>1. PICK v \in Vertices : v = <<part, f>>
    BY <1>7 DEF Vertices, Functions
  <2>2. ASSUME NEW x \in D PROVE at[x] = v <=> last[x] = v
    <3>1. PICK g \in Functions : \E p \in {"fn", "loop"} :
                 /\ last[x] = <<p, g>>
                 /\ IF g \in Connected \cup {Serial} THEN at[x] = last[x]
                    ELSE g \in Sites /\ AtLoose(at[x])
      BY <1>6
    <3>2. PICK p \in {"fn", "loop"} : last[x] = <<p, g>>
      BY <3>1
    <3>3. CASE g \in Connected \cup {Serial}
      BY <3>1, <3>3
    <3>4. CASE g \notin Connected \cup {Serial}
      <4>1. last[x] # v
        <5>1. ASSUME <<p, g>> = <<part, f>> PROVE g = f
          BY ONLY <5>1
        <5> QED
          BY <2>1, <3>2, <3>4, <5>1
      <4>2. PICK s : at[x] = <<"call", s>>
        BY <3>1, <3>4 DEF AtLoose
      <4>3. part # "call" /\ v[1] = part
        BY <2>1, PartIs
      <4>4. at[x] # v
        BY <4>2, <4>3
      <4> QED
        BY <4>1, <4>4
    <3> QED
      BY <3>3, <3>4
  <2>3. Fibre(D, at, v) = Fibre(D, last, v)
    BY <2>2 DEF Fibre
  <2>4. Total(data'[v]) = SumFunctionOnSet(samples, Fibre(D, at, v))
    BY <1>4
  <2>5. SpentAt(samples, v) = SumFunctionOnSet(samples, Fibre(D, last, v))
    BY <1>5
  <2> QED
    BY <2>1, <2>3, <2>4, <2>5
<1>9. PICK calls : calls = [s \in Sites |-> Total(data'[<<"call", s>>])]
  OBVIOUS
<1>10. PICK K : K = {"fn", "loop"} \X (Sites \ Connected)
  OBVIOUS
<1>11. PICK lost : lost = [v \in K |-> SpentAt(samples, v)]
  OBVIOUS
<1>12. IsFiniteSet(Sites) /\ IsFiniteSet(K)
  <2>1. IsFiniteSet(Sites)
    <3>1. PICK n \in Nat : DOMAIN Order = 1..n /\ ToSet(Order) = Sites
      BY LenProperties DEF OrderAssumption
    <3>2. Order \in Surjection(1..n, Sites)
      BY <3>1, LenProperties DEF OrderAssumption, Surjection, ToSet
    <3>3. IsFiniteSet(1..n)
      BY FS_Interval
    <3> QED
      BY <3>2, <3>3, FS_Surjection
  <2>2. IsFiniteSet(Sites \ Connected)
    BY <2>1, FS_Subset
  <2>3. IsFiniteSet({"fn", "loop"})
    <3>1. IsFiniteSet({"fn"}) /\ IsFiniteSet({"loop"}) /\ {"fn", "loop"} = {"fn"} \cup {"loop"}
      BY FS_Singleton
    <3>2. IsFiniteSet({"fn"} \cup {"loop"})
      BY ONLY <3>1, FS_Union
    <3> QED
      BY <3>1, <3>2
  <2> QED
    BY <1>10, <2>1, <2>2, <2>3, FS_Product
<1>13. PICK loose : loose = [x \in D |-> IF \E s \in Sites : at[x] = <<"call", s>> THEN at[x][2] ELSE Serial]
  OBVIOUS
<1>14. SumFunctionOnSet(calls, Sites) = SumFunctionOnSet(samples, Within(D, loose, Sites))
  <2>1. ASSUME NEW s \in Sites
        PROVE  calls[s] = SumFunctionOnSet(samples, Fibre(D, loose, s))
    <3>1. PICK v \in Vertices : v = <<"call", s>>
      BY DEF Vertices, Functions
    <3>2. ASSUME NEW x \in D PROVE at[x] = v <=> loose[x] = s
      <4>1. CASE \E u \in Sites : at[x] = <<"call", u>>
        <5>1. PICK u \in Sites : at[x] = <<"call", u>>
          BY <4>1
        <5>2. loose[x] = u
          BY <1>13, <5>1
        <5>3. <<"call", u>> = <<"call", s>> <=> u = s
          OBVIOUS
        <5> QED
          BY <3>1, <5>1, <5>2, <5>3
      <4>2. CASE ~\E u \in Sites : at[x] = <<"call", u>>
        <5>1. loose[x] = Serial
          BY <1>13, <4>2
        <5> QED
          BY <3>1, <4>2, <5>1 DEF OmpAssumption
      <4> QED
        BY <4>1, <4>2
    <3>3. Fibre(D, at, v) = Fibre(D, loose, s)
      BY <3>2 DEF Fibre
    <3>4. Total(data'[v]) = SumFunctionOnSet(samples, Fibre(D, at, v))
      BY <1>4
    <3>5. calls[s] = Total(data'[v])
      BY <1>9, <3>1
    <3> QED
      BY <3>3, <3>4, <3>5
  <2> QED
    BY <1>0, <1>12, <2>1, SumOver, SMTT(60)
<1>15. SumFunctionOnSet(lost, K) = SumFunctionOnSet(samples, Within(D, last, K))
  <2>1. ASSUME NEW v \in K
        PROVE  lost[v] = SumFunctionOnSet(samples, Fibre(D, last, v))
    BY <1>5, <1>11
  <2> QED
    BY <1>0, <1>12, <2>1, SumOver, SMTT(60)
<1>16. ASSUME NEW x \in D PROVE loose[x] \in Sites <=> last[x] \in K
  <2>1. PICK g \in Functions : \E p \in {"fn", "loop"} :
               /\ last[x] = <<p, g>>
               /\ IF g \in Connected \cup {Serial} THEN at[x] = last[x]
                  ELSE g \in Sites /\ AtLoose(at[x])
    BY <1>6
  <2>2. PICK p \in {"fn", "loop"} : last[x] = <<p, g>>
    BY <2>1
  <2>3. CASE g \in Connected \cup {Serial}
    <3>1. last[x] \notin K
      <4>1. ASSUME last[x] \in K PROVE FALSE
        <5>1. PICK a \in {"fn", "loop"}, b \in Sites \ Connected : last[x] = <<a, b>>
          BY <1>10, <4>1
        <5>2. <<p, g>> = <<a, b>>
          BY <2>2, <5>1
        <5>3. g = b
          BY ONLY <5>2
        <5> QED
          BY <2>3, <5>1, <5>3 DEF OmpAssumption
      <4> QED
        BY <4>1
    <3>2. at[x][1] # "call"
      <4>1. at[x] = <<p, g>>
        BY <2>1, <2>2, <2>3
      <4> QED
        BY <4>1, PartIs
    <3>3. loose[x] = Serial
      BY <1>13, <3>2
    <3> QED
      BY <3>1, <3>3 DEF OmpAssumption
  <2>4. CASE g \notin Connected \cup {Serial}
    <3>1. g \in Sites \ Connected /\ AtLoose(at[x])
      BY <2>1, <2>4
    <3>2. last[x] \in K
      BY <1>10, <2>2, <3>1
    <3>3. PICK s \in Sites : at[x] = <<"call", s>>
      BY <3>1 DEF AtLoose
    <3>4. loose[x] = s
      BY <1>13, <3>3
    <3> QED
      BY <3>2, <3>4
  <2> QED
    BY <2>3, <2>4
<1>17. Within(D, loose, Sites) = Within(D, last, K)
  BY <1>16 DEF Within
<1>18. Total(calls) = Total(lost)
  <2>1. DOMAIN calls = Sites /\ DOMAIN lost = K
    BY <1>9, <1>11
  <2> QED
    BY <1>14, <1>15, <1>17, <2>1 DEF Total
<1>19. Total([s \in Sites |-> Total(data'[<<"call", s>>])])
       = Total([v \in {"fn", "loop"} \X (Sites \ Connected) |-> SpentAt(samples, v)])
  BY <1>9, <1>10, <1>11, <1>18
<1> QED
  BY <1>8, <1>19 DEF TimeOK

LEMMA GroupedIs ==
    ASSUME OmpAssumption, NEW d, DataOK(d)
    PROVE  /\ DataOK(Grouped(d)) /\ Total(Grouped(d)) = Total(d)
           /\ DOMAIN d = {} => DOMAIN Grouped(d) = {}
<1>1. PICK S : S = DOMAIN d /\ IsFiniteSet(S) /\ S \subseteq Nat /\ \A n \in S : d[n] \in Nat
  BY DEF DataOK
<1>2. PICK c : c = [n \in S |-> n % Cores]
  OBVIOUS
<1>3. \A n \in S : c[n] \in Nat
  <2>1. \A n \in Nat : n % Cores \in Nat
    BY DEF OmpAssumption
  <2> QED
    BY <1>1, <1>2, <2>1
<1>4. Grouped(d) = Parted(d, S, c)
  <2> DEFINE A == {n % Cores : n \in S}
             one(k) == Total([n \in {m \in S : m % Cores = k} |-> d[n]])
             two(k) == Total([x \in {y \in S : c[y] = k} |-> d[x]])
  <2>1. Grouped(d) = [k \in A |-> one(k)]
    BY <1>1, Zenon DEF Grouped
  <2>2. ASSUME NEW k PROVE one(k) = two(k)
    <3>1. {m \in S : m % Cores = k} = {y \in S : c[y] = k}
      BY <1>2
    <3> QED
      BY <3>1
  <2>3. [k \in A |-> one(k)] = [k \in A |-> two(k)]
    <3> HIDE DEF A, one, two
    <3> QED
      BY <2>2
  <2>4. A = {c[x] : x \in S}
    BY <1>2
  <2>5. [k \in A |-> two(k)] = [k \in {c[x] : x \in S} |-> two(k)]
    BY <2>4
  <2> QED
    BY <2>1, <2>3, <2>5, Zenon DEF Parted
<1>5. PICK g : g = Grouped(d)
  OBVIOUS
<1>6. DataOK(g) /\ Total(g) = SumFunctionOnSet(d, S)
  BY <1>1, <1>3, <1>4, <1>5, TotalByPart
<1>7. Total(d) = SumFunctionOnSet(d, S)
  BY <1>1 DEF Total
<1>8. DOMAIN d = {} => DOMAIN g = {}
  BY <1>1, <1>4, <1>5 DEF Parted
<1> QED
  BY <1>5, <1>6, <1>7, <1>8

\* The property is about totals.
LEMMA TimeKept ==
    ASSUME OmpAssumption, NEW d, NEW e, NEW smp, NEW C \in SUBSET Sites, TimeOK(d, smp, C),
           \A v \in Vertices : Total(e[v]) = Total(d[v])
    PROVE  TimeOK(e, smp, C)
<1>1. ASSUME NEW f \in C \cup {Serial}, NEW part \in {"fn", "loop"}
      PROVE  Total(e[<<part, f>>]) = SpentAt(smp, <<part, f>>)
  <2>1. <<part, f>> \in Vertices
    BY DEF Vertices, Functions
  <2> QED
    BY <2>1 DEF TimeOK
<1>2. \A s \in Sites : Total(e[<<"call", s>>]) = Total(d[<<"call", s>>])
  <2>1. ASSUME NEW s \in Sites
        PROVE  Total(e[<<"call", s>>]) = Total(d[<<"call", s>>])
    <3>1. PICK v \in Vertices : v = <<"call", s>>
      BY DEF Vertices, Functions
    <3>2. Total(e[v]) = Total(d[v])
      BY <3>1
    <3> QED
      BY <3>1, <3>2
  <2> QED
    BY <2>1, Zenon
<1>3. [s \in Sites |-> Total(e[<<"call", s>>])] = [s \in Sites |-> Total(d[<<"call", s>>])]
  BY <1>2
<1> QED
  BY <1>1, <1>3 DEF TimeOK

LEMMA EmbedData ==
    ASSUME OmpAssumption, OrderAssumption, IInv, EdgeInv, PathInv, NumberInv, Embed, UNCHANGED sampler
    PROVE  DataInv'
<1>1. UNCHANGED <<samples, ended, regions>> /\ Connected' = Connected /\ OnlyMainForks' = OnlyMainForks
  BY DEF sampler, Connected, Recorded, BagToSet, OnlyMainForks
<1>2. stage' = "embed" /\ ended
  BY DEF Embed
<1>3. ASSUME NEW v \in Vertices PROVE DataOK(data'[v])
  <2>1. PICK S : S = {x \in DOMAIN samples : VertexOf(x) = v}
    OBVIOUS
  <2> QED
    BY <2>1, EmbedIs DEF PathInv
<1>4. ASSUME NEW s \in Connected PROVE DOMAIN data'[<<"call", s>>] = {}
  <2>1. PICK v \in Vertices : v = <<"call", s>>
    BY ConnectedSites DEF Vertices, Functions
  <2>2. PICK S : S = {x \in DOMAIN samples : VertexOf(x) = v}
    OBVIOUS
  <2>3. ASSUME NEW x \in DOMAIN samples PROVE VertexOf(x) # v
    <3>1. AtPart(VertexOf(x)) \/ AtLoose(VertexOf(x))
      BY NeverAtConnected
    <3>2. CASE AtPart(VertexOf(x))
      <4>1. PICK f : \E part \in {"fn", "loop"} : VertexOf(x) = <<part, f>>
        BY <3>2 DEF AtPart
      <4>2. PICK part \in {"fn", "loop"} : VertexOf(x) = <<part, f>>
        BY <4>1
      <4>3. VertexOf(x)[1] # "call"
        BY <4>2, PartIs
      <4> QED
        BY <2>1, <4>3
    <3>3. CASE AtLoose(VertexOf(x))
      <4>1. PICK u \in Sites \ Connected : VertexOf(x) = <<"call", u>>
        BY <3>3 DEF AtLoose
      <4>2. <<"call", u>> = <<"call", s>> => u = s
        OBVIOUS
      <4> QED
        BY <2>1, <4>1, <4>2
    <3> QED
      BY <3>1, <3>2, <3>3
  <2>4. S = {}
    BY <2>2, <2>3
  <2> QED
    BY <2>1, <2>2, <2>4, EmbedIs DEF PathInv
<1>5. OnlyMainForks => TimeOK(data', samples, Connected)
  BY EmbedTime
<1> QED
  BY <1>1, <1>2, <1>3, <1>4, <1>5 DEF DataInv

LEMMA GroupData ==
    ASSUME OmpAssumption, OrderAssumption, PathInv, DataInv, Group, UNCHANGED sampler
    PROVE  DataInv'
<1>1. UNCHANGED <<samples, ended, regions>> /\ Connected' = Connected /\ OnlyMainForks' = OnlyMainForks
  BY DEF sampler, Connected, Recorded, BagToSet, OnlyMainForks
<1>2. stage = "embed" /\ stage' = "expand" /\ \A v \in Vertices : data'[v] = Grouped(data[v])
  BY DEF Group
<1>3. \A v \in Vertices : DataOK(data[v])
  BY <1>2 DEF DataInv
<1>4. \A v \in Vertices : /\ DataOK(data'[v]) /\ Total(data'[v]) = Total(data[v])
                          /\ DOMAIN data[v] = {} => DOMAIN data'[v] = {}
  BY <1>2, <1>3, GroupedIs
<1>5. Connected \in SUBSET Sites
  BY ConnectedSites
<1>6. OnlyMainForks => TimeOK(data', samples, Connected)
  BY <1>2, <1>4, <1>5, TimeKept DEF DataInv
<1>7. \A s \in Connected : <<"call", s>> \in Vertices
  BY <1>5 DEF Vertices, Functions
<1> QED
  BY <1>1, <1>2, <1>4, <1>6, <1>7 DEF DataInv

\* Every step keeps what is known of the data.
LEMMA StepData ==
    ASSUME OmpAssumption, OrderAssumption, IInv, EdgeInv, PathInv, NumberInv, DataInv,
           [OmpGraphNext]_<<sampler, analysis>>
    PROVE  DataInv'
<1>1. CASE UNCHANGED <<sampler, stage, data>>
  <2>1. Connected' = Connected /\ OnlyMainForks' = OnlyMainForks /\ UNCHANGED <<ended, samples>>
    BY <1>1 DEF sampler, Connected, Recorded, BagToSet, OnlyMainForks
  <2> QED
    BY <1>1, <2>1 DEF DataInv
<1>2. CASE OmpNext /\ UNCHANGED analysis
  <2>1. stage = "record"
    BY <1>2, EndedStays DEF DataInv
  <2>2. stage' = "record"
    BY <1>2, <2>1 DEF analysis
  <2> QED
    BY <2>2 DEF DataInv
<1>3. CASE Embed /\ UNCHANGED sampler
  BY <1>3, EmbedData
<1>4. CASE Group /\ UNCHANGED sampler
  BY <1>4, GroupData
<1>5. CASE (EnterVertex \/ LeaveVertex \/ ExpandRegion) /\ UNCHANGED sampler
  <2>1. UNCHANGED <<stage, data>>
    BY <1>5, Zenon DEF EnterVertex, LeaveVertex, ExpandRegion
  <2>2. UNCHANGED <<sampler, stage, data>>
    BY <1>5, <2>1
  <2> QED
    BY <1>1, <2>2
<1>6. CASE UNCHANGED <<sampler, analysis>>
  BY <1>1, <1>6 DEF analysis
<1> QED
  BY <1>2, <1>3, <1>4, <1>5, <1>6 DEF OmpGraphNext

RecordInv == IInv /\ EdgeInv /\ PathInv /\ NumberInv /\ DataInv

LEMMA InitRecord == ASSUME OmpAssumption, OmpGraphInit PROVE RecordInv
<1> USE DEF OmpGraphInit, OmpInit
<1>1. DOMAIN samples = {} /\ ToSet(edges) = {} /\ Len(regions) = 0
  BY EmptySeq DEF EmptyBag, SetToBag, ToSet
<1>2. IInv
  BY InitIInv
<1>3. EdgeInv
  <2>1. NumbersGrow
    BY <1>1, EmptySeq DEF NumbersGrow, Running
  <2> QED
    BY <1>1, <2>1 DEF EdgeInv, SamplesAttributed, Running
<1>4. PathInv
  <2>1. IsFiniteSet(DOMAIN samples)
    BY <1>1, FS_EmptySet
  <2>2. Linked
    BY EmptySeq DEF Linked, LinkedIn
  <2> QED
    BY <1>1, <2>1, <2>2 DEF PathInv, PathsLead, Counted
<1>5. NumberInv
  BY <1>1 DEF NumberInv, Running
<1>6. DataInv
  BY DEF DataInv
<1> QED
  BY <1>2, <1>3, <1>4, <1>5, <1>6 DEF RecordInv

LEMMA StepRecord ==
    ASSUME OmpAssumption, OrderAssumption, RecordInv, [OmpGraphNext]_<<sampler, analysis>>
    PROVE  RecordInv'
<1>1. [OmpNext]_sampler
  BY SamplerSteps
<1>2. IInv'
  BY <1>1, StepIInv DEF RecordInv
<1>3. EdgeInv'
  BY <1>1, <1>2, StepEdges DEF RecordInv
<1>4. PathInv'
  BY <1>1, <1>2, StepPaths DEF RecordInv
<1>5. NumberInv'
  BY <1>1, <1>2, StepNumbers DEF RecordInv
<1>6. DataInv'
  BY StepData DEF RecordInv
<1> QED
  BY <1>2, <1>3, <1>4, <1>5, <1>6 DEF RecordInv

\* While only the main thread opens regions, the samples that all threads took in a function
\* are embedded at its vertices, if the main thread was sampled in a region of this call,
\* and otherwise at a call of GOMP_parallel (graph_perf.cpp, 745-770).
THEOREM TimeIsKept == OmpSpec => []TimeIsWhereItWasSpent
<1> USE OmpAssumption, OrderAssumption
<1>1. OmpGraphInit => RecordInv
  BY InitRecord
<1>2. RecordInv /\ [OmpGraphNext]_<<sampler, analysis>> => RecordInv'
  BY StepRecord
<1>3. RecordInv => TimeIsWhereItWasSpent
  <2>1. \A v : SpentAt(samples, v) = TakenAt(v)
    BY DEF SpentAt, TakenAt, Recorded, BagToSet
  <2>2. TimeOK(data, samples, Connected) =>
            /\ \A f \in Connected \cup {Serial} : \A part \in {"fn", "loop"} :
                  Total(data[<<part, f>>]) = TakenAt(<<part, f>>)
            /\ Total([s \in Sites |-> Total(data[<<"call", s>>])])
               = Total([v \in {"fn", "loop"} \X (Sites \ Connected) |-> TakenAt(v)])
    BY <2>1 DEF TimeOK
  <2> QED
    BY <2>2 DEF RecordInv, DataInv, TimeIsWhereItWasSpent
<1> QED
  BY <1>1, <1>2, <1>3, PTL DEF OmpSpec
-----------------------------------------------------------------------------
(* The walk over the graph                                                   *)

\* The vertices of the functions that are connected to the main function by one call or by
\* none, and of the calls; the one vertex a vertex is below.
Good(C) == ({"call"} \X Sites) \cup ({"fn", "loop"} \X (C \cup {Serial}))
Parent(v) == IF v[1] = "fn" THEN <<"call", v[2]>>
             ELSE IF v[1] = "loop" THEN <<"fn", v[2]>> ELSE <<"fn", Outer[v[2]]>>
LEMMA KidsOfGood ==
    ASSUME OmpAssumption, PathInv, NEW v \in Good(Connected), NEW k \in KidSet(v)
    PROVE  k \in Good(Connected) /\ Parent(k) = v /\ k # Root
<1>1. Connected \subseteq Sites /\ Serial \notin Sites
  BY ConnectedSites DEF OmpAssumption
<1>2. ASSUME NEW s \in Sites, v = <<"call", s>> PROVE k \in Good(Connected) /\ Parent(k) = v /\ k # Root
  <2>1. s \in Connected /\ k = <<"fn", s>>
    BY <1>2 DEF KidSet
  <2>2. k[1] = "fn" /\ k[2] = s
    BY <2>1
  <2>3. k \in Good(Connected)
    BY <2>1 DEF Good
  <2>4. Parent(k) = v
    BY <1>2, <2>2 DEF Parent
  <2>5. Root[2] = Serial
    BY DEF Root
  <2> QED
    BY <1>1, <2>2, <2>3, <2>4, <2>5
<1>3. ASSUME NEW f \in Connected \cup {Serial}, v = <<"fn", f>>
      PROVE  k \in Good(Connected) /\ Parent(k) = v /\ k # Root
  <2>1. k \in KidsOfFn(f)
    BY <1>3 DEF KidSet
  <2>2. Root[1] = "fn"
    BY DEF Root
  <2>3. CASE k = <<"loop", f>>
    <3>1. k[1] = "loop" /\ k[2] = f
      BY <2>3
    <3>2. k \in Good(Connected)
      BY <2>3 DEF Good
    <3>3. Parent(k) = v
      BY <1>3, <3>1 DEF Parent
    <3> QED
      BY <2>2, <3>1, <3>2, <3>3
  <2>4. CASE k # <<"loop", f>>
    <3>1. PICK s \in CallsIn(f) : k = <<"call", s>>
      BY <2>1, <2>4 DEF KidsOfFn
    <3>2. k[1] = "call" /\ k[2] = s /\ Outer[s] = f /\ s \in Sites
      BY <3>1 DEF CallsIn
    <3>3. k \in Good(Connected)
      BY <3>1, <3>2 DEF Good
    <3>4. Parent(k) = v
      BY <1>3, <3>2 DEF Parent
    <3> QED
      BY <2>2, <3>2, <3>3, <3>4
  <2> QED
    BY <2>3, <2>4
<1>4. ASSUME NEW f, v = <<"loop", f>> PROVE FALSE
  BY <1>4 DEF KidSet
<1> QED
  BY <1>2, <1>3, <1>4 DEF Good

\* Nothing is below itself.
LEMMA ParentDiffers == ASSUME NEW C, NEW v \in Good(C) PROVE Parent(v) # v
<1>1. v[1] \in {"call", "fn", "loop"}
  BY DEF Good
<1>2. Parent(v)[1] = IF v[1] = "fn" THEN "call" ELSE "fn"
  BY DEF Parent
<1>3. CASE v[1] = "fn"
  BY <1>2, <1>3
<1>4. CASE v[1] # "fn"
  BY <1>2, <1>4
<1> QED
  BY <1>3, <1>4

\* What is put in front of the walk when it enters a vertex.
Task(C) == {"in", "out"} \X Good(C)
VisitsOK(new, v, C) ==
    /\ new \in Seq(Task(C)) /\ \A i, j \in 1..Len(new) : new[i] = new[j] => i = j
    /\ \A i \in 1..Len(new) :
          /\ Parent(new[i][2]) = v /\ new[i][2] # Root
          /\ new[i][1] # "in" => \E j \in 1..(i - 1) : new[j] = <<"in", new[i][2]>>
LEMMA VisitsIs ==
    ASSUME OmpAssumption, OrderAssumption, PathInv, NEW v \in Good(Connected)
    PROVE  VisitsOK(Visits(v), v, Connected)
<1>1. v \in Nodes
  BY ConnectedSites DEF Good, Nodes, Functions
<1>2. PICK G : G = Good(Connected)
  OBVIOUS
<1>3. PICK n \in Nat : n = Len(Kids(v)) /\ DOMAIN Kids(v) = 1..n
  BY <1>1, KidsIs
<1>4. PICK s : s = Kids(v)
  OBVIOUS
<1>5. ASSUME NEW i \in 1..n PROVE s[i] \in G /\ Parent(s[i]) = v /\ s[i] # Root
  <2>1. ToSet(Kids(v)) = KidSet(v)
    BY <1>1, KidsIs
  <2>2. s[i] \in KidSet(v)
    BY <1>3, <1>4, <2>1 DEF ToSet
  <2> QED
    BY <1>2, <2>2, KidsOfGood
<1>6. \A i, j \in 1..n : s[i] = s[j] => i = j
  <2>1. \A i, j \in 1..Len(Kids(v)) : Kids(v)[i] = Kids(v)[j] => i = j
    BY <1>1, KidsIs
  <2> QED
    BY <1>3, <1>4, <2>1
<1>7. PICK w : w = Visits(v)
  OBVIOUS
<1>8. CASE v[1] = "call" /\ s # <<>>
  <2>1. n # 0
    <3>1. s \in Seq(Nodes)
      BY <1>1, <1>4, KidsIs
    <3> QED
      BY <1>3, <1>4, <1>8, <3>1, EmptySeq
  <2>2. PICK k \in G : k = s[1] /\ Parent(k) = v /\ k # Root
    <3>1. 1 \in 1..n
      BY <2>1
    <3> QED
      BY <1>5, <3>1
  <2>3. PICK a \in {"in", "out"} \X G, b \in {"in", "out"} \X G : a = <<"in", k>> /\ b = <<"out", k>>
    OBVIOUS
  <2>4. w = <<a, b>>
    BY <1>4, <1>7, <1>8, <2>2, <2>3 DEF Visits
  <2>5. w \in Seq({"in", "out"} \X G) /\ Len(w) = 2 /\ w[1] = a /\ w[2] = b
    BY <2>4
  <2>6. a[1] = "in" /\ b[1] = "out" /\ a[2] = k /\ b[2] = k /\ a # b
    BY <2>3
  <2>7. \A i \in 1..2 : i = 1 \/ i = 2
    OBVIOUS
  <2>8. \A i, j \in 1..2 : w[i] = w[j] => i = j
    BY <2>5, <2>6, <2>7
  <2>9. ASSUME NEW i \in 1..2
        PROVE  /\ Parent(w[i][2]) = v /\ w[i][2] # Root
               /\ w[i][1] # "in" => \E j \in 1..(i - 1) : w[j] = <<"in", w[i][2]>>
    <3>1. CASE i = 1
      BY <2>2, <2>5, <2>6, <3>1
    <3>2. CASE i = 2
      <4>1. 1 \in 1..(2 - 1) /\ w[1] = <<"in", k>>
        BY <2>3, <2>5
      <4> QED
        BY <2>2, <2>5, <2>6, <3>2, <4>1
    <3> QED
      BY <2>7, <3>1, <3>2
  <2> QED
    BY <1>2, <1>7, <2>5, <2>8, <2>9 DEF VisitsOK, Task
<1>9. CASE ~(v[1] = "call" /\ s # <<>>)
  <2>1. w = [i \in 1..n |-> <<"in", s[i]>>]
    BY <1>3, <1>4, <1>7, <1>9 DEF Visits
  <2>2. \A i \in 1..n : <<"in", s[i]>> \in {"in", "out"} \X G
    BY <1>5
  <2>3. w \in Seq({"in", "out"} \X G) /\ Len(w) = n /\ \A i \in 1..n : w[i] = <<"in", s[i]>>
    BY <2>1, <2>2, IsASeq
  <2>4. ASSUME NEW i \in 1..n, NEW j \in 1..n, w[i] = w[j] PROVE i = j
    <3>1. <<"in", s[i]>> = <<"in", s[j]>>
      BY <2>3, <2>4
    <3>2. s[i] = s[j]
      BY ONLY <3>1
    <3> QED
      BY <1>6, <3>2
  <2>5. \A i \in 1..n : w[i][1] = "in" /\ w[i][2] = s[i]
    BY <2>3
  <2>6. \A i \in 1..n : Parent(w[i][2]) = v /\ w[i][2] # Root /\ ~(w[i][1] # "in")
    BY <1>5, <2>5
  <2>7. VisitsOK(w, v, Connected)
    BY <1>2, <2>3, <2>4, <2>6 DEF VisitsOK, Task
  <2> QED
    BY <1>7, <2>7
<1> QED
  BY <1>8, <1>9

\* The tasks before the walk: no vertex is entered twice, one that is to be entered is below
\* an entered one, and one that is to be left was entered or is entered earlier.
TodoOK(td, E, C) ==
    /\ td \in Seq(Task(C)) /\ \A i, j \in 1..Len(td) : td[i] = td[j] => i = j
    /\ \A i \in 1..Len(td) :
          /\ td[i][1] = "in" => td[i][2] \notin E /\ (td[i][2] = Root \/ Parent(td[i][2]) \in E)
          /\ td[i][1] # "in" => td[i][2] \in E \/ \E j \in 1..(i - 1) : td[j] = <<"in", td[i][2]>>
ClosedUp(E) == \A u \in E : u = Root \/ Parent(u) \in E

\* q is a in front of all but the first element of td.
Instead(a, td, q, S) == a \in Seq(S) /\ td \in Seq(S) /\ td # <<>> /\ q = a \o Tail(td)
Shifts(a, td, q, S) ==
    /\ q \in Seq(S) /\ Len(a) \in Nat /\ Len(td) \in Nat /\ Len(td) >= 1
    /\ Len(q) = Len(a) + Len(td) - 1
    /\ \A i \in 1..Len(a) : i \in 1..Len(q) /\ q[i] = a[i]
    /\ \A k \in 2..Len(td) : Len(a) + k - 1 \in 1..Len(q) /\ q[Len(a) + k - 1] = td[k]
    /\ \A i \in 1..Len(q) : i \in 1..Len(a) \/ \E k \in 2..Len(td) : i = Len(a) + k - 1
LEMMA Prepended ==
    ASSUME NEW S, NEW a, NEW td, NEW q, Instead(a, td, q, S)
    PROVE  Shifts(a, td, q, S)
<1> a \in Seq(S) /\ td \in Seq(S) /\ td # <<>> /\ q = a \o Tail(td)
  BY DEF Instead
<1>1. PICK n \in Nat, m \in Nat : n = Len(a) /\ m = Len(td) /\ m >= 1
  BY EmptySeq
<1>2. Tail(td) \in Seq(S) /\ Len(Tail(td)) = m - 1 /\ \A k \in 1..(m - 1) : Tail(td)[k] = td[k + 1]
  BY <1>1
<1>3. PICK r : r = Tail(td)
  OBVIOUS
<1>4. r \in Seq(S) /\ Len(r) = m - 1
  BY <1>2, <1>3
<1>5. /\ a \o r \in Seq(S) /\ Len(a \o r) = Len(a) + Len(r)
      /\ \A i \in 1..(Len(a) + Len(r)) : (a \o r)[i] = IF i <= Len(a) THEN a[i] ELSE r[i - Len(a)]
  BY <1>4, ConcatProperties
<1>6. q \in Seq(S) /\ Len(q) = n + m - 1
      /\ \A i \in 1..(n + (m - 1)) : q[i] = IF i <= n THEN a[i] ELSE r[i - n]
  <2>1. q = a \o r /\ Len(r) = m - 1 /\ Len(a) = n
    BY <1>1, <1>3, <1>4
  <2> QED
    BY <1>5, <2>1
<1>7. \A i \in 1..n : i \in 1..Len(q) /\ q[i] = a[i]
  BY <1>1, <1>6
<1>8. ASSUME NEW k \in 2..m PROVE n + k - 1 \in 1..Len(q) /\ q[n + k - 1] = td[k]
  <2>1. n + k - 1 \in 1..(n + (m - 1)) /\ ~(n + k - 1 <= n) /\ n + k - 1 - n = k - 1
    BY <1>1
  <2>2. k - 1 \in 1..(m - 1) /\ (k - 1) + 1 = k
    BY <1>1
  <2>3. r[k - 1] = td[k]
    BY <1>2, <1>3, <2>2
  <2> QED
    BY <1>1, <1>6, <2>1, <2>3
<1>9. ASSUME NEW i \in 1..Len(q) PROVE i \in 1..n \/ \E k \in 2..m : i = n + k - 1
  <2>1. CASE i <= n
    BY <1>1, <2>1
  <2>2. CASE ~(i <= n)
    <3>1. i - n + 1 \in 2..m /\ i = n + (i - n + 1) - 1
      BY <1>1, <1>6, <2>2
    <3> QED
      BY <3>1
  <2> QED
    BY <2>1, <2>2
<1> QED
  BY <1>1, <1>6, <1>7, <1>8, <1>9 DEF Shifts

\* The first task is to enter v, and new is put in its place; it is to leave f, and is dropped.
Enters(td, v, new, q) == td # <<>> /\ td[1][1] = "in" /\ v = td[1][2] /\ q = new \o Tail(td)
Leaves(td, f, q) == td # <<>> /\ td[1][1] # "in" /\ f = td[1][2] /\ q = Tail(td)

LEMMA EnterTodo ==
    ASSUME NEW C, NEW E, NEW td, TodoOK(td, E, C), ClosedUp(E),
           NEW v, NEW new, NEW q, Enters(td, v, new, q), VisitsOK(new, v, C)
    PROVE  v \in Good(C) /\ v \notin E /\ TodoOK(q, E \cup {v}, C) /\ ClosedUp(E \cup {v})
<1> td # <<>> /\ td[1][1] = "in" /\ v = td[1][2] /\ q = new \o Tail(td)
  BY DEF Enters
<1>1. PICK n \in Nat, m \in Nat : n = Len(new) /\ m = Len(td) /\ m >= 1
  BY EmptySeq DEF TodoOK, VisitsOK
<1>2. td \in Seq(Task(C)) /\ new \in Seq(Task(C))
  BY DEF TodoOK, VisitsOK
<1>3. /\ q \in Seq(Task(C)) /\ Len(q) = n + m - 1
      /\ \A i \in 1..n : i \in 1..Len(q) /\ q[i] = new[i]
      /\ \A k \in 2..m : n + k - 1 \in 1..Len(q) /\ q[n + k - 1] = td[k]
      /\ \A i \in 1..Len(q) : i \in 1..n \/ \E k \in 2..m : i = n + k - 1
  <2>1. Instead(new, td, q, Task(C))
    BY <1>2 DEF Instead
  <2>2. Shifts(new, td, q, Task(C))
    BY <2>1, Prepended
  <2> QED
    BY <1>1, <2>2 DEF Shifts
<1>4. \A k \in 1..m : td[k] \in Task(C)
  BY <1>1, <1>2
<1>5. \A k \in 1..n : new[k] \in Task(C)
  BY <1>1, <1>2
<1>6. 1 \in 1..m
  BY <1>1
<1>7. v \in Good(C) /\ td[1] = <<"in", v>>
  BY <1>4, <1>6 DEF Task
<1>8. v \notin E /\ (v = Root \/ Parent(v) \in E)
  BY <1>1, <1>6 DEF TodoOK
<1>9. ClosedUp(E \cup {v})
  BY <1>8 DEF ClosedUp
<1>10. Parent(v) # v
  BY <1>7, ParentDiffers
<1>11. ASSUME NEW u, Parent(u) = v, u # Root
       PROVE  u \notin E \cup {v}
  BY <1>8, <1>10, <1>11 DEF ClosedUp
<1>12. ASSUME NEW k \in 2..m PROVE ~(Parent(td[k][2]) = v /\ td[k][2] # Root)
  <2>1. SUFFICES ASSUME Parent(td[k][2]) = v, td[k][2] # Root PROVE FALSE
    OBVIOUS
  <2>2. td[k][2] \notin E \cup {v}
    BY <1>11, <2>1
  <2>3. ASSUME NEW j \in 1..m, td[j] = <<"in", td[k][2]>> PROVE FALSE
    <3>1. td[j][1] = "in" /\ td[j][2] = td[k][2]
      BY <2>3
    <3>2. td[j][2] = Root \/ Parent(td[j][2]) \in E
      BY <1>1, <3>1 DEF TodoOK
    <3> QED
      BY <1>8, <2>1, <3>1, <3>2
  <2>4. k \in 1..m
    BY <1>1
  <2>5. td[k] \in Task(C)
    BY <1>4, <2>4
  <2>6. CASE td[k][1] = "in"
    <3>1. td[k] = <<"in", td[k][2]>>
      BY <2>5, <2>6 DEF Task
    <3> QED
      BY <2>3, <2>4, <3>1
  <2>7. CASE td[k][1] # "in"
    <3>1. td[k][2] \in E \/ \E j \in 1..(k - 1) : td[j] = <<"in", td[k][2]>>
      BY <1>1, <2>4, <2>7 DEF TodoOK
    <3>2. \A j \in 1..(k - 1) : j \in 1..m
      BY <1>1, <2>4
    <3> QED
      BY <2>2, <2>3, <3>1, <3>2
  <2> QED
    BY <2>6, <2>7
<1>13. \A i \in 1..n : Parent(new[i][2]) = v /\ new[i][2] # Root
  BY <1>1 DEF VisitsOK
<1>14. ASSUME NEW i \in 1..n, NEW k \in 2..m PROVE new[i] # td[k]
  BY <1>12, <1>13
<1>15. ASSUME NEW i \in 1..Len(q), NEW j \in 1..Len(q), q[i] = q[j] PROVE i = j
  <2>1. CASE i \in 1..n /\ j \in 1..n
    BY <1>1, <1>3, <1>15, <2>1 DEF VisitsOK
  <2>2. ASSUME NEW a \in 1..n, NEW b \in 2..m, q[a] = q[n + b - 1] PROVE FALSE
    <3>1. q[a] = new[a]
      BY <1>3
    <3>2. q[n + b - 1] = td[b]
      BY <1>3
    <3> QED
      BY <1>14, <2>2, <3>1, <3>2
  <2>3. ASSUME NEW a \in 2..m, NEW b \in 2..m, i = n + a - 1, j = n + b - 1 PROVE i = j
    <3>1. td[a] = td[b]
      BY <1>3, <1>15, <2>3
    <3>2. a \in 1..m /\ b \in 1..m
      BY <1>1
    <3>3. a = b
      BY <1>1, <3>1, <3>2 DEF TodoOK
    <3> QED
      BY <2>3, <3>3
  <2> QED
    BY <1>3, <1>15, <2>1, <2>2, <2>3, ZenonT(60)
<1>16. ASSUME NEW i \in 1..Len(q), q[i][1] = "in"
       PROVE  q[i][2] \notin E \cup {v} /\ (q[i][2] = Root \/ Parent(q[i][2]) \in E \cup {v})
  <2>1. CASE i \in 1..n
    BY <1>3, <1>11, <1>13, <2>1
  <2>2. ASSUME NEW k \in 2..m, i = n + k - 1
        PROVE  q[i][2] \notin E \cup {v} /\ (q[i][2] = Root \/ Parent(q[i][2]) \in E \cup {v})
    <3>1. q[i] = td[k] /\ k \in 1..m
      BY <1>1, <1>3, <2>2
    <3>2. td[k][2] \notin E /\ (td[k][2] = Root \/ Parent(td[k][2]) \in E)
      BY <1>1, <1>16, <3>1 DEF TodoOK
    <3>3. ASSUME td[k][2] = v PROVE FALSE
      <4>1. td[k] = <<"in", v>>
        BY <1>4, <1>16, <3>1, <3>3 DEF Task
      <4>2. k = 1
        BY <1>1, <1>6, <1>7, <3>1, <4>1 DEF TodoOK
      <4> QED
        BY <4>2
    <3> QED
      BY <3>1, <3>2, <3>3
  <2> QED
    BY <1>3, <2>1, <2>2
<1>17. ASSUME NEW i \in 1..Len(q), q[i][1] # "in"
       PROVE  q[i][2] \in E \cup {v} \/ \E j \in 1..(i - 1) : q[j] = <<"in", q[i][2]>>
  <2>1. CASE i \in 1..n
    <3>1. PICK j \in 1..(i - 1) : new[j] = <<"in", new[i][2]>>
      BY <1>1, <1>3, <1>17, <2>1 DEF VisitsOK
    <3>2. j \in 1..n
      BY <1>1, <2>1
    <3>3. q[j] = new[j] /\ q[i] = new[i]
      BY <1>3, <2>1, <3>2
    <3> QED
      BY <3>1, <3>3
  <2>2. ASSUME NEW k \in 2..m, i = n + k - 1
        PROVE  q[i][2] \in E \cup {v} \/ \E j \in 1..(i - 1) : q[j] = <<"in", q[i][2]>>
    <3>1. q[i] = td[k] /\ k \in 1..m
      BY <1>1, <1>3, <2>2
    <3>2. td[k][2] \in E \/ \E j \in 1..(k - 1) : td[j] = <<"in", td[k][2]>>
      BY <1>1, <1>17, <3>1 DEF TodoOK
    <3>3. ASSUME NEW j \in 1..(k - 1), td[j] = <<"in", td[k][2]>>
          PROVE  q[i][2] \in E \cup {v} \/ \E h \in 1..(i - 1) : q[h] = <<"in", q[i][2]>>
      <4>1. CASE j = 1
        <5>1. td[j][2] = td[k][2]
          BY <3>3
        <5> QED
          BY <3>1, <4>1, <5>1
      <4>2. CASE j # 1
        <5>1. j \in 2..m /\ n + j - 1 \in 1..(i - 1)
          BY <1>1, <2>2, <4>2
        <5>2. q[n + j - 1] = td[j]
          BY <1>3, <5>1
        <5>3. q[n + j - 1] = <<"in", q[i][2]>>
          BY <3>1, <3>3, <5>2
        <5> QED
          BY <5>1, <5>3
      <4> QED
        BY <4>1, <4>2
    <3> QED
      BY <3>1, <3>2, <3>3
  <2> QED
    BY <1>3, <2>1, <2>2
<1> QED
  BY <1>3, <1>7, <1>8, <1>9, <1>15, <1>16, <1>17 DEF TodoOK

LEMMA LeaveTodo ==
    ASSUME NEW C, NEW E, NEW td, TodoOK(td, E, C), NEW f, NEW q, Leaves(td, f, q)
    PROVE  TodoOK(q, E, C) /\ f \in E /\ f \in Good(C)
<1> td # <<>> /\ td[1][1] # "in" /\ f = td[1][2] /\ q = Tail(td)
  BY DEF Leaves
<1>1. PICK m \in Nat : m = Len(td) /\ m >= 1
  BY EmptySeq DEF TodoOK
<1>2. td \in Seq(Task(C)) /\ 1 \in 1..m
  BY <1>1 DEF TodoOK
<1>3. td[1] \in Task(C)
  BY <1>1, <1>2
<1>4. ~ \E j \in 1..(1 - 1) : td[j] = <<"in", td[1][2]>>
  OBVIOUS
<1>5. td[1][2] \in E
  BY <1>1, <1>2, <1>4 DEF TodoOK
<1>7. q \in Seq(Task(C)) /\ Len(q) = m - 1 /\ \A i \in 1..(m - 1) : q[i] = td[i + 1] /\ i + 1 \in 1..m
  BY <1>1, <1>2
<1>8. ASSUME NEW i \in 1..(m - 1), NEW j \in 1..(m - 1), q[i] = q[j] PROVE i = j
  <2>1. i + 1 = j + 1
    BY <1>1, <1>7, <1>8 DEF TodoOK
  <2> QED
    BY <2>1
<1>9. ASSUME NEW i \in 1..(m - 1), q[i][1] = "in"
      PROVE  q[i][2] \notin E /\ (q[i][2] = Root \/ Parent(q[i][2]) \in E)
  BY <1>1, <1>7, <1>9 DEF TodoOK
<1>10. ASSUME NEW i \in 1..(m - 1), q[i][1] # "in"
       PROVE  q[i][2] \in E \/ \E j \in 1..(i - 1) : q[j] = <<"in", q[i][2]>>
  <2>1. q[i] = td[i + 1] /\ i + 1 \in 1..m
    BY <1>7
  <2>2. td[i + 1][2] \in E \/ \E j \in 1..((i + 1) - 1) : td[j] = <<"in", td[i + 1][2]>>
    BY <1>1, <1>10, <2>1 DEF TodoOK
  <2>3. ASSUME NEW j \in 1..((i + 1) - 1), td[j] = <<"in", td[i + 1][2]>>
        PROVE  \E h \in 1..(i - 1) : q[h] = <<"in", q[i][2]>>
    <3>1. j # 1
      <4>1. td[j][1] = "in"
        BY <2>3
      <4> QED
        BY <4>1
    <3>2. j - 1 \in 1..(i - 1) /\ j - 1 \in 1..(m - 1) /\ (j - 1) + 1 = j
      BY <1>1, <3>1
    <3>3. q[j - 1] = td[j]
      BY <1>7, <3>2
    <3>4. q[j - 1] = <<"in", q[i][2]>>
      BY <2>1, <2>3, <3>3
    <3> QED
      BY <3>2, <3>4
  <2> QED
    BY <2>1, <2>2, <2>3
<1>11. TodoOK(q, E, C)
  BY <1>7, <1>8, <1>9, <1>10 DEF TodoOK
<1>12. td[1][2] \in Good(C)
  BY <1>3 DEF Task
<1> QED
  BY <1>5, <1>11, <1>12

-----------------------------------------------------------------------------
(* Numbers that are counted off row by row                                   *)

LEMMA TimesGrows == ASSUME NEW a \in Nat, NEW b \in Nat, NEW w \in Nat, a <= b
                    PROVE  a * w \in Nat /\ b * w \in Nat /\ a * w <= b * w
  OBVIOUS
LEMMA NextRow == ASSUME NEW a \in Nat, NEW w \in Nat PROVE (a + 1) * w = a * w + w /\ a * w \in Nat
  OBVIOUS
LEMMA RowIs ==
    ASSUME NEW a \in Nat, NEW w \in Nat \ {0}
    PROVE  a \div w \in Nat /\ a % w \in 0..(w - 1) /\ a = ((a \div w) * w) + (a % w)
  OBVIOUS
LEMMA RowUnique ==
    ASSUME NEW w \in Nat \ {0}, NEW a \in Nat, NEW b \in Nat, NEW x \in 0..(w - 1), NEW y \in 0..(w - 1),
           a * w + x = b * w + y
    PROVE  a = b /\ x = y
<1>1. ASSUME NEW c \in Nat, NEW d \in Nat, NEW p \in 0..(w - 1), NEW q \in 0..(w - 1),
             c * w + p = d * w + q, c < d
      PROVE  FALSE
  <2>1. (c + 1) * w <= d * w
    BY <1>1, TimesGrows
  <2>2. (c + 1) * w = c * w + w /\ c * w \in Nat /\ d * w \in Nat
    BY NextRow
  <2> QED
    BY <1>1, <2>1, <2>2
<1>2. ~(a < b) /\ ~(b < a)
  BY <1>1
<1>3. a = b /\ a * w \in Nat
  BY <1>2
<1> QED
  BY <1>3

\* The column and the row of the k-th number, where a row has w.
Column(k, w) == ((k - 1) % w) + 1
Row(k, w) == ((k - 1) \div w) + 1
\* The k-th number of n rows of w is in a row and a column; each row and column has its number.
InRows(m, n, w) ==
    /\ m \in Nat
    /\ \A k \in 1..m : Column(k, w) \in 1..w /\ Row(k, w) \in 1..n
    /\ \A k, l \in 1..m : Column(k, w) = Column(l, w) /\ Row(k, w) = Row(l, w) => k = l
    /\ \A t \in 1..n, p \in 1..w : \E k \in 1..m : Column(k, w) = p /\ Row(k, w) = t
LEMMA RowsAreCounted ==
    ASSUME NEW n \in Nat \ {0}, NEW w \in Nat
    PROVE  InRows(n * w, n, w)
<1>1. n * w \in Nat
  OBVIOUS
<1>2. w = 0 => 1..(n * w) = {} /\ 1..w = {}
  OBVIOUS
<1>3. SUFFICES ASSUME w # 0
               PROVE  /\ \A k \in 1..(n * w) : Column(k, w) \in 1..w /\ Row(k, w) \in 1..n
                      /\ \A k, l \in 1..(n * w) : Column(k, w) = Column(l, w) /\ Row(k, w) = Row(l, w) => k = l
                      /\ \A t \in 1..n, p \in 1..w : \E k \in 1..(n * w) : Column(k, w) = p /\ Row(k, w) = t
  BY <1>1, <1>2, Zenon DEF InRows
<1>4. ASSUME NEW k \in 1..(n * w)
      PROVE  Column(k, w) \in 1..w /\ Row(k, w) \in 1..n
  <2>1. PICK a \in Nat : a = k - 1
    BY <1>1
  <2>2. PICK d \in Nat, r \in 0..(w - 1) : d = a \div w /\ r = a % w /\ a = d * w + r
    BY <1>3, RowIs
  <2>3. ASSUME n <= d PROVE FALSE
    <3>1. n * w <= d * w /\ d * w \in Nat
      BY <2>3, TimesGrows
    <3> QED
      BY <1>1, <2>1, <2>2, <3>1
  <2>4. d + 1 \in 1..n /\ r + 1 \in 1..w
    BY <2>2, <2>3
  <2> QED
    BY <2>1, <2>2, <2>4 DEF Column, Row
<1>5. ASSUME NEW k \in 1..(n * w), NEW l \in 1..(n * w), Column(k, w) = Column(l, w), Row(k, w) = Row(l, w)
      PROVE  k = l
  <2>1. PICK a \in Nat, b \in Nat : a = k - 1 /\ b = l - 1
    BY <1>1
  <2>2. PICK d \in Nat, r \in 0..(w - 1) : d = a \div w /\ r = a % w /\ a = d * w + r
    BY <1>3, RowIs
  <2>3. PICK e \in Nat, x \in 0..(w - 1) : e = b \div w /\ x = b % w /\ b = e * w + x
    BY <1>3, RowIs
  <2>4. r + 1 = x + 1 /\ d + 1 = e + 1
    BY <1>5, <2>1, <2>2, <2>3 DEF Column, Row
  <2>5. r = x /\ d = e
    BY <2>4
  <2> QED
    BY <1>1, <2>1, <2>2, <2>3, <2>5
<1>6. ASSUME NEW t \in 1..n, NEW p \in 1..w
      PROVE  \E k \in 1..(n * w) : Column(k, w) = p /\ Row(k, w) = t
  <2>1. PICK a \in Nat, x \in 0..(w - 1) : a = t - 1 /\ x = p - 1
    <3>1. t - 1 \in Nat /\ p - 1 \in 0..(w - 1)
      OBVIOUS
    <3> QED
      BY <3>1
  <2>2. a * w \in Nat /\ (a + 1) * w = a * w + w /\ (a + 1) * w <= n * w
    BY <2>1, NextRow, TimesGrows
  <2>3. PICK b \in Nat : b = a * w + x
    BY <2>2
  <2>4. b + 1 \in 1..(n * w)
    BY <1>1, <2>2, <2>3
  <2>5. PICK d \in Nat, r \in 0..(w - 1) : d = b \div w /\ r = b % w /\ b = d * w + r
    BY <1>3, RowIs
  <2>6. a = d /\ x = r
    BY <1>3, <2>3, <2>5, RowUnique
  <2>7. PICK k \in 1..(n * w) : k = b + 1
    BY <2>4
  <2>8. k - 1 = b
    BY <2>7
  <2>9. Column(k, w) = p /\ Row(k, w) = t
    <3>1. r + 1 = p /\ d + 1 = t
      BY <2>1, <2>6
    <3> QED
      BY <2>5, <2>8, <3>1 DEF Column, Row
  <2> QED
    BY <2>9
<1> QED
  BY <1>4, <1>5, <1>6, Zenon

-----------------------------------------------------------------------------
(* The copies                                                                *)

\* What thread i is given of the data of a vertex.
MData == UNION {[D -> Nat] : D \in SUBSET Nat}
Share(d, i) == LET groups == Ascending(DOMAIN d)
               IN  IF i \in DOMAIN groups THEN [g \in {groups[i]} |-> d[g]] ELSE EmptyBag
LEMMA ShareIs ==
    ASSUME NEW d, DataOK(d), NEW i
    PROVE  /\ Share(d, i) \in MData /\ Cardinality(DOMAIN d) \in Nat
           /\ \A m \in DOMAIN Share(d, i) :
                 /\ m \in DOMAIN d /\ Share(d, i)[m] = d[m]
                 /\ i \in 1..Cardinality(DOMAIN d) /\ Ascending(DOMAIN d)[i] = m
           /\ \A m \in DOMAIN d : i \in 1..Cardinality(DOMAIN d) /\ Ascending(DOMAIN d)[i] = m
                 => m \in DOMAIN Share(d, i)
<1>1. PICK S \in SUBSET Nat : S = DOMAIN d /\ IsFiniteSet(S)
  BY DEF DataOK
<1>2. PICK s : s = Ascending(S)
  OBVIOUS
<1>3. Cardinality(S) \in Nat /\ s \in Seq(S) /\ Len(s) = Cardinality(S) /\ DOMAIN s = 1..Cardinality(S)
  <2>1. S \in SUBSET Int
    OBVIOUS
  <2> QED
    BY <1>1, <1>2, <2>1, AscendingIs
<1>4. CASE i \in DOMAIN s
  <2>1. PICK g \in S : g = s[i]
    <3>1. i \in 1..Len(s) /\ s \in Seq(S)
      BY <1>3, <1>4
    <3>2. s[i] \in S
      BY <3>1
    <3> QED
      BY <3>2
  <2>2. Share(d, i) = [h \in {g} |-> d[h]]
    BY <1>1, <1>2, <1>4, <2>1 DEF Share
  <2>3. PICK e : e = [h \in {g} |-> d[h]]
    OBVIOUS
  <2>4. d[g] \in Nat
    BY <1>1 DEF DataOK
  <2>5. e \in [{g} -> Nat] /\ {g} \in SUBSET Nat
    BY <1>1, <2>3, <2>4
  <2>6. e \in MData
    BY <2>5 DEF MData
  <2>7. DOMAIN e = {m \in S : i \in 1..Cardinality(S) /\ s[i] = m}
    BY <1>3, <1>4, <2>1, <2>3
  <2>8. \A m \in DOMAIN e : e[m] = d[m]
    BY <2>3
  <2>9. Share(d, i) = e
    BY <2>2, <2>3
  <2> QED
    BY <1>1, <1>2, <1>3, <2>6, <2>7, <2>8, <2>9
<1>5. CASE i \notin DOMAIN s
  <2>1. Share(d, i) = EmptyBag
    BY <1>1, <1>2, <1>5 DEF Share
  <2>2. DOMAIN EmptyBag = {} /\ EmptyBag \in [{} -> Nat]
    BY DEF EmptyBag, SetToBag
  <2>3. EmptyBag \in MData
    BY <2>2 DEF MData
  <2>4. {m \in S : i \in 1..Cardinality(S) /\ s[i] = m} = {}
    BY <1>3, <1>5
  <2> QED
    BY <1>1, <1>2, <1>3, <2>1, <2>2, <2>3, <2>4
<1> QED
  BY <1>4, <1>5

\* A vertex is copied for every thread once, and is not recorded again; its copies share
\* its data.
Entered(mn, seq) == {mn[c].of : c \in 1..Len(mn)} \cup {seq[k] : k \in 1..Len(seq)}
Node(C) == [of : Good(C), thread : 0..num_threads]
CopiesOK(mn, md, seq, dat, C) ==
    /\ mn \in Seq(Node(C)) /\ md \in Seq(MData) /\ Len(md) = Len(mn)
    /\ seq \in Seq(Good(C)) /\ \A j, k \in 1..Len(seq) : seq[j] = seq[k] => j = k
    /\ \A c \in 1..Len(mn) : mn[c].thread # 0 =>
          /\ md[c] = Share(dat[mn[c].of], mn[c].thread)
          /\ \A k \in 1..Len(seq) : seq[k] # mn[c].of
          /\ \A j \in 1..num_threads : \E e \in 1..Len(mn) : mn[e].of = mn[c].of /\ mn[e].thread = j
          /\ \A e \in 1..Len(mn) : mn[e].of = mn[c].of /\ mn[e].thread = mn[c].thread => e = c

\* s2 is s with x behind it.
Longer(s2, s, x) == s2 = Append(s, x)
LEMMA LongerIs ==
    ASSUME NEW S, NEW s \in Seq(S), NEW x \in S, NEW s2, Longer(s2, s, x)
    PROVE  /\ s2 \in Seq(S) /\ Len(s) \in Nat /\ Len(s2) = Len(s) + 1
           /\ \A i \in 1..Len(s) : s2[i] = s[i]
           /\ s2[Len(s) + 1] = x
  BY DEF Longer

LEMMA EnterRecorded ==
    ASSUME NEW C, NEW mn, NEW md, NEW seq, NEW dat, CopiesOK(mn, md, seq, dat, C),
           NEW v \in Good(C), v \notin Entered(mn, seq), NEW s2, Longer(s2, seq, v)
    PROVE  CopiesOK(mn, md, s2, dat, C) /\ Entered(mn, s2) = Entered(mn, seq) \cup {v}
<1>1. PICK w \in Nat : w = Len(seq)
  BY DEF CopiesOK
<1>2. s2 \in Seq(Good(C)) /\ Len(s2) = w + 1 /\ (\A i \in 1..w : s2[i] = seq[i]) /\ s2[w + 1] = v
  <2>1. seq \in Seq(Good(C))
    BY DEF CopiesOK
  <2> QED
    BY <1>1, <2>1, LongerIs
<1>3. \A k \in 1..w : seq[k] # v
  BY <1>1 DEF Entered
<1>4. \A c \in 1..Len(mn) : mn[c].of # v
  BY DEF Entered
<1>5. \A j, k \in 1..w : seq[j] = seq[k] => j = k
  BY <1>1 DEF CopiesOK
<1>6. \A i \in 1..(w + 1) : i \in 1..w \/ i = w + 1
  OBVIOUS
<1>7. \A j, k \in 1..(w + 1) : s2[j] = s2[k] => j = k
  BY <1>2, <1>3, <1>5, <1>6
<1>8. ASSUME NEW c \in 1..Len(mn), mn[c].thread # 0
      PROVE  \A k \in 1..(w + 1) : s2[k] # mn[c].of
  <2>1. \A k \in 1..w : seq[k] # mn[c].of
    BY <1>1, <1>8 DEF CopiesOK
  <2> QED
    BY <1>2, <1>4, <1>6, <2>1
<1>9. CopiesOK(mn, md, s2, dat, C)
  BY <1>2, <1>7, <1>8 DEF CopiesOK
<1>10. {s2[k] : k \in 1..(w + 1)} = {seq[k] : k \in 1..w} \cup {v}
  <2>1. w + 1 \in 1..(w + 1) /\ \A k \in 1..w : k \in 1..(w + 1)
    OBVIOUS
  <2> QED
    BY <1>2, <1>6, <2>1
<1> QED
  BY <1>1, <1>2, <1>9, <1>10 DEF Entered

LEMMA EnterSerial ==
    ASSUME OrderAssumption, NEW C, NEW mn, NEW md, NEW seq, NEW dat, CopiesOK(mn, md, seq, dat, C),
           NEW v \in Good(C), v \notin Entered(mn, seq),
           NEW m2, Longer(m2, mn, Copy(v, 0)), NEW d2, Longer(d2, md, EmptyBag)
    PROVE  CopiesOK(m2, d2, seq, dat, C) /\ Entered(m2, seq) = Entered(mn, seq) \cup {v}
<1>1. PICK n \in Nat : n = Len(mn) /\ n = Len(md)
  BY DEF CopiesOK
<1>2. PICK x : x = Copy(v, 0)
  OBVIOUS
<1>3. x.of = v /\ x.thread = 0 /\ x \in Node(C)
  BY <1>2 DEF Copy, Node, OrderAssumption
<1>4. m2 \in Seq(Node(C)) /\ Len(m2) = n + 1 /\ (\A i \in 1..n : m2[i] = mn[i]) /\ m2[n + 1] = x
  <2>1. PICK S : S = Node(C)
    OBVIOUS
  <2>2. mn \in Seq(S) /\ Longer(m2, mn, x) /\ x \in S
    BY <1>2, <1>3, <2>1 DEF CopiesOK
  <2>3. /\ m2 \in Seq(S) /\ Len(m2) = Len(mn) + 1
        /\ \A i \in 1..Len(mn) : m2[i] = mn[i]
        /\ m2[Len(mn) + 1] = x
    BY <2>2, LongerIs
  <2> QED
    BY <1>1, <2>1, <2>3
<1>5. d2 \in Seq(MData) /\ Len(d2) = n + 1 /\ (\A i \in 1..n : d2[i] = md[i])
  <2>1. EmptyBag \in [{} -> Nat]
    BY DEF EmptyBag, SetToBag
  <2>2. EmptyBag \in MData
    BY <2>1 DEF MData
  <2>3. PICK y \in MData : y = EmptyBag
    BY <2>2
  <2>4. md \in Seq(MData) /\ Longer(d2, md, y)
    BY <2>3 DEF CopiesOK
  <2> QED
    BY <1>1, <2>4, LongerIs
<1>6. \A i \in 1..(n + 1) : i \in 1..n \/ i = n + 1
  OBVIOUS
<1>7. \A c \in 1..n : mn[c].of # v
  BY <1>1 DEF Entered
<1>8. ASSUME NEW c \in 1..(n + 1), m2[c].thread # 0
      PROVE  /\ d2[c] = Share(dat[m2[c].of], m2[c].thread)
             /\ \A k \in 1..Len(seq) : seq[k] # m2[c].of
             /\ \A j \in 1..num_threads : \E e \in 1..(n + 1) : m2[e].of = m2[c].of /\ m2[e].thread = j
             /\ \A e \in 1..(n + 1) : m2[e].of = m2[c].of /\ m2[e].thread = m2[c].thread => e = c
  <2>1. c \in 1..n /\ m2[c] = mn[c] /\ d2[c] = md[c]
    BY <1>3, <1>4, <1>5, <1>6, <1>8
  <2>2. mn[c].thread # 0
    BY <1>8, <2>1
  <2>3. /\ md[c] = Share(dat[mn[c].of], mn[c].thread)
        /\ \A k \in 1..Len(seq) : seq[k] # mn[c].of
        /\ \A j \in 1..num_threads : \E e \in 1..n : mn[e].of = mn[c].of /\ mn[e].thread = j
        /\ \A e \in 1..n : mn[e].of = mn[c].of /\ mn[e].thread = mn[c].thread => e = c
    BY <1>1, <2>1, <2>2 DEF CopiesOK
  <2>4. \A j \in 1..num_threads : \E e \in 1..(n + 1) : m2[e].of = m2[c].of /\ m2[e].thread = j
    <3>1. \A e \in 1..n : e \in 1..(n + 1) /\ m2[e] = mn[e]
      BY <1>4
    <3> QED
      BY <2>1, <2>3, <3>1
  <2>5. ASSUME NEW e \in 1..(n + 1), m2[e].of = m2[c].of, m2[e].thread = m2[c].thread
        PROVE  e = c
    <3>1. e \in 1..n
      BY <1>3, <1>4, <1>6, <1>7, <2>1, <2>5
    <3> QED
      BY <1>4, <2>1, <2>3, <2>5, <3>1
  <2> QED
    BY <2>1, <2>3, <2>4, <2>5
<1>9. CopiesOK(m2, d2, seq, dat, C)
  <2>1. seq \in Seq(Good(C)) /\ \A j, k \in 1..Len(seq) : seq[j] = seq[k] => j = k
    BY DEF CopiesOK
  <2> QED
    BY <1>4, <1>5, <1>8, <2>1 DEF CopiesOK
<1>10. {m2[c].of : c \in 1..(n + 1)} = {mn[c].of : c \in 1..n} \cup {v}
  <2>1. n + 1 \in 1..(n + 1) /\ \A k \in 1..n : k \in 1..(n + 1)
    OBVIOUS
  <2>2. \A c \in 1..n : m2[c].of = mn[c].of
    BY <1>4
  <2>3. m2[n + 1].of = v
    BY <1>3, <1>4
  <2> QED
    BY <1>6, <2>1, <2>2, <2>3
<1> QED
  BY <1>1, <1>4, <1>9, <1>10 DEF Entered

\* The recorded vertices, row by row for the threads, stand behind the end of the region.
CopiesBehind(m2, mn, f, seq) ==
    m2 = mn \o <<Copy(f, 0)>> \o [k \in 1..(num_threads * Len(seq)) |->
                                    Copy(seq[((k - 1) % Len(seq)) + 1], ((k - 1) \div Len(seq)) + 1)]
DataBehind(d2, md, seq, dat) ==
    d2 = md \o <<EmptyBag>> \o [k \in 1..(num_threads * Len(seq)) |->
                                  Share(dat[seq[((k - 1) % Len(seq)) + 1]], ((k - 1) \div Len(seq)) + 1)]

\* Behind(s2, s, x, r): s2 is s, then x, then r.
Behind(s2, s, x, r) == s2 = s \o <<x>> \o r
LEMMA BehindIs ==
    ASSUME NEW S, NEW s \in Seq(S), NEW x \in S, NEW r \in Seq(S), NEW s2, Behind(s2, s, x, r)
    PROVE  /\ s2 \in Seq(S) /\ Len(s2) = Len(s) + 1 + Len(r)
           /\ \A i \in 1..Len(s) : s2[i] = s[i]
           /\ s2[Len(s) + 1] = x
           /\ \A k \in 1..Len(r) : s2[Len(s) + 1 + k] = r[k]
<1>1. PICK one \in Seq(S) : one = <<x>> /\ Len(one) = 1 /\ one[1] = x
  <2>1. <<x>> \in Seq(S) /\ Len(<<x>>) = 1 /\ <<x>>[1] = x
    OBVIOUS
  <2> QED
    BY <2>1, Zenon
<1>2. PICK n \in Nat, m \in Nat : n = Len(s) /\ m = Len(r)
  OBVIOUS
<1>3. PICK p : p = s \o one
  OBVIOUS
<1>4. p \in Seq(S) /\ Len(p) = n + 1 /\ \A i \in 1..(n + 1) : p[i] = IF i <= n THEN s[i] ELSE one[i - n]
  BY <1>1, <1>2, <1>3, ConcatProperties
<1>5. s2 = p \o r
  BY <1>1, <1>3 DEF Behind
<1>6. /\ s2 \in Seq(S) /\ Len(s2) = n + 1 + m
      /\ \A i \in 1..(n + 1 + m) : s2[i] = IF i <= n + 1 THEN p[i] ELSE r[i - (n + 1)]
  <2>1. p \in Seq(S) /\ r \in Seq(S)
    BY <1>4
  <2>2. /\ p \o r \in Seq(S) /\ Len(p \o r) = Len(p) + Len(r)
        /\ \A i \in 1..(Len(p) + Len(r)) : (p \o r)[i] = IF i <= Len(p) THEN p[i] ELSE r[i - Len(p)]
    BY ONLY <2>1, ConcatProperties
  <2> QED
    BY <1>2, <1>4, <1>5, <2>2
<1>7. \A i \in 1..n : s2[i] = s[i]
  BY <1>4, <1>6
<1>8. s2[n + 1] = x
  BY <1>1, <1>4, <1>6
<1>9. ASSUME NEW k \in 1..m PROVE s2[n + 1 + k] = r[k]
  <2>1. n + 1 + k \in 1..(n + 1 + m) /\ ~(n + 1 + k <= n + 1) /\ n + 1 + k - (n + 1) = k
    BY <1>2
  <2> QED
    BY <1>6, <2>1
<1> QED
  BY <1>2, <1>6, <1>7, <1>8, <1>9

LEMMA ExpandCopies ==
    ASSUME OrderAssumption, NEW C, NEW mn, NEW md, NEW seq, NEW dat, CopiesOK(mn, md, seq, dat, C),
           \A u \in Good(C) : DataOK(dat[u]),
           NEW f \in Good(C), f \in Entered(mn, seq),
           NEW m2, CopiesBehind(m2, mn, f, seq), NEW d2, DataBehind(d2, md, seq, dat),
           NEW q, q = <<>>
    PROVE  CopiesOK(m2, d2, q, dat, C) /\ Entered(m2, q) = Entered(mn, seq)
<1>1. PICK n \in Nat, w \in Nat : n = Len(mn) /\ n = Len(md) /\ w = Len(seq)
  BY DEF CopiesOK
<1>2. PICK N \in Nat \ {0} : N = num_threads
  BY DEF OrderAssumption
<1>3. PICK L \in Nat : L = N * w
  OBVIOUS
<1> DEFINE col(k) == Column(k, w)
           row(k) == Row(k, w)
<1>0. /\ \A k \in 1..L : Column(k, w) \in 1..w /\ Row(k, w) \in 1..N
      /\ \A k, l \in 1..L : Column(k, w) = Column(l, w) /\ Row(k, w) = Row(l, w) => k = l
      /\ \A t \in 1..N, p \in 1..w : \E k \in 1..L : Column(k, w) = p /\ Row(k, w) = t
  <2>1. InRows(L, N, w)
    BY <1>3, RowsAreCounted
  <2> QED
    BY <2>1, Zenon DEF InRows
<1>4. \A k \in 1..L : col(k) \in 1..w /\ row(k) \in 1..N
  BY <1>0
<1>5. \A k, l \in 1..L : col(k) = col(l) /\ row(k) = row(l) => k = l
  BY <1>0, Zenon
<1>6. \A t \in 1..N, p \in 1..w : \E k \in 1..L : col(k) = p /\ row(k) = t
  BY <1>0, Zenon
<1>7. PICK cs : cs = [k \in 1..L |-> Copy(seq[col(k)], row(k))]
  OBVIOUS
<1>8. PICK ds : ds = [k \in 1..L |-> Share(dat[seq[col(k)]], row(k))]
  OBVIOUS
<1>9. Behind(m2, mn, Copy(f, 0), cs) /\ Behind(d2, md, EmptyBag, ds)
  BY <1>1, <1>2, <1>3, <1>7, <1>8 DEF CopiesBehind, DataBehind, Behind, Column, Row
<1> HIDE DEF col, row
<1>10. PICK G : G = Good(C)
  OBVIOUS
<1>11. seq \in Seq(G) /\ \A j \in 1..w : seq[j] \in G
  BY <1>1, <1>10 DEF CopiesOK
<1>12. \A k \in 1..L : cs[k].of = seq[col(k)] /\ cs[k].thread = row(k)
  BY <1>7 DEF Copy
<1>13. ASSUME NEW k \in 1..L PROVE cs[k] \in Node(C)
  <2>1. col(k) \in 1..w /\ row(k) \in 1..N
    BY <1>4
  <2>2. seq[col(k)] \in G /\ row(k) \in 0..num_threads
    BY <1>2, <1>11, <2>1
  <2>3. cs[k] = [of |-> seq[col(k)], thread |-> row(k)]
    BY <1>7 DEF Copy
  <2> QED
    BY <1>10, <2>2, <2>3 DEF Node
<1>14. cs \in Seq(Node(C)) /\ Len(cs) = L
  BY <1>7, <1>13, IsASeq
<1>15. \A k \in 1..L : ds[k] = Share(dat[cs[k].of], cs[k].thread)
  BY <1>8, <1>12
<1>16. ASSUME NEW k \in 1..L PROVE ds[k] \in MData
  <2>1. seq[col(k)] \in Good(C)
    BY <1>4, <1>10, <1>11
  <2>2. DataOK(dat[seq[col(k)]])
    BY <2>1
  <2>3. Share(dat[seq[col(k)]], row(k)) \in MData
    BY <2>2, ShareIs
  <2> QED
    BY <1>8, <2>3
<1>17. ds \in Seq(MData) /\ Len(ds) = L
  BY <1>8, <1>16, IsASeq
<1>18. PICK x : x = Copy(f, 0)
  OBVIOUS
<1>19. x.of = f /\ x.thread = 0 /\ x \in Node(C)
  BY <1>2, <1>18 DEF Copy, Node
<1>20. /\ m2 \in Seq(Node(C)) /\ Len(m2) = n + 1 + L
       /\ \A i \in 1..n : m2[i] = mn[i]
       /\ m2[n + 1] = x
       /\ \A k \in 1..L : m2[n + 1 + k] = cs[k]
  <2>1. PICK S : S = Node(C)
    OBVIOUS
  <2>2. mn \in Seq(S) /\ x \in S /\ cs \in Seq(S) /\ Behind(m2, mn, x, cs)
    BY <1>9, <1>14, <1>18, <1>19, <2>1 DEF CopiesOK
  <2>3. /\ m2 \in Seq(S) /\ Len(m2) = Len(mn) + 1 + Len(cs)
        /\ \A i \in 1..Len(mn) : m2[i] = mn[i]
        /\ m2[Len(mn) + 1] = x
        /\ \A k \in 1..Len(cs) : m2[Len(mn) + 1 + k] = cs[k]
    BY <2>2, BehindIs
  <2> QED
    BY <1>1, <1>14, <2>1, <2>3
<1>21. /\ d2 \in Seq(MData) /\ Len(d2) = n + 1 + L
       /\ \A i \in 1..n : d2[i] = md[i]
       /\ \A k \in 1..L : d2[n + 1 + k] = ds[k]
  <2>1. EmptyBag \in [{} -> Nat]
    BY DEF EmptyBag, SetToBag
  <2>2. EmptyBag \in MData
    BY <2>1 DEF MData
  <2>3. PICK y \in MData : y = EmptyBag
    BY <2>2
  <2>4. PICK S : S = MData
    OBVIOUS
  <2>6. md \in Seq(S) /\ y \in S /\ ds \in Seq(S) /\ Behind(d2, md, y, ds)
    BY <1>9, <1>17, <2>3, <2>4 DEF CopiesOK
  <2>5. /\ d2 \in Seq(S) /\ Len(d2) = Len(md) + 1 + Len(ds)
        /\ \A i \in 1..Len(md) : d2[i] = md[i]
        /\ \A k \in 1..Len(ds) : d2[Len(md) + 1 + k] = ds[k]
    BY <2>6, BehindIs
  <2> QED
    BY <1>1, <1>17, <2>4, <2>5
<1>22. /\ \A i \in 1..(n + 1 + L) : i \in 1..n \/ i = n + 1 \/ \E k \in 1..L : i = n + 1 + k
       /\ \A i \in 1..n : i \in 1..(n + 1 + L)
       /\ \A k \in 1..L : n + 1 + k \in 1..(n + 1 + L)
  <2>1. ASSUME NEW i \in 1..(n + 1 + L), ~(i \in 1..n), i # n + 1 PROVE \E k \in 1..L : i = n + 1 + k
    <3>1. i - (n + 1) \in 1..L /\ i = n + 1 + (i - (n + 1))
      BY <2>1
    <3> QED
      BY <3>1
  <2> QED
    BY <2>1
<1>23. \A c \in 1..n : mn[c].thread # 0 => \A j \in 1..w : seq[j] # mn[c].of
  BY <1>1 DEF CopiesOK
<1> DEFINE Fits(c) ==
             /\ d2[c] = Share(dat[m2[c].of], m2[c].thread)
             /\ \A j \in 1..N : \E e \in 1..(n + 1 + L) : m2[e].of = m2[c].of /\ m2[e].thread = j
             /\ \A e \in 1..(n + 1 + L) : m2[e].of = m2[c].of /\ m2[e].thread = m2[c].thread => e = c
<1>24. ASSUME NEW c \in 1..n, mn[c].thread # 0
       PROVE  Fits(c)
  <2>1. /\ md[c] = Share(dat[mn[c].of], mn[c].thread)
        /\ \A j \in 1..N : \E e \in 1..n : mn[e].of = mn[c].of /\ mn[e].thread = j
        /\ \A e \in 1..n : mn[e].of = mn[c].of /\ mn[e].thread = mn[c].thread => e = c
    BY <1>1, <1>2, <1>24 DEF CopiesOK
  <2>2. m2[c] = mn[c] /\ d2[c] = md[c]
    BY <1>20, <1>21
  <2>3. \A j \in 1..N : \E e \in 1..(n + 1 + L) : m2[e].of = m2[c].of /\ m2[e].thread = j
    BY <1>20, <1>22, <2>1, <2>2
  <2>4. ASSUME NEW e \in 1..(n + 1 + L), m2[e].of = m2[c].of, m2[e].thread = m2[c].thread
        PROVE  e = c
    <3>1. CASE e \in 1..n
      BY <1>20, <2>1, <2>2, <2>4, <3>1
    <3>2. CASE e = n + 1
      BY <1>19, <1>20, <1>24, <2>2, <2>4, <3>2
    <3>3. ASSUME NEW k \in 1..L, e = n + 1 + k PROVE FALSE
      <4>1. m2[e].of = seq[col(k)] /\ col(k) \in 1..w
        BY <1>4, <1>12, <1>20, <3>3
      <4> QED
        BY <1>23, <1>24, <2>2, <2>4, <4>1
    <3> QED
      BY <1>22, <3>1, <3>2, <3>3
  <2> QED
    BY <2>1, <2>2, <2>3, <2>4
<1>25. ASSUME NEW l \in 1..L
       PROVE  Fits(n + 1 + l)
  <2>0. PICK c : c = n + 1 + l
    OBVIOUS
  <2>1. m2[c] = cs[l] /\ d2[c] = ds[l] /\ m2[c].of = seq[col(l)] /\ m2[c].thread = row(l)
    BY <1>12, <1>20, <1>21, <2>0
  <2>2. col(l) \in 1..w /\ row(l) \in 1..N
    BY <1>4
  <2>3. ASSUME NEW j \in 1..N PROVE \E e \in 1..(n + 1 + L) : m2[e].of = m2[c].of /\ m2[e].thread = j
    <3>1. PICK k \in 1..L : col(k) = col(l) /\ row(k) = j
      BY <1>6, <2>2
    <3>2. m2[n + 1 + k].of = seq[col(k)] /\ m2[n + 1 + k].thread = row(k)
      BY <1>12, <1>20
    <3>3. n + 1 + k \in 1..(n + 1 + L)
      BY <1>22
    <3> QED
      BY <2>1, <3>1, <3>2, <3>3
  <2>4. ASSUME NEW e \in 1..(n + 1 + L), m2[e].of = m2[c].of, m2[e].thread = m2[c].thread
        PROVE  e = c
    <3>1. CASE e \in 1..n
      <4>1. m2[e] = mn[e] /\ mn[e].of = seq[col(l)] /\ mn[e].thread = row(l)
        BY <1>20, <2>1, <2>4, <3>1
      <4>2. row(l) # 0
        BY <2>2
      <4> QED
        BY <1>23, <2>2, <3>1, <4>1, <4>2
    <3>2. CASE e = n + 1
      <4>1. m2[e].thread = 0 /\ row(l) # 0
        BY <1>19, <1>20, <2>2, <3>2
      <4> QED
        BY <2>1, <2>4, <4>1
    <3>3. ASSUME NEW k \in 1..L, e = n + 1 + k PROVE e = c
      <4>1. m2[e].of = seq[col(k)] /\ m2[e].thread = row(k) /\ col(k) \in 1..w
        BY <1>4, <1>12, <1>20, <3>3
      <4>2. seq[col(k)] = seq[col(l)] /\ row(k) = row(l)
        BY <2>1, <2>4, <4>1
      <4>3. col(k) = col(l)
        BY <1>1, <2>2, <4>1, <4>2 DEF CopiesOK
      <4>4. k = l
        BY <1>5, <4>2, <4>3
      <4> QED
        BY <2>0, <3>3, <4>4
    <3> QED
      BY <1>22, <3>1, <3>2, <3>3
  <2>5. Fits(c)
    BY <1>15, <2>1, <2>3, <2>4
  <2> HIDE DEF Fits
  <2> QED
    BY <2>0, <2>5
<1> HIDE DEF Fits
<1>26. ASSUME NEW c \in 1..(n + 1 + L), m2[c].thread # 0 PROVE Fits(c)
  <2>1. c # n + 1
    BY <1>19, <1>20, <1>26
  <2>2. CASE c \in 1..n
    <3>1. mn[c].thread # 0
      BY <1>20, <1>26, <2>2
    <3> QED
      BY <1>24, <2>2, <3>1
  <2> QED
    BY <1>22, <1>25, <2>1, <2>2
<1>27. q \in Seq(Good(C)) /\ Len(q) = 0 /\ 1..Len(q) = {}
  OBVIOUS
<1>28. CopiesOK(m2, d2, q, dat, C)
  BY <1>2, <1>20, <1>21, <1>26, <1>27 DEF CopiesOK, Fits
<1>29. Entered(m2, q) \subseteq Entered(mn, seq)
  <2>1. ASSUME NEW i \in 1..(n + 1 + L) PROVE m2[i].of \in Entered(mn, seq)
    <3>1. CASE i \in 1..n
      BY <1>1, <1>20, <3>1 DEF Entered
    <3>2. CASE i = n + 1
      BY <1>19, <1>20, <3>2
    <3>3. ASSUME NEW k \in 1..L, i = n + 1 + k PROVE m2[i].of \in Entered(mn, seq)
      <4>1. m2[i].of = seq[col(k)] /\ col(k) \in 1..w
        BY <1>4, <1>12, <1>20, <3>3
      <4> QED
        BY <1>1, <4>1 DEF Entered
    <3> QED
      BY <1>22, <3>1, <3>2, <3>3
  <2>2. Entered(m2, q) = {m2[i].of : i \in 1..(n + 1 + L)}
    BY <1>20, <1>27 DEF Entered
  <2> QED
    BY <2>1, <2>2
<1>30. Entered(mn, seq) \subseteq Entered(m2, q)
  <2>1. ASSUME NEW c \in 1..n PROVE mn[c].of \in Entered(m2, q)
    BY <1>20, <1>22 DEF Entered
  <2>2. ASSUME NEW p \in 1..w PROVE seq[p] \in Entered(m2, q)
    <3>1. 1 \in 1..N
      OBVIOUS
    <3>2. PICK k \in 1..L : col(k) = p /\ row(k) = 1
      BY <1>6, <3>1
    <3>3. m2[n + 1 + k].of = seq[p] /\ n + 1 + k \in 1..Len(m2)
      BY <1>12, <1>20, <1>22, <3>2
    <3> QED
      BY <3>3 DEF Entered
  <2> QED
    BY <1>1, <2>1, <2>2, ZenonT(60) DEF Entered
<1> QED
  BY <1>28, <1>29, <1>30

-----------------------------------------------------------------------------
(* The expansion                                                             *)

Walk(td, mn, md, seq, dat, C) ==
    /\ TodoOK(td, Entered(mn, seq), C) /\ ClosedUp(Entered(mn, seq))
    /\ CopiesOK(mn, md, seq, dat, C)

\* While the graph is expanded, what is entered and copied fits to what is still to be
\* entered and left; before, the walk stands at the root.
WalkInv == IF stage = "expand" THEN Walk(todo, mnode, mdata, openmp_seq, data, Connected)
           ELSE todo = <<<<"in", Root>>>> /\ mnode = <<>> /\ mdata = <<>> /\ openmp_seq = <<>>

LEMMA StartWalk ==
    ASSUME NEW C, NEW dat, NEW td, td = <<<<"in", Root>>>>, NEW e, e = <<>>
    PROVE  Walk(td, e, e, e, dat, C)
<1>1. Root \in Good(C)
  BY DEF Root, Good
<1>2. PICK a : a = <<"in", Root>>
  OBVIOUS
<1>3. a \in Task(C) /\ a[1] = "in" /\ a[2] = Root
  BY <1>1, <1>2 DEF Task
<1>4. td = <<a>>
  BY <1>2
<1>5. td \in Seq(Task(C)) /\ Len(td) = 1 /\ td[1] = a
  BY <1>3, <1>4
<1>6. \A i \in 1..1 : i = 1
  OBVIOUS
<1>7. Len(e) = 0 /\ 1..Len(e) = {} /\ \A S : e \in Seq(S)
  OBVIOUS
<1>8. Entered(e, e) = {}
  BY <1>7 DEF Entered
<1>9. TodoOK(td, {}, C) /\ ClosedUp({})
  BY <1>3, <1>5, <1>6 DEF TodoOK, ClosedUp
<1>10. CopiesOK(e, e, e, dat, C)
  BY <1>7 DEF CopiesOK
<1> QED
  BY <1>8, <1>9, <1>10 DEF Walk

LEMMA EnterWalk ==
    ASSUME OmpAssumption, OrderAssumption, PathInv, EnterVertex,
           Walk(todo, mnode, mdata, openmp_seq, data, Connected)
    PROVE  Walk(todo', mnode', mdata', openmp_seq', data, Connected)
<1>1. PICK C : C = Connected
  OBVIOUS
<1>2. PICK E : E = Entered(mnode, openmp_seq)
  OBVIOUS
<1>3. todo # <<>> /\ todo[1][1] = "in"
  BY DEF EnterVertex, Visiting
<1>4. PICK v : v = todo[1][2] /\ v = Vertex
  BY <1>3 DEF Vertex
<1>5. TodoOK(todo, E, C) /\ ClosedUp(E) /\ CopiesOK(mnode, mdata, openmp_seq, data, C)
  BY <1>1, <1>2 DEF Walk
<1>6. v \in Good(C)
  <2>1. todo \in Seq(Task(C))
    BY <1>5 DEF TodoOK
  <2>2. todo[1] \in Task(C)
    BY <1>3, <2>1, EmptySeq
  <2> QED
    BY <1>4, <2>2 DEF Task
<1>7. PICK new : new = Visits(v)
  OBVIOUS
<1>8. VisitsOK(new, v, C)
  BY <1>1, <1>6, <1>7, VisitsIs
<1>9. PICK q : q = todo'
  OBVIOUS
<1>10. q = new \o Tail(todo)
  BY <1>4, <1>7, <1>9 DEF EnterVertex
<1>11. v \notin E /\ TodoOK(q, E \cup {v}, C) /\ ClosedUp(E \cup {v})
  <2>1. Enters(todo, v, new, q)
    BY <1>3, <1>4, <1>10 DEF Enters
  <2> QED
    BY <1>5, <1>8, <2>1, EnterTodo
<1>12. CASE openmp_seq_record_flag
  <2>1. PICK s2 : s2 = openmp_seq'
    OBVIOUS
  <2>2. Longer(s2, openmp_seq, v) /\ mnode' = mnode /\ mdata' = mdata
    BY <1>4, <1>12, <2>1 DEF EnterVertex, Longer
  <2>3. CopiesOK(mnode, mdata, s2, data, C) /\ Entered(mnode, s2) = E \cup {v}
    BY <1>2, <1>5, <1>6, <1>11, <2>2, EnterRecorded
  <2> QED
    BY <1>1, <1>9, <1>11, <2>1, <2>2, <2>3 DEF Walk
<1>13. CASE ~openmp_seq_record_flag
  <2>1. PICK m2 : m2 = mnode'
    OBVIOUS
  <2>2. PICK d2 : d2 = mdata'
    OBVIOUS
  <2>3. Longer(m2, mnode, Copy(v, 0)) /\ Longer(d2, mdata, EmptyBag) /\ openmp_seq' = openmp_seq
    BY <1>4, <1>13, <2>1, <2>2 DEF EnterVertex, Longer
  <2>4. CopiesOK(m2, d2, openmp_seq, data, C) /\ Entered(m2, openmp_seq) = E \cup {v}
    BY <1>2, <1>5, <1>6, <1>11, <2>3, EnterSerial
  <2> QED
    BY <1>1, <1>9, <1>11, <2>1, <2>2, <2>3, <2>4 DEF Walk
<1> QED
  BY <1>12, <1>13

LEMMA LeaveWalk ==
    ASSUME OmpAssumption, OrderAssumption, PathInv, LeaveVertex \/ ExpandRegion,
           \A u \in Good(Connected) : DataOK(data[u]),
           Walk(todo, mnode, mdata, openmp_seq, data, Connected)
    PROVE  Walk(todo', mnode', mdata', openmp_seq', data, Connected)
<1>1. PICK C : C = Connected
  OBVIOUS
<1>2. PICK E : E = Entered(mnode, openmp_seq)
  OBVIOUS
<1>3. todo # <<>> /\ todo[1][1] # "in" /\ todo' = Tail(todo)
  <2>1. todo # <<>> /\ todo[1][1] = "out" /\ todo' = Tail(todo)
    BY DEF LeaveVertex, ExpandRegion, Visiting
  <2> QED
    BY <2>1
<1>4. PICK f : f = todo[1][2] /\ f = Vertex
  BY <1>3 DEF Vertex
<1>5. TodoOK(todo, E, C) /\ ClosedUp(E) /\ CopiesOK(mnode, mdata, openmp_seq, data, C)
  BY <1>1, <1>2 DEF Walk
<1>6. TodoOK(todo', E, C) /\ f \in E /\ f \in Good(C)
  <2>1. PICK q : q = todo'
    OBVIOUS
  <2>2. Leaves(todo, f, q)
    BY <1>3, <1>4, <2>1 DEF Leaves
  <2> QED
    BY <1>5, <2>1, <2>2, LeaveTodo
<1>7. CASE LeaveVertex
  <2>1. mnode' = mnode /\ mdata' = mdata /\ openmp_seq' = openmp_seq
    BY <1>7 DEF LeaveVertex
  <2> QED
    BY <1>1, <1>2, <1>5, <1>6, <2>1 DEF Walk
<1>8. CASE ExpandRegion
  <2>1. PICK m2 : m2 = mnode'
    OBVIOUS
  <2>2. PICK d2 : d2 = mdata'
    OBVIOUS
  <2>3. PICK e : e = openmp_seq' /\ e = <<>>
    BY <1>8 DEF ExpandRegion
  <2> DEFINE W == Len(openmp_seq)
             copy(k) == Copy(openmp_seq[((k - 1) % W) + 1], ((k - 1) \div W) + 1)
             copies == [k \in 1..(num_threads * W) |-> copy(k)]
  <2>4. CopiesBehind(m2, mnode, f, openmp_seq)
    BY <1>4, <1>8, <2>1 DEF ExpandRegion, Width, CopiesBehind
  <2>5. d2 = mdata \o <<EmptyBag>> \o [k \in DOMAIN copies |-> Scattered(copies[k].of, copies[k].thread)]
    BY <1>8, <2>2 DEF ExpandRegion, Width
  <2>6. \A k \in 1..(num_threads * W) : copies[k].of = copy(k).of /\ copies[k].thread = copy(k).thread
    OBVIOUS
  <2>7. \A k \in 1..(num_threads * W) :
           Scattered(copies[k].of, copies[k].thread) = Share(data[copy(k).of], copy(k).thread)
    BY <2>6 DEF Scattered, Share
  <2>8. \A k : copy(k).of = openmp_seq[((k - 1) % W) + 1] /\ copy(k).thread = ((k - 1) \div W) + 1
    BY DEF Copy
  <2>9. DataBehind(d2, mdata, openmp_seq, data)
    BY <2>5, <2>7, <2>8, ZenonT(60) DEF DataBehind
  <2>10. CopiesOK(m2, d2, e, data, C) /\ Entered(m2, e) = E
    BY <1>1, <1>2, <1>5, <1>6, <2>3, <2>4, <2>9, ExpandCopies
  <2> QED
    BY <1>1, <1>5, <1>6, <2>1, <2>2, <2>3, <2>10 DEF Walk
<1> QED
  BY <1>7, <1>8

LEMMA StepWalk ==
    ASSUME OmpAssumption, OrderAssumption, RecordInv, WalkInv, [OmpGraphNext]_<<sampler, analysis>>
    PROVE  WalkInv'
<1>1. PathInv /\ IInv /\ DataInv
  BY DEF RecordInv
<1>2. sampler' = sampler => Connected' = Connected
  BY DEF sampler, Connected, Recorded, BagToSet
<1>3. CASE UNCHANGED <<sampler, analysis>>
  BY <1>2, <1>3 DEF WalkInv, analysis
<1>4. CASE OmpNext /\ UNCHANGED analysis
  <2>1. stage # "expand"
    BY <1>1, <1>4, EndedStays DEF DataInv
  <2> QED
    BY <1>4, <2>1 DEF WalkInv, analysis
<1>5. CASE Embed
  BY <1>5 DEF Embed, WalkInv
<1>6. CASE Group
  <2>1. stage' = "expand" /\ todo' = <<<<"in", Root>>>> /\ mnode' = <<>> /\ mdata' = <<>> /\ openmp_seq' = <<>>
    BY <1>6 DEF Group, WalkInv
  <2>2. PICK td : td = todo'
    OBVIOUS
  <2>3. PICK e : e = <<>>
    OBVIOUS
  <2>4. PICK C : C = Connected'
    OBVIOUS
  <2>5. PICK dat : dat = data'
    OBVIOUS
  <2>6. Walk(td, e, e, e, dat, C)
    BY <2>1, <2>2, <2>3, StartWalk
  <2>7. Walk(todo', mnode', mdata', openmp_seq', data', Connected')
    BY <2>1, <2>2, <2>3, <2>4, <2>5, <2>6
  <2> QED
    BY <2>1, <2>7 DEF WalkInv
<1>7. CASE (EnterVertex \/ LeaveVertex \/ ExpandRegion) /\ UNCHANGED sampler
  <2>1. stage = "expand" /\ stage' = stage /\ data' = data
    <3>1. CASE EnterVertex
      BY <3>1 DEF EnterVertex, Visiting
    <3>2. CASE LeaveVertex
      BY <3>2 DEF LeaveVertex, Visiting
    <3>3. CASE ExpandRegion
      BY <3>3 DEF ExpandRegion, Visiting
    <3> QED
      BY <1>7, <3>1, <3>2, <3>3
  <2>2. Walk(todo, mnode, mdata, openmp_seq, data, Connected)
    BY <2>1 DEF WalkInv
  <2>3. \A u \in Good(Connected) : DataOK(data[u])
    <3>1. Good(Connected) \subseteq Vertices
      BY <1>1, ConnectedSites DEF Good, Vertices, Functions
    <3> QED
      BY <1>1, <2>1, <3>1 DEF DataInv
  <2>4. Walk(todo', mnode', mdata', openmp_seq', data, Connected)
    BY <1>1, <1>7, <2>2, <2>3, EnterWalk, LeaveWalk
  <2> QED
    BY <1>2, <1>7, <2>1, <2>4 DEF WalkInv
<1>8. CASE Expanded /\ UNCHANGED <<sampler, analysis>>
  BY <1>3, <1>8
<1> QED
  BY <1>3, <1>4, <1>5, <1>6, <1>7, <1>8 DEF OmpGraphNext

\* The copies of a vertex, and those of a function for a thread; the time and the groups of copies.
AreCopies(K, mn, v) == K = {c \in DOMAIN mn : mn[c].of = v /\ mn[c].thread # 0}
AreChain(J, mn, t, f) == J = {c \in DOMAIN mn : mn[c].thread = t /\ mn[c].of[2] = f}
TimeOf(md, K) == SumFunctionOnSet([c \in K |-> Total(md[c])], K)
GroupsOf(md, J) == UNION {DOMAIN md[c] : c \in J}

\* The copies of a vertex have its groups between them.
LEMMA CopiesShare ==
    ASSUME OrderAssumption, NEW mn, NEW md, NEW seq, NEW dat, NEW C, CopiesOK(mn, md, seq, dat, C),
           NEW v, DataOK(dat[v]), Cardinality(DOMAIN dat[v]) <= num_threads,
           NEW K, AreCopies(K, mn, v), K # {}
    PROVE  TimeOf(md, K) = Total(dat[v])
<1> K = {c \in DOMAIN mn : mn[c].of = v /\ mn[c].thread # 0}
  BY DEF AreCopies
<1>1. PICK n \in Nat : n = Len(mn) /\ DOMAIN mn = 1..n
  BY DEF CopiesOK
<1>2. PICK d : d = dat[v]
  OBVIOUS
<1>3. PICK S \in SUBSET Nat : S = DOMAIN d /\ IsFiniteSet(S) /\ \A m \in S : d[m] \in Nat
  BY <1>2 DEF DataOK
<1>4. PICK s : s = Ascending(S)
  OBVIOUS
<1>5. PICK size \in Nat : size = Cardinality(S) /\ size <= num_threads
  <2>1. Cardinality(S) \in Nat
    BY <1>3, FS_CardinalityType
  <2> QED
    BY <1>2, <1>3, <2>1
<1>6. /\ \A i, j \in 1..size : i < j => s[i] < s[j]
      /\ \A m \in S : \E i \in 1..size : s[i] = m
      /\ \A i \in 1..size : s[i] \in S
  <2>1. S \in SUBSET Int
    OBVIOUS
  <2>2. s \in Seq(S) /\ Len(s) = size
    BY <1>3, <1>4, <1>5, <2>1, AscendingIs
  <2>3. \A i \in 1..size : s[i] \in S
    BY <2>2
  <2> QED
    BY <1>3, <1>4, <1>5, <2>1, <2>3, AscendingIs, ZenonT(60)
<1>7. ASSUME NEW i \in 1..size, NEW j \in 1..size, s[i] = s[j] PROVE i = j
  <2>1. s[i] \in Nat /\ s[j] \in Nat
    BY <1>6
  <2>2. ~(i < j) /\ ~(j < i)
    BY <1>6, <1>7, <2>1
  <2> QED
    BY <2>2
<1>8. IsFiniteSet(K)
  <2>1. IsFiniteSet(1..n) /\ K \subseteq 1..n
    BY <1>1, FS_Interval
  <2> QED
    BY <2>1, FS_Subset
<1>9. \A k \in K : k \in 1..n /\ mn[k].of = v /\ mn[k].thread # 0
  BY <1>1
<1>10. ASSUME NEW k \in K
       PROVE  /\ md[k] = Share(d, mn[k].thread)
              /\ \A j \in 1..num_threads : \E e \in K : mn[e].thread = j
              /\ \A e \in K : mn[e].thread = mn[k].thread => e = k
  <2>1. /\ md[k] = Share(d, mn[k].thread)
        /\ \A j \in 1..num_threads : \E e \in 1..n : mn[e].of = v /\ mn[e].thread = j
        /\ \A e \in 1..n : mn[e].of = v /\ mn[e].thread = mn[k].thread => e = k
    <3>1. PICK u : u = mn[k].of /\ u = v
      BY <1>9
    <3>2. /\ md[k] = Share(dat[u], mn[k].thread)
          /\ \A j \in 1..num_threads : \E e \in 1..n : mn[e].of = u /\ mn[e].thread = j
          /\ \A e \in 1..n : mn[e].of = u /\ mn[e].thread = mn[k].thread => e = k
      <4>1. k \in 1..Len(mn) /\ mn[k].thread # 0
        BY <1>1, <1>9
      <4>2. /\ md[k] = Share(dat[mn[k].of], mn[k].thread)
            /\ \A j \in 1..num_threads : \E e \in 1..Len(mn) : mn[e].of = mn[k].of /\ mn[e].thread = j
            /\ \A e \in 1..Len(mn) : mn[e].of = mn[k].of /\ mn[e].thread = mn[k].thread => e = k
        BY <4>1, Zenon DEF CopiesOK
      <4> QED
        BY <1>1, <3>1, <4>2
    <3> QED
      BY <1>2, <3>1, <3>2
  <2>2. \A j \in 1..num_threads : j # 0
    OBVIOUS
  <2>3. \A j \in 1..num_threads : \E e \in K : mn[e].thread = j
    BY <1>1, <2>1, <2>2
  <2> QED
    BY <1>9, <2>1, <2>3
<1> DEFINE Has(k, m) == mn[k].thread \in 1..size /\ s[mn[k].thread] = m
           given == [m \in S |-> CHOOSE k \in K : Has(k, m)]
<1>11. ASSUME NEW m \in S PROVE \E k \in K : Has(k, m)
  <2>1. PICK i \in 1..size : s[i] = m
    BY <1>6
  <2>2. i \in 1..num_threads
    BY <1>5, OrderAssumption
  <2>3. PICK k \in K : mn[k].thread = i
    BY <1>10, <2>2
  <2> QED
    BY <2>1, <2>3
<1>12. \A m \in S : given[m] \in K /\ Has(given[m], m)
  <2> HIDE DEF Has
  <2> QED
    BY <1>11
<1>13. ASSUME NEW k \in K, NEW m \in S, Has(k, m) PROVE given[m] = k
  <2>1. PICK e \in K : e = given[m] /\ Has(e, m)
    <3> HIDE DEF Has, given
    <3> QED
      BY <1>12
  <2>2. mn[e].thread = mn[k].thread
    BY <1>7, <1>13, <2>1
  <2>3. e = k
    BY <1>10, <2>2
  <2> QED
    BY <2>1, <2>3
<1> HIDE DEF given
<1>14. ASSUME NEW k \in K
       PROVE  DOMAIN md[k] = Fibre(S, given, k) /\ \A m \in DOMAIN md[k] : md[k][m] = d[m]
  <2>1. DataOK(d)
    BY <1>2
  <2>2. PICK i : i = mn[k].thread
    OBVIOUS
  <2>3. /\ \A m \in DOMAIN Share(d, i) :
              /\ m \in DOMAIN d /\ Share(d, i)[m] = d[m]
              /\ i \in 1..Cardinality(DOMAIN d) /\ Ascending(DOMAIN d)[i] = m
        /\ \A m \in DOMAIN d : i \in 1..Cardinality(DOMAIN d) /\ Ascending(DOMAIN d)[i] = m
              => m \in DOMAIN Share(d, i)
    BY <2>1, ShareIs
  <2>4. DOMAIN md[k] = {m \in S : i \in 1..size /\ s[i] = m} /\ \A m \in DOMAIN md[k] : md[k][m] = d[m]
    BY <1>3, <1>4, <1>5, <1>10, <2>2, <2>3
  <2>5. \A m \in S : (i \in 1..size /\ s[i] = m) <=> given[m] = k
    BY <1>12, <1>13, <2>2
  <2> QED
    BY <2>4, <2>5 DEF Fibre
<1>15. ASSUME NEW k \in K PROVE Total(md[k]) = ByPart(d, S, given, K)[k]
  <2>1. PICK D : D = DOMAIN md[k] /\ D = Fibre(S, given, k)
    BY <1>14
  <2>2. IsFiniteSet(D)
    <3>1. D \subseteq S
      BY <2>1 DEF Fibre
    <3> QED
      BY <1>3, <3>1, FS_Subset
  <2>3. PICK h : h = md[k]
    OBVIOUS
  <2>4. \A m \in D : h[m] = d[m]
    BY <1>14, <2>1, <2>3
  <2>5. SumFunctionOnSet(h, D) = SumFunctionOnSet(d, D)
    BY <2>2, <2>4, SumSame
  <2> QED
    BY <2>1, <2>3, <2>5 DEF Total, ByPart
<1>16. PICK parts : parts = ByPart(d, S, given, K)
  OBVIOUS
<1>17. PICK F : F = [c \in K |-> Total(md[c])]
  OBVIOUS
<1>18. \A k \in K : F[k] = parts[k]
  BY <1>15, <1>16, <1>17
<1>19. SumFunctionOnSet(F, K) = SumFunctionOnSet(parts, K)
  BY <1>8, <1>18, SumSame
<1>20. SumFunctionOnSet(ByPart(d, S, given, K), K) = SumFunctionOnSet(d, S)
  <2>1. \A m \in S : d[m] \in Int
    BY <1>3
  <2>2. \A m \in S : given[m] \in K
    BY <1>12
  <2> QED
    BY <1>3, <1>8, <2>1, <2>2, SumFibres
<1>21. Total(dat[v]) = SumFunctionOnSet(d, S)
  BY <1>2, <1>3 DEF Total
<1> QED
  BY <1>16, <1>17, <1>19, <1>20, <1>21 DEF TimeOf

SameGroups(dat, C, f) == /\ f \in C => DOMAIN dat[<<"call", f>>] = {}
                         /\ DOMAIN dat[<<"fn", f>>] = DOMAIN dat[<<"loop", f>>]

\* The vertices of one function that are copied for one thread have one group.
LEMMA OneGroup ==
    ASSUME OmpAssumption, NEW mn, NEW md, NEW seq, NEW dat, NEW C, CopiesOK(mn, md, seq, dat, C), C \subseteq Sites,
           \A u \in Good(C) : DataOK(dat[u]),
           NEW f, SameGroups(dat, C, f), NEW t, t # 0, NEW J, AreChain(J, mn, t, f)
    PROVE  Cardinality(GroupsOf(md, J)) <= 1
<1> J = {c \in DOMAIN mn : mn[c].thread = t /\ mn[c].of[2] = f}
  BY DEF AreChain
<1> (f \in C => DOMAIN dat[<<"call", f>>] = {}) /\ DOMAIN dat[<<"fn", f>>] = DOMAIN dat[<<"loop", f>>]
  BY DEF SameGroups
<1>1. PICK D : D = IF f \in C \cup {Serial} THEN DOMAIN dat[<<"fn", f>>] ELSE DOMAIN dat[<<"call", f>>]
  OBVIOUS
<1>2. ASSUME NEW c \in J, NEW a \in DOMAIN md[c] PROVE a = Ascending(D)[t]
  <2>1. PICK u \in Good(C) : u = mn[c].of /\ u[2] = f /\ mn[c].thread = t /\ c \in 1..Len(mn)
    <3>1. c \in 1..Len(mn) /\ mn[c] \in Node(C) /\ mn[c].thread = t /\ mn[c].of[2] = f
      BY DEF CopiesOK
    <3>2. mn[c].of \in Good(C)
      BY <3>1 DEF Node
    <3> QED
      BY <3>1, <3>2
  <2>2. md[c] = Share(dat[u], t)
    BY <2>1 DEF CopiesOK
  <2>3. PICK d : d = dat[u] /\ DataOK(d)
    BY <2>1
  <2>4. a \in DOMAIN d /\ Ascending(DOMAIN d)[t] = a
    BY <2>2, <2>3, ShareIs
  <2>5. DOMAIN d = D
    <3>1. CASE u[1] = "call"
      <4>1. u = <<"call", f>> /\ f \in Sites
        BY <2>1, <3>1 DEF Good
      <4>2. f \notin C
        BY <2>3, <2>4, <4>1
      <4>3. f # Serial
        BY <4>1 DEF OmpAssumption
      <4> QED
        BY <1>1, <2>3, <4>1, <4>2, <4>3
    <3>2. CASE u[1] # "call"
      <4>1. u = <<"fn", f>> \/ u = <<"loop", f>>
        BY <2>1, <3>2 DEF Good
      <4>2. f \in C \cup {Serial}
        BY <2>1, <3>2 DEF Good
      <4> QED
        BY <1>1, <2>3, <4>1, <4>2
    <3> QED
      BY <3>1, <3>2
  <2> QED
    BY <2>4, <2>5
<1>3. PICK U : U = GroupsOf(md, J)
  OBVIOUS
<1>4. PICK g : g = Ascending(D)[t]
  OBVIOUS
<1>5. \A a \in U : a = g
  BY <1>2, <1>3, <1>4 DEF GroupsOf
<1>6. U = {} \/ U = {g}
  BY <1>5
<1>7. Cardinality({}) = 0 /\ Cardinality({g}) = 1
  BY FS_EmptySet, FS_Singleton
<1>8. Cardinality(U) <= 1
  <2>1. Cardinality(U) = 0 \/ Cardinality(U) = 1
    BY <1>6, <1>7, Zenon
  <2> QED
    BY <2>1
<1> QED
  BY <1>3, <1>8

\* In the expanded graph no time of a copied region is lost as long as there are no more
\* groups than copies, and if a function and its loop were sampled in the same groups, a copy
\* has the time of one of them (graph_perf.cpp, 983-1010).
THEOREM CopiesKeepTheTime == OmpSpec => []CopiesShareTheTime
<1> USE OmpAssumption, OrderAssumption
<1>1. OmpGraphInit => RecordInv /\ WalkInv
  <2>1. OmpGraphInit => WalkInv
    BY DEF OmpGraphInit, WalkInv
  <2> QED
    BY <2>1, InitRecord
<1>2. RecordInv /\ WalkInv /\ [OmpGraphNext]_<<sampler, analysis>> => RecordInv' /\ WalkInv'
  BY StepRecord, StepWalk
<1>3. RecordInv /\ WalkInv => CopiesShareTheTime
  <2>1. SUFFICES ASSUME RecordInv, WalkInv, Expanded,
                        NEW i \in {j \in DOMAIN mnode : mnode[j].thread # 0}, NEW v, v = mnode[i].of
                 PROVE  /\ Cardinality(DOMAIN data[v]) <= num_threads =>
                              Total([c \in CopiesOf(v) |-> Total(mdata[c])]) = Total(data[v])
                        /\ DOMAIN data[<<"fn", v[2]>>] = DOMAIN data[<<"loop", v[2]>>] =>
                              Cardinality(UNION {DOMAIN mdata[c] : c \in ChainOf(i)}) <= 1
    BY DEF CopiesShareTheTime
  <2>2. stage = "expand" /\ DataInv /\ PathInv
    BY <2>1 DEF Expanded, RecordInv
  <2>3. CopiesOK(mnode, mdata, openmp_seq, data, Connected)
    BY <2>1, <2>2 DEF WalkInv, Walk
  <2>4. Connected \subseteq Sites
    BY <2>2, ConnectedSites
  <2>5. \A u \in Good(Connected) : DataOK(data[u])
    <3>1. Good(Connected) \subseteq Vertices
      BY <2>4 DEF Good, Vertices, Functions
    <3> QED
      BY <2>2, <3>1 DEF DataInv
  <2>6. \A s \in Connected : DOMAIN data[<<"call", s>>] = {}
    BY <2>2 DEF DataInv
  <2>7. v \in Good(Connected)
    <3>1. mnode[i] \in Node(Connected)
      BY <2>3 DEF CopiesOK
    <3> QED
      BY <2>1, <3>1 DEF Node
  <2>8. ASSUME Cardinality(DOMAIN data[v]) <= num_threads
        PROVE  Total([c \in CopiesOf(v) |-> Total(mdata[c])]) = Total(data[v])
    <3>1. PICK K : K = CopiesOf(v)
      OBVIOUS
    <3>2. AreCopies(K, mnode, v) /\ K # {}
      BY <2>1, <3>1 DEF CopiesOf, AreCopies
    <3>3. DataOK(data[v])
      BY <2>5, <2>7
    <3>4. TimeOf(mdata, K) = Total(data[v])
      BY <2>3, <2>8, <3>2, <3>3, CopiesShare
    <3>5. DOMAIN [c \in K |-> Total(mdata[c])] = K
      OBVIOUS
    <3> QED
      BY <3>1, <3>4, <3>5 DEF Total, TimeOf
  <2>9. ASSUME DOMAIN data[<<"fn", v[2]>>] = DOMAIN data[<<"loop", v[2]>>]
        PROVE  Cardinality(UNION {DOMAIN mdata[c] : c \in ChainOf(i)}) <= 1
    <3>1. PICK f : f = v[2]
      OBVIOUS
    <3>2. PICK t : t = mnode[i].thread /\ t # 0
      BY <2>1
    <3>3. PICK J : J = ChainOf(i)
      OBVIOUS
    <3>4. AreChain(J, mnode, t, f)
      BY <2>1, <3>1, <3>2, <3>3 DEF ChainOf, AreChain
    <3>5. SameGroups(data, Connected, f)
      BY <2>6, <2>9, <3>1 DEF SameGroups
    <3>6. Cardinality(GroupsOf(mdata, J)) <= 1
      BY <2>3, <2>4, <2>5, <3>2, <3>4, <3>5, OneGroup
    <3> QED
      BY <3>3, <3>6 DEF GroupsOf
  <2> QED
    BY <2>8, <2>9
<1> QED
  BY <1>1, <1>2, <1>3, PTL DEF OmpSpec
==============================================================================
