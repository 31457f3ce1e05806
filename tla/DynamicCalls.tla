------------------------------ MODULE DynamicCalls -----------------------------
(***************************************************************************)
(* ReadDynamicProgramCallGraph (graph_perf.cpp): which functions a call    *)
(* reaches is learned from the call paths of the samples, and only such    *)
(* callees are connected by Expansion.  With debug information for shared  *)
(* objects, their functions are added as they are met.                     *)
(*                                                                         *)
(* Addresses are named for what the analysis finds there: <<"call", s>> at *)
(* or next to the call s, <<"in", f>> elsewhere in f, <<"start", Main>> in *)
(* front of main, <<"lib", l>> and <<"lib", Hidden>> in shared objects     *)
(* with and without debug information.  Every text address is in one of    *)
(* the functions of the static call graph.                                 *)
(***************************************************************************)
EXTENDS Expansion, Selection, SequencesExt, FiniteSetsExt

CONSTANTS Libs,       \* functions of shared objects; each is one call of its own address
          Inputs      \* the files: samples, edges, names, debug

Hidden == "hidden"
Start == <<"start", Main>>
Text(a) == a[1] # "lib"

\* The calls of the program itself, and the addresses of its call paths.
Plain == Sites \ UNION {Calls(l) : l \in Libs}
Address == ({"call"} \X {s \in Plain : \E f \in Functions : s \in Calls(f)})
           \cup ({"in"} \X (Functions \ Libs)) \cup {Start}
           \cup ({"lib"} \X (Libs \cup {Hidden}))

ASSUME LibAssumption ==
    /\ Libs \subseteq Functions \ {Main}
    /\ Hidden \notin Libs
    /\ \A l \in Libs : Len(Body[l]) = 1

ASSUME InputAssumption ==
    \A x \in Inputs : /\ x.samples \in Seq([thread : Nat, path : Seq(Address)])
                      /\ x.debug \in BOOLEAN

\* A sample is taken in a signal handler: innermost on its path is the sampler, a shared
\* object without debug information.  (Behind a path that ends in the program itself
\* callee_addr is used without a value, 167-186 and 209-240.)
ASSUME HandlerAssumption ==
    \A x \in Inputs : \A i \in DOMAIN x.samples :
        LET path == x.samples[i].path
        IN  path # <<>> => path[Len(path)] = <<"lib", Hidden>>

VARIABLES input, phase, row,
          visited,    \* visited_call_callee
          added       \* the library functions that were added to the call graph

dynamic == <<input, phase, row, visited, added>>

\* preserve_call_path_tail_so_addr: shared objects are kept at the inner end only.
Preserved(path) ==
    LET inner == Max({0} \cup {i \in DOMAIN path : Text(path[i])})
    IN  Selected(path, {i \in DOMAIN path : Text(path[i]) \/ i > inner})

VertexPath(i) == Preserved(input.samples[i].path)

DynamicInit == /\ callees = [s \in Sites |-> {}]
               /\ Init
               /\ input \in Inputs
               /\ phase = "samples" /\ row = 1
               /\ visited = {} /\ added = {}

Owner(s) == CHOOSE f \in Functions : s \in Calls(f)

\* What GetCallVertexWithAddr and GetFuncVertexWithAddr find, in a call graph to
\* which the libraries `there' were added.
CallAt(a, there) == IF a[1] = "call" THEN {a[2]}
                    ELSE IF a[1] = "lib" /\ a[2] \in there THEN Calls(a[2])
                    ELSE {}
FunctionAt(a, there) == IF a[1] = "call" THEN {Owner(a[2])}
                        ELSE IF a[1] = "in" \/ a[2] \in there THEN {a[2]}
                        ELSE {}

Known(a) == Text(a) \/ (input.debug /\ a[2] # Hidden)

\* One pair of a call and the address that follows it.
ConnectPair(g, pair) ==
    LET call == CallAt(pair[1], g.added)
        callee == pair[2]
        reached == IF callee[1] = "lib" THEN {callee[2]} ELSE FunctionAt(callee, g.added)
    IN  IF pair \in g.visited THEN g
        ELSE [callees |-> [s \in Sites |-> g.callees[s] \cup (IF s \in call THEN reached ELSE {})],
              added |-> IF call # {} /\ callee[1] = "lib" THEN g.added \cup {callee[2]} ELSE g.added,
              visited |-> IF input.debug THEN g.visited \cup {pair} ELSE {}]

\* Mutant: the address that was taken as a callee is not taken as a call.
Pairs_Disjoint(seen) == [i \in 1..(Len(seen) \div 2) |-> <<seen[2 * i - 1], seen[2 * i]>>]

Pairs(seen) == [i \in 1..(Len(seen) - 1) |-> <<seen[i], seen[i + 1]>>]

\* One pair after the other.
Connected(g, pairs) == FoldLeft(ConnectPair, g, pairs)

\* The first address is dropped, whatever thread it is of.
ReadSample ==
    /\ phase = "samples" /\ row <= Len(input.samples)
    /\ LET path == VertexPath(row)
           seen == Selected(path, {i \in 2..Len(path) : Known(path[i])})
           g == Connected([callees |-> callees, added |-> added, visited |-> visited], Pairs(seen))
       IN  callees' = g.callees /\ added' = g.added /\ visited' = g.visited
    /\ row' = row + 1
    /\ UNCHANGED <<input, phase, graphs, scanned, stack>>

StartConnecting ==
    /\ phase = "samples" /\ row > Len(input.samples)
    /\ phase' = "connect" /\ row' = 1 /\ visited' = {}
    /\ UNCHANGED <<input, added, vars>>

\* ConnectCallerCallee
Connecting == phase = "connect" /\ Connect /\ UNCHANGED dynamic

DynamicNext == ReadSample \/ StartConnecting \/ Connecting

DynamicSpec == DynamicInit /\ [][DynamicNext]_<<vars, dynamic>>
-----------------------------------------------------------------------------
(* Properties                                                                *)

\* The graph of main is complete before threads are added to it (Expansion).
EveryContextExpanded == phase = "connect" => FullyExpanded

\* What follows call s on a path: from the first call of the main thread, from the second
\* one of others.
Followers(path, s) ==
    LET p == Selected(path, {i \in DOMAIN path : Text(path[i])})
    IN  UNION {FunctionAt(p[k + 1], {}) : k \in {j \in 2..(Len(p) - 1) : p[j] = <<"call", s>>}}

\* The callees of a call are the functions in which a sample was taken through it, but
\* for functions of shared objects, which are known with debug information only; what is
\* the outermost call of another thread than the main one is not seen (159-299).
CalleesWereSampled ==
    phase # "samples" =>
        \A s \in Plain :
            /\ callees[s] \ Libs = UNION {Followers(input.samples[i].path, s) : i \in DOMAIN input.samples}
            /\ ~input.debug => callees[s] \cap Libs = {}
===============================================================================
