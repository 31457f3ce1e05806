------------------------------- MODULE MCAnalysis ------------------------------
(***************************************************************************)
(* Three functions of the program and one of a shared object.  Without     *)
(* threads: samples through every calling context of up to three calls, in *)
(* which m2, f1 and g1 are indirect, or recursive, or call main again.     *)
(* With threads: scenarios of creations and joins, below.                  *)
(***************************************************************************)
EXTENDS ThreadGraph

MCFunctions == {"main", "f", "g", "restore"}
MCBody == [h \in MCFunctions |->
              CASE h = "main" -> <<"m1", "m2", "m3">> [] h = "f" -> <<"f1", "f2">>
                [] h = "g" -> <<"g1">> [] h = "restore" -> <<"r1">>]
MCSites == UNION {Range(MCBody[h]) : h \in MCFunctions}
MCLibs == {"restore"}

Handler == <<<<"lib", "restore">>, <<"lib", Hidden>>>>
At(sites) == [i \in DOMAIN sites |-> <<"call", sites[i]>>]
Sample(t, sites, inner) ==
    [thread |-> t, path |-> (IF t = 0 THEN <<Start>> ELSE <<>>) \o At(sites) \o inner \o Handler]

-----------------------------------------------------------------------------
(* Without threads                                                           *)

Contexts == {<<m, c>> : m \in {"m1", "m2"}, c \in {"f1", "g1"}}
            \cup {<<"m1", c, d>> : c \in {"f1", "g1"}, d \in {"f1", "g1"}}
Again == {<<"m1", c, "m1">> : c \in {"f1", "g1"}}
\* the sample is next to a call, or elsewhere in a function that the last call reaches
Ends == {<<>>} \cup {<<<<"in", h>>>> : h \in {"f", "g"}}
Samples(contexts) == {Sample(0, c, e) : c \in contexts, e \in Ends}
Called == [s \in MCSites |-> "call"]
Serial == {[samples |-> s, edges |-> <<>>, names |-> Called, debug |-> d] :
              s \in [1..2 -> Samples(Contexts)] \cup [1..1 -> Samples(Contexts \cup Again)], d \in BOOLEAN}

-----------------------------------------------------------------------------
(* With threads                                                              *)

Create(t, sites, new) == [create |-> TRUE, src |-> t, dest |-> new, destPath |-> <<>>,
                          srcPath |-> Sample(t, sites, <<>>).path]
Join(t, sites, old) == [create |-> FALSE, src |-> old, dest |-> t, srcPath |-> <<>>,
                        destPath |-> Sample(t, sites, <<>>).path]
Names(creates, joins) == [s \in MCSites |-> IF s \in creates THEN "pthread_create"
                                            ELSE IF s \in joins THEN "pthread_join" ELSE "call"]
Scenario(edges, names, samples) ==
    {[samples |-> samples, edges |-> edges, names |-> names, debug |-> d] : d \in BOOLEAN}
InF == <<<<"in", "f">>>>
InG == <<<<"in", "g">>>>

\* m1 creates a thread of f, m3 joins it; f1 is indirect
OneThread == Scenario(<<Create(0, <<"m1">>, 1), Join(0, <<"m3">>, 1)>>, Names({"m1"}, {"m3"}),
                 <<Sample(0, <<"m2">>, InG), Sample(1, <<"f1">>, <<>>), Sample(1, <<"f1">>, InG),
                   Sample(1, <<"f1", "g1">>, InF), Sample(1, <<>>, InF)>>)

\* f is the routine of two threads, created at one call or two; one call joins both
TwoThreads(second) ==
    Scenario(<<Create(0, <<"m1">>, 1), Create(0, <<second>>, 2), Join(0, <<"m3">>, 1), Join(0, <<"m3">>, 2)>>,
             Names({"m1", "m2"}, {"m3"}),
             <<Sample(1, <<"f1">>, InG), Sample(2, <<"f2", "f1">>, InG), Sample(2, <<"f2">>, InF)>>)

\* f, which main calls twice, creates and joins a thread of g each time; m2 is in no sample:
\* the creation through it has no vertex of its own
InFunction ==
    Scenario(<<Create(0, <<"m1", "f1">>, 1), Join(0, <<"m1", "f2">>, 1),
               Create(0, <<"m2", "f1">>, 2), Join(0, <<"m2", "f2">>, 2)>>,
             Names({"f1"}, {"f2"}),
             <<Sample(0, <<"m1">>, InF), Sample(1, <<"g1">>, <<>>), Sample(2, <<>>, InG), Sample(2, <<"g1">>, <<>>)>>)

\* main creates f, which calls g, where a thread of f is created; the records of the two
\* creations come in either order
Nested(first) ==
    LET outer == Create(0, <<"m1">>, 1)
        inner == Create(1, <<"f1", "g1">>, 2)
    IN  Scenario((IF first = 1 THEN <<outer, inner>> ELSE <<inner, outer>>)
                    \o <<Join(1, <<"f2">>, 2), Join(0, <<"m2">>, 1)>>,
                 Names({"m1", "g1"}, {"f2", "m2"}),
                 <<Sample(0, <<"m3">>, <<>>), Sample(1, <<>>, InF), Sample(1, <<"f1">>, InG),
                   Sample(1, <<"f2", "f1">>, InG), Sample(2, <<"g1">>, <<>>), Sample(2, <<>>, InG)>>)

\* the routine itself creates a thread
Direct == Scenario(<<Create(0, <<"m1">>, 1), Create(1, <<"f1">>, 2), Join(1, <<"f2">>, 2), Join(0, <<"m2">>, 1)>>,
                   Names({"m1", "f1"}, {"f2", "m2"}),
                   <<Sample(1, <<>>, InF), Sample(2, <<>>, InG)>>)

\* the first sample of the thread is outside the program, or there is none
Unseen(samples) == Scenario(<<Create(0, <<"m1">>, 1), Join(0, <<"m3">>, 1)>>, Names({"m1"}, {"m3"}), samples)

Threaded == OneThread \cup TwoThreads("m1") \cup TwoThreads("m2") \cup InFunction
            \cup Nested(1) \cup Nested(2) \cup Direct
            \cup Unseen(<<>>) \cup Unseen(<<Sample(1, <<>>, <<>>), Sample(1, <<"f1">>, InG)>>)
MCInputs == Serial \cup Threaded
===============================================================================
