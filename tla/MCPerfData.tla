------------------------------ MODULE MCPerfData ------------------------------
(* Instances of PerfData for TLC. *)
EXTENDS PerfData, TLC

CONSTANTS m, w1, w2,   \* the main thread and two workers
          pm1, pm2, pw \* call paths: two of the main thread, one of the workers

\* A backtrace of the main thread ends in main, one of a worker in
\* start_routine_wrapper: they share no call path.  Two workers do.
MCPathsOf == [t \in Threads |-> IF t = Main THEN {pm1, pm2} ELSE {pw}]
MCPathsOfWorkers == [t \in Threads |-> IF t = Main THEN {} ELSE {pw}]
MCPathsOfAlone == [t \in Threads |-> Paths]
MCPaths   == {pm1, pm2, pw}
MCPathsOfOne == {pw}

SpaceTiny  == [v |-> 2, e |-> 2]
SpaceLarge == [v |-> 9, e |-> 9]

Calls(v, e)  == [c \in Context |-> IF Kind(c) = "v" THEN v ELSE e]
CallsFew     == Calls(2, 1)
CallsMany    == Calls(3, 2)
CallsUnequal == [c \in Context |-> IF c = Handler(Main) THEN 2 ELSE IF c = Wrapper(Main) THEN 0 ELSE 1]

Symmetric == Permutations({w1, w2})
===============================================================================
