------------------------------- MODULE OmpSampler -----------------------------
(***************************************************************************)
(* The sampler for OpenMP programs (omp_sampler.cpp) and the life of the   *)
(* counters of its threads (papi/sampler.cpp).  GOMP_parallel makes every  *)
(* thread of the team run fn_wrapper, which numbers the execution, samples *)
(* it, and records for the offline analysis which call of GOMP_parallel    *)
(* the number belongs to.  libgomp and PAPI are external.                  *)
(***************************************************************************)
EXTENDS Integers, Sequences, FiniteSets, SequencesExt

CONSTANTS Threads, Main, OsId,   \* OsId[t] is what gettid() returns in thread t
          Cores,                 \* MAX_NUM_CORE
          Sites, Outer,          \* calls of GOMP_parallel, and the one whose function makes the call
          Serial,                \* Outer[s] = Serial for a call in the serial part
          MaxRegions, MaxSamples \* bounds

ASSUME OmpAssumption ==
    /\ Main \in Threads /\ OsId \in [Threads -> Nat] /\ Cores \in Nat \ {0}
    /\ Serial \notin Sites /\ Outer \in [Sites -> Sites \cup {Serial}]
    /\ MaxRegions \in Nat /\ MaxSamples \in Nat

VARIABLES regions,           \* the calls of GOMP_parallel: site, call path, caller, team, who is through
          stack,             \* the regions each thread is in, and whether in its function
          counter,           \* the event set of each thread
          thread_global_id, record_thread_gid, record_perf_data_flag,
          samples, edges,    \* the records of perf_data
          ended

locals == <<record_thread_gid, record_perf_data_flag>>
sampler == <<regions, stack, counter, thread_global_id, locals, samples, edges, ended>>

MainGid == 0                 \* main_thread_gid
-----------------------------------------------------------------------------
(* The counter of a thread: a call in another state than these fails         *)

\* Mutant: the event set outlives UnsetOverflow.
Papi_KeepsSet(c, call) ==
    CASE c = "none" /\ call = "SetOverflow" -> "armed"
      [] c = "armed" /\ call = "Start" -> "running"
      [] c = "running" /\ call = "Stop" -> "armed"
      [] c = "armed" /\ call = "UnsetOverflow" -> "armed"
      [] OTHER -> "failed"

Papi(c, call) ==
    CASE c = "none" /\ call = "SetOverflow" -> "armed"
      [] c = "armed" /\ call = "Start" -> "running"
      [] c = "running" /\ call = "Stop" -> "armed"
      [] c = "armed" /\ call = "UnsetOverflow" -> "none"
      [] OTHER -> "failed"

Calls(t, first, then) == counter' = [counter EXCEPT ![t] = Papi(Papi(@, first), then)]

\* init_mock
OmpInit == /\ regions = <<>>
           /\ stack = [t \in Threads |-> <<>>]
           /\ counter = [t \in Threads |-> IF t = Main THEN "running" ELSE "none"]
           /\ thread_global_id = 1
           /\ record_thread_gid = [t \in Threads |-> 0]
           /\ record_perf_data_flag = [t \in Threads |-> FALSE]
           /\ samples = EmptyBag /\ edges = <<>>
           /\ ended = FALSE

Top(t) == Last(stack[t])
InFunction(t) == stack[t] # <<>> /\ Top(t).in = "function"
InProgram(t) == ~ended /\ (InFunction(t) \/ (t = Main /\ stack[t] = <<>>))
Function(t) == IF stack[t] = <<>> THEN Serial ELSE regions[Top(t).region].site
Busy(t) == t = Main \/ stack[t] # <<>>
           \/ \E k \in DOMAIN regions : t \in regions[k].team \ regions[k].through

\* The calls on the stack of thread t, from the outermost: that of the main thread starts
\* with the call of main, that of a worker in the function that it was taken into.
Path(t) == LET at == [i \in DOMAIN stack[t] |-> <<"call", regions[stack[t][i].region].site>>]
           IN  IF t = Main THEN <<<<"call", Serial>>>> \o at ELSE Tail(at)

\* GOMP_parallel up to the call of the real one, which takes workers that are idle.
Fork(t, s) ==
    /\ InProgram(t) /\ Outer[s] = Function(t) /\ Len(regions) < MaxRegions
    /\ \E workers \in SUBSET {w \in Threads \ {t} : ~Busy(w)} :
          regions' = Append(regions, [site |-> s, path |-> Append(Path(t), <<"call", s>>), caller |-> t,
                                      team |-> workers \cup {t}, through |-> {}])
    /\ stack' = [stack EXCEPT ![t] = Append(@, [region |-> Len(regions) + 1, in |-> "team"])]
    /\ Calls(t, "Stop", "UnsetOverflow")
    /\ UNCHANGED <<thread_global_id, locals, samples, edges, ended>>

Tid(t, gid) == gid * Cores + (OsId[t] % Cores)

\* Thread t is to run fn_wrapper for region k: the caller in its call, others when idle.
Called(t, k) ==
    /\ t \in regions[k].team \ regions[k].through
    /\ IF t = regions[k].caller THEN Top(t) = [region |-> k, in |-> "team"]
       ELSE stack[t] = <<>>

\* fn_wrapper up to the call of fn
Enter(t, k) ==
    /\ k \in DOMAIN regions /\ Called(t, k)
    /\ thread_global_id' = thread_global_id + 1
    /\ record_thread_gid' = [record_thread_gid EXCEPT ![t] = Tid(t, thread_global_id)]
    /\ record_perf_data_flag' = [record_perf_data_flag EXCEPT ![t] = FALSE]
    /\ stack' = [stack EXCEPT ![t] = Append(IF t = regions[k].caller THEN Front(@) ELSE @,
                                            [region |-> k, in |-> "function"])]
    /\ Calls(t, "SetOverflow", "Start")
    /\ UNCHANGED <<regions, samples, edges, ended>>

\* papi_handler and RecordCallPath, in a part of a function; by and in are history: who
\* was sampled, in which region.
Sample(t, part) ==
    /\ counter[t] = "running" /\ BagCardinality(samples) < MaxSamples
    /\ record_perf_data_flag' = [record_perf_data_flag EXCEPT ![t] = TRUE]
    /\ samples' = samples (+) SetToBag({[path |-> Append(Path(t), <<part, Function(t)>>),
                                         number |-> IF t = Main THEN MainGid ELSE record_thread_gid[t],
                                         by |-> t,
                                         in |-> IF stack[t] = <<>> THEN 0 ELSE Top(t).region]})
    /\ Calls(t, "Stop", "Start")
    /\ UNCHANGED <<regions, stack, thread_global_id, record_thread_gid, edges, ended>>

\* Mutant: close_thread_gid is called.
Leave_ClosesGid(t) ==
    /\ InFunction(t)
    /\ LET k == Top(t).region
       IN  /\ regions' = [regions EXCEPT ![k].through = @ \cup {t}]
           /\ stack' = [stack EXCEPT ![t] = IF t # regions[k].caller THEN Front(@)
                                            ELSE Append(Front(@), [region |-> k, in |-> "team"])]
           /\ edges' = IF t = Main \/ ~record_perf_data_flag[t] THEN edges
                       ELSE Append(edges, [path |-> regions[k].path, number |-> record_thread_gid[t]])
    /\ thread_global_id' = thread_global_id - 1
    /\ Calls(t, "Stop", "UnsetOverflow")
    /\ UNCHANGED <<locals, samples, ended>>

\* fn_wrapper behind the call of fn
Leave(t) ==
    /\ InFunction(t)
    /\ LET k == Top(t).region
       IN  /\ regions' = [regions EXCEPT ![k].through = @ \cup {t}]
           /\ stack' = [stack EXCEPT ![t] = IF t # regions[k].caller THEN Front(@)
                                            ELSE Append(Front(@), [region |-> k, in |-> "team"])]
           /\ edges' = IF t = Main \/ ~record_perf_data_flag[t] THEN edges
                       ELSE Append(edges, [path |-> regions[k].path, number |-> record_thread_gid[t]])
    /\ Calls(t, "Stop", "UnsetOverflow")
    /\ UNCHANGED <<thread_global_id, locals, samples, ended>>

\* The rest of GOMP_parallel, when the whole team is through.
Join(t) ==
    /\ stack[t] # <<>> /\ Top(t).in = "team"
    /\ regions[Top(t).region].through = regions[Top(t).region].team
    /\ stack' = [stack EXCEPT ![t] = Front(@)]
    /\ Calls(t, "SetOverflow", "Start")
    /\ UNCHANGED <<regions, thread_global_id, locals, samples, edges, ended>>

\* fini_mock
Exit == /\ InProgram(Main) /\ stack[Main] = <<>>
        /\ ended' = TRUE
        /\ counter' = [counter EXCEPT ![Main] = Papi(@, "Stop")]
        /\ UNCHANGED <<regions, stack, thread_global_id, locals, samples, edges>>

OmpNext == \/ \E t \in Threads : \/ \E s \in Sites : Fork(t, s)
                                 \/ \E k \in 1..MaxRegions : Enter(t, k)
                                 \/ \E part \in {"fn", "loop"} : Sample(t, part)
                                 \/ Leave(t) \/ Join(t)
           \/ Exit
-----------------------------------------------------------------------------
(* Properties                                                                *)

\* A thread is counted while it executes the program, inside nested regions too, and at
\* no other time; no call to PAPI finds the event set in a state it does not expect.
CountsTheProgram ==
    \A t \in Threads : counter[t] = IF InProgram(t) THEN "running"
                                    ELSE IF t = Main /\ ended THEN "armed" ELSE "none"

\* Only the main thread has called GOMP_parallel.
OnlyMainForks == \A k \in DOMAIN regions : regions[k].caller = Main

Through(t, k) == k # 0 /\ t \in regions[k].through

\* While no worker opens a region of its own, an execution of a worker that was sampled
\* has an edge from the call of GOMP_parallel to the number its samples have, once it is
\* through, and this number has no other edge and no samples of another execution
\* (174: "recording which GOMP_parallel create which threads").
SampledWorkersHaveEdge ==
    OnlyMainForks =>
        \A x \in BagToSet(samples) : x.by # Main =>
            /\ Through(x.by, x.in) =>
                   {e \in ToSet(edges) : e.number = x.number}
                       = {[path |-> regions[x.in].path, number |-> x.number]}
            /\ \A y \in BagToSet(samples) : y.number = x.number => y.by = x.by /\ y.in = x.in
===============================================================================
