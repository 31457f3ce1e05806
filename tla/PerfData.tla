------------------------------- MODULE PerfData -------------------------------
(***************************************************************************)
(* The sample buffers of class PerfData (src/core/perf_data.cpp), as the   *)
(* samplers use them: every application thread records vertex data from    *)
(* its PAPI overflow handler and edge data from the wrappers of            *)
(* pthread_create, pthread_join, pthread_mutex_lock and GOMP_parallel.     *)
(* All threads share one PerfData and nothing is locked.  A step is one    *)
(* access to a shared variable (a call path counts as one, and the search  *)
(* for a slot is one step), so that every interleaving of the recordings   *)
(* and of Dump is a behaviour.                                             *)
(***************************************************************************)
EXTENDS Integers, FiniteSetsExt, SequencesExt

CONSTANTS Threads,       \* the application's threads
          NoPath,        \* the call path of a fresh slot
          Main,          \* the thread whose user-defined id is 0, the value of a fresh slot
          Paths,         \* call paths
          PathsOf,       \* the call paths each thread can be sampled at
          Space,         \* vertex_ and edge_perf_data_space_size
          Slack,         \* Dump runs when this many slots are left: 5 in the code
          MaxCalls,      \* bound: how many records each thread makes of each kind
          SamplerRunsInWrapper, \* may the handler interrupt a wrapper that records?
          OpenMayFail    \* may fopen fail?

Kinds == {"v", "e"}      \* vertex data, edge data

ASSUME ThreadAssumption == /\ IsFiniteSet(Threads) /\ Main \in Threads
                           /\ NoPath \notin Paths
                           /\ PathsOf \in [Threads -> SUBSET Paths]
ASSUME SpaceAssumption  == /\ Space \in [Kinds -> Nat] /\ Slack \in Nat
                           /\ \A k \in Kinds : Slack < Space[k]
ASSUME SwitchAssumption == SamplerRunsInWrapper \in BOOLEAN /\ OpenMayFail \in BOOLEAN

Slot   == [path : Paths \cup {NoPath}, tid : Threads, value : Nat]
Blank  == [path |-> NoPath, tid |-> Main, value |-> 0]

(***************************************************************************)
(* A context is a thread in its overflow handler (kind "v", it runs        *)
(* RecordVertexData) or in a wrapper (kind "e", it runs RecordEdgeData).   *)
(***************************************************************************)
Context == Threads \X Kinds
ASSUME BoundAssumption == MaxCalls \in [Context -> Nat]
Thread(c) == c[1]
Kind(c)   == c[2]
Handler(t) == <<t, "v">>
Wrapper(t) == <<t, "e">>

VARIABLES slot,    \* vertex_perf_data and edge_perf_data
          count,   \* vertex_perf_data_count and edge_perf_data_count
          file,    \* the records in the output file, in order
          pc,      \* where each context is
          cur,     \* the call path a context is recording
          idx,     \* the slot it found or reserved
          tmp,     \* the value it read in "value += v"
          pos,     \* the loop variable i of its Dump
          calls,   \* how many records it has begun
          exited,  \* has the module's destructor begun?
          printed  \* history: how much of each key Dump ever printed

vars == <<slot, count, file, pc, cur, idx, tmp, pos, calls, exited, printed>>

Key == Kinds \X Threads \X Paths
Printing(k) == IF k = "v" THEN "print_v" ELSE "print_e"
Clearing(k) == IF k = "v" THEN "clear_v" ELSE "clear_e"
PC == {"idle", "query", "load", "store", "reserve", "path", "value", "tid", "check", "open",
       "print_v", "clear_v", "reset_v", "print_e", "clear_e", "reset_e",
       "clear_failed", "reset_failed"}

Init == /\ slot = [k \in Kinds |-> [i \in 0..(Space[k] - 1) |-> Blank]]
        /\ count = [k \in Kinds |-> 0]
        /\ file = << >>
        /\ pc  = [c \in Context |-> "idle"]
        /\ cur = [c \in Context |-> NoPath]
        /\ idx = [c \in Context |-> 0]
        /\ tmp = [c \in Context |-> 0]
        /\ pos = [c \in Context |-> 0]
        /\ calls = [c \in Context |-> 0]
        /\ exited = FALSE
        /\ printed = [key \in Key |-> 0]

Goto(c, l) == pc' = [pc EXCEPT ![c] = l]

\* A signal handler runs to its end before the code it interrupted goes on.
MayStep(c) == Kind(c) = "v" \/ pc[Handler(Thread(c))] = "idle"

\* Past the end of the array there is no slot of the buffer.
At(k, i) == IF i \in DOMAIN slot[k] THEN slot[k][i] ELSE Blank
Assign(k, i, s) == slot' = IF i \in DOMAIN slot[k] THEN [slot EXCEPT ![k][i] = s] ELSE slot

-----------------------------------------------------------------------------
(* RecordVertexData and RecordEdgeData                                       *)

\* The sampler calls Record*Data: in the handler when the counter overflows,
\* which the wrappers that stop the sampler first do not see.
Call(c, p) ==
    /\ pc[c] = "idle" /\ ~exited /\ calls[c] < MaxCalls[c]
    /\ IF Kind(c) = "v" THEN SamplerRunsInWrapper \/ pc[Wrapper(Thread(c))] = "idle"
                        ELSE MayStep(c)
    /\ cur' = [cur EXCEPT ![c] = p]
    /\ calls' = [calls EXCEPT ![c] = @ + 1]
    /\ Goto(c, IF Kind(c) = "v" THEN "query" ELSE "reserve")
    /\ UNCHANGED <<slot, count, file, idx, tmp, pos, exited, printed>>

\* Mutants: the search stops one slot early; it compares the call path only.
Matches_SkipsLast(c) == {i \in 0..(count["v"] - 2) :
                            At("v", i).path = cur[c] /\ At("v", i).tid = Thread(c)}
Matches_AnyThread(c) == {i \in 0..(count["v"] - 1) : At("v", i).path = cur[c]}

Matches(c) == {i \in 0..(count["v"] - 1) :
                  At("v", i).path = cur[c] /\ At("v", i).tid = Thread(c)}

\* QueryVertexData: the first of the recorded slots with this path and thread.
Query(c) ==
    /\ pc[c] = "query" /\ Kind(c) = "v"
    /\ \/ \E i \in Matches(c) :
             /\ \A j \in Matches(c) : i <= j
             /\ idx' = [idx EXCEPT ![c] = i]
             /\ Goto(c, "load")
       \/ /\ Matches(c) = {}
          /\ Goto(c, "reserve")
          /\ UNCHANGED idx
    /\ UNCHANGED <<slot, count, file, cur, tmp, pos, calls, exited, printed>>

\* "value += value" is a load and a store.
Load(c) ==
    /\ pc[c] = "load"
    /\ tmp' = [tmp EXCEPT ![c] = At("v", idx[c]).value]
    /\ Goto(c, "store")
    /\ UNCHANGED <<slot, count, file, cur, idx, pos, calls, exited, printed>>

Store(c) ==
    /\ pc[c] = "store"
    /\ Assign("v", idx[c], [At("v", idx[c]) EXCEPT !.value = tmp[c] + 1])
    /\ Goto(c, "check")
    /\ UNCHANGED <<count, file, cur, idx, tmp, pos, calls, exited, printed>>

\* Mutants: the index is taken but not counted; it is the last slot taken.
Reserve_NotCounted(c) ==
    /\ pc[c] = "reserve" /\ MayStep(c)
    /\ idx' = [idx EXCEPT ![c] = count[Kind(c)]]
    /\ Goto(c, "path")
    /\ UNCHANGED <<slot, count, file, cur, tmp, pos, calls, exited, printed>>
Reserve_OffByOne(c) ==
    /\ pc[c] = "reserve" /\ MayStep(c)
    /\ idx' = [idx EXCEPT ![c] = count[Kind(c)] - 1]
    /\ count' = [count EXCEPT ![Kind(c)] = @ + 1]
    /\ Goto(c, "path")
    /\ UNCHANGED <<slot, file, cur, tmp, pos, calls, exited, printed>>

\* x = __sync_fetch_and_add(&count, 1)
Reserve(c) ==
    /\ pc[c] = "reserve" /\ MayStep(c)
    /\ idx' = [idx EXCEPT ![c] = count[Kind(c)]]
    /\ count' = [count EXCEPT ![Kind(c)] = @ + 1]
    /\ Goto(c, "path")
    /\ UNCHANGED <<slot, file, cur, tmp, pos, calls, exited, printed>>

\* The fields of the reserved slot are written one after the other.
Write(c) ==
    /\ MayStep(c)
    /\ LET s == At(Kind(c), idx[c]) IN
       \/ /\ pc[c] = "path" /\ Goto(c, "value")
          /\ Assign(Kind(c), idx[c], [s EXCEPT !.path = cur[c]])
       \/ /\ pc[c] = "value" /\ Goto(c, "tid")
          /\ Assign(Kind(c), idx[c], [s EXCEPT !.value = 1])
       \/ /\ pc[c] = "tid" /\ Goto(c, "check")
          /\ Assign(Kind(c), idx[c], [s EXCEPT !.tid = Thread(c)])
    /\ UNCHANGED <<count, file, cur, idx, tmp, pos, calls, exited, printed>>

\* Mutant: the threshold is passed before it is acted on.
Full_OffByOne(k) == count[k] > Space[k] - Slack

Full(k) == count[k] >= Space[k] - Slack

Check(c) ==
    /\ pc[c] = "check" /\ MayStep(c)
    /\ Goto(c, IF Full(Kind(c)) THEN "open" ELSE "idle")
    /\ UNCHANGED <<slot, count, file, cur, idx, tmp, pos, calls, exited, printed>>

-----------------------------------------------------------------------------
(* Dump                                                                      *)

\* has_open_output_file is never set, so every Dump opens with "w".
Open(c) ==
    /\ pc[c] = "open" /\ MayStep(c)
    /\ \/ /\ file' = << >>
          /\ pos' = [pos EXCEPT ![c] = 0]
          /\ Goto(c, "print_v")
       \/ /\ OpenMayFail
          /\ Goto(c, "clear_failed")
          /\ UNCHANGED <<file, pos>>
    /\ UNCHANGED <<slot, count, cur, idx, tmp, calls, exited, printed>>


\* One iteration of "for (i = 0; i < count; i++)": the count is read each time.
PrintRecord(c, k) ==
    /\ pc[c] = Printing(k) /\ MayStep(c)
    /\ \/ /\ pos[c] < count[k]
          /\ LET s == At(k, pos[c])
                 key == <<k, s.tid, s.path>>
             IN /\ file' = Append(file, <<k, s>>)
                /\ printed' = IF key \in Key THEN [printed EXCEPT ![key] = @ + s.value]
                                             ELSE printed
          /\ pos' = [pos EXCEPT ![c] = @ + 1]
          /\ UNCHANGED pc
       \/ /\ pos[c] >= count[k]
          /\ Goto(c, Clearing(k))
          /\ UNCHANGED <<file, printed, pos>>
    /\ UNCHANGED <<slot, count, cur, idx, tmp, calls, exited>>

\* "count = __sync_and_and_fetch(&count, 0)" stores 0 twice: the atomic
\* operation does, and then the assignment of its result.
Clear(c) ==
    /\ MayStep(c)
    /\ \/ /\ pc[c] = "clear_v" /\ Goto(c, "reset_v")
          /\ count' = [count EXCEPT !["v"] = 0]
       \/ /\ pc[c] = "clear_e" /\ Goto(c, "reset_e")
          /\ count' = [count EXCEPT !["e"] = 0]
       \/ /\ pc[c] = "clear_failed" /\ Goto(c, "reset_failed")
          /\ count' = [count EXCEPT !["v"] = 0]
    /\ UNCHANGED <<slot, file, cur, idx, tmp, pos, calls, exited, printed>>

\* Mutant: Dump returns when it has printed the vertex data.
Reset_ReturnsEarly(c) ==
    /\ MayStep(c)
    /\ pos' = [pos EXCEPT ![c] = 0]
    /\ \/ /\ pc[c] = "reset_v" /\ Goto(c, "idle")
          /\ count' = [count EXCEPT !["v"] = 0]
       \/ /\ pc[c] = "reset_failed" /\ Goto(c, "idle")
          /\ count' = [count EXCEPT !["v"] = 0]
    /\ UNCHANGED <<slot, file, cur, idx, tmp, calls, exited, printed>>

Reset(c) ==
    /\ MayStep(c)
    /\ pos' = [pos EXCEPT ![c] = 0]
    /\ \/ /\ pc[c] = "reset_v" /\ Goto(c, "print_e")
          /\ count' = [count EXCEPT !["v"] = 0]
       \/ /\ pc[c] = "reset_e" /\ Goto(c, "idle")
          /\ count' = [count EXCEPT !["e"] = 0]
       \/ /\ pc[c] = "reset_failed" /\ Goto(c, "idle")
          /\ count' = [count EXCEPT !["v"] = 0]
    /\ UNCHANGED <<slot, file, cur, idx, tmp, calls, exited, printed>>

AllIdle == \A c \in Context : pc[c] = "idle"

\* fini_mock: the main thread dumps what is left, after the threads it joined.
Fini ==
    /\ AllIdle /\ ~exited
    /\ exited' = TRUE
    /\ Goto(Wrapper(Main), "open")
    /\ UNCHANGED <<slot, count, file, cur, idx, tmp, pos, calls, printed>>

Terminated == exited /\ AllIdle /\ UNCHANGED vars

Step(c) == \/ \E p \in PathsOf[Thread(c)] : Call(c, p)
           \/ Query(c) \/ Load(c) \/ Store(c)
           \/ Reserve(c) \/ Write(c) \/ Check(c)
           \/ Open(c) \/ Clear(c) \/ Reset(c)
           \/ \E k \in Kinds : PrintRecord(c, k)

Next == (\E c \in Context : Step(c)) \/ Fini \/ Terminated

Spec == Init /\ [][Next]_vars
-----------------------------------------------------------------------------
(* Properties                                                                *)

TypeOK == /\ \A k \in Kinds : slot[k] \in [0..(Space[k] - 1) -> Slot]
          /\ DOMAIN slot = Kinds
          /\ count \in [Kinds -> Nat]
          /\ file \in Seq(Kinds \X Slot)
          /\ pc  \in [Context -> PC]
          /\ cur \in [Context -> Paths \cup {NoPath}]
          /\ idx \in [Context -> Nat]
          /\ tmp \in [Context -> Nat]
          /\ pos \in [Context -> Nat]
          /\ calls \in [Context -> Nat]
          /\ exited \in BOOLEAN
          /\ printed \in [Key -> Nat]

\* A context that owns the slot it reserved, which is not readable yet.
Writing(c) == pc[c] \in {"path", "value", "tid"}
InFlight(k) == {idx[c] : c \in {d \in Context : Kind(d) = k /\ Writing(d)}}

\* "Thread-safe, first fetch a index, then record data" (perf_data.cpp, 293 and
\* 314): no two contexts ever write the same slot, and the slot that is being
\* written is counted as recorded, so that nobody is given it again.
SlotsAreOwned ==
    \A c \in Context : Writing(c) =>
        /\ idx[c] < count[Kind(c)]
        /\ \A d \in Context \ {c} : Kind(d) = Kind(c) /\ Writing(d) => idx[d] # idx[c]

\* The aggregation of RecordVertexData works: of one thread and call path there
\* is at most one recorded slot, however the handlers interleave.
OneSlotPerKey ==
    \A i, j \in (0..(count["v"] - 1)) \ InFlight("v") :
        /\ At("v", i).path # NoPath
        /\ i # j => <<At("v", i).path, At("v", i).tid>> # <<At("v", j).path, At("v", j).tid>>

\* The kinds whose count every Dump that was begun clears: one that cannot open the
\* file keeps the edges.
Guarded(k) == k = "v" \/ ~OpenMayFail

\* The slots kept free at the threshold are enough: no context writes, or adds
\* to, a slot behind the end of its array (291-336).
InBoundsOf(k) ==
    \A t \in Threads : pc[<<t, k>>] \in {"path", "value", "tid", "load", "store"} =>
        idx[<<t, k>>] < Space[k]
InBounds == \A k \in Kinds : Guarded(k) => InBoundsOf(k)

\* The threads whose context of kind k has still to clear the count of kind k,
\* if it finds the threshold reached.
HoldingPC(k) ==
    {"path", "value", "tid", "check", "open", "print_v", "clear_v"} \cup
    (IF k = "v" THEN {"clear_failed"} ELSE {"reset_v", "print_e", "clear_e"})
Holding(k) == {t \in Threads : pc[<<t, k>>] \in HoldingPC(k)}

\* Why InBounds holds: above the threshold, every record more is held by a
\* context that has not reached its own Dump's clearing yet.
CountIsHeld(k) == count[k] < Space[k] - Slack + Cardinality(Holding(k))
VertexCountIsHeld == CountIsHeld("v")

(***************************************************************************)
(* PerfData implements SampleLog: what is recorded and neither being       *)
(* written nor already printed by the Dump in progress is pending.         *)
(***************************************************************************)
AlreadyPrinted(k) == {i \in 0..(count[k] - 1) :
    \E c \in Context : pc[c] \in {Printing(k), Clearing(k)} /\ i < pos[c]}

Unwritten(k) == (0..(count[k] - 1)) \ (InFlight(k) \cup AlreadyPrinted(k))

PendingOf(key) ==
    LET mine == {i \in Unwritten(key[1]) : /\ At(key[1], i).tid = key[2]
                                          /\ At(key[1], i).path = key[3]}
    IN  SumFunctionOnSet([i \in mine |-> At(key[1], i).value], mine)

\* The calls of Record*Data that have not recorded yet: at most one in each context.
TakenOf(key) ==
    LET c == <<key[2], key[1]>>
    IN  IF cur[c] = key[3] /\ pc[c] \in {"query", "load", "store", "reserve", "path", "value", "tid"}
        THEN 1 ELSE 0

Failing == {c \in Context : pc[c] = "clear_failed"}

Log == INSTANCE SampleLog WITH taken <- [key \in Key |-> TakenOf(key)],
                               pending <- [key \in Key |-> PendingOf(key)],
                               output <- printed, failing <- Failing,
                               Volatile <- {key \in Key : key[1] = "v"}, Opener <- Context

\* Each call of Record*Data counts its sample once, for the thread and call path
\* it was made at, and that stays until it is printed, once; only a Dump whose
\* open failed forgets vertex data (197-201), and only what is there as it does:
\* no update is lost between two threads, between a thread and its signal
\* handler, or between Dump's loops and its resetting of the counts.
NoSampleLostOrDoubled == Log!LogSpec

\* When the process has exited, and its file could always be opened, the samples
\* printed for a thread are as many as the calls it made (291-336, 214-247).
CallsArePrinted ==
    exited /\ AllIdle /\ ~OpenMayFail =>
        \A t \in Threads, k \in Kinds :
            calls[<<t, k>>] = SumFunctionOnSet([p \in Paths |-> printed[<<k, t, p>>]], Paths)
===============================================================================
