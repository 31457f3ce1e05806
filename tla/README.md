# BaguaTool: models, checks and proofs

BaguaTool analyses the performance of a binary in two stages. At run time a
preloaded *collector* samples the program: every thread's PAPI counter overflows
now and then and the handler records the call path; wrappers of the pthread,
OpenMP and MPI functions record which thread created, waited for or sent to
which. Samples and edges go through `PerfData` to `SAMPLE.TXT`, MPI calls to logs and
traces of their own. Off line the *analysis* reads the static structure of the binary
(from Dyninst), builds the program call graph and the program abstraction graph (PAG),
embeds the samples in it and expands it to threads and processes.

All paths below are relative to the repository; `graph_perf.cpp`, `mpi_tracer.cpp` and
the samplers are in `example/project/graph_perf/src`.

## Inventory

| Component | State | Operations | Talks to | Modules |
|---|---|---|---|---|
| `PerfData` (`src/core/perf_data.cpp`) | two arrays of records, their counts, the output stream | `RecordVertexData`, `RecordEdgeData`, `Dump`, `Query*`, `Read` and getters | called by handlers and wrappers of all threads; read by the analysis | `PerfData`, `SampleLog` |
| PAPI sampler (`collector/dynamic/papi/sampler.cpp`) | one event set per thread | `SetOverflow`, `Start`, `Stop`, `UnsetOverflow`, `GetBacktrace`, `papi_handler`; `AddThread` and `RemoveThread` keep no state here | calls back the sampler library in signal context | `OmpSampler` (`Papi`), `PerfData` (`MayStep`) |
| pthread sampler (`pthread_sampler.cpp`) | thread numbers, three `unordered_map`s | wrappers of `pthread_create`, `pthread_join`, `pthread_mutex_*`; `fini_mock` | memory of all threads, `PerfData`, PAPI sampler | `PthreadCreate`, `PthreadMutex` |
| OpenMP samplers (`omp_sampler.cpp`, `mpi_omp_sampler.cpp`) | numbers of executions, a flag per thread | `GOMP_parallel`, `fn_wrapper`, `init_mock`, `fini_mock` | as above | `OmpSampler` |
| MPI tracer (`mpi_tracer.cpp`) | two logs with duplicates of communicators, a trace, the table of requests | the wrappers, `TRACE_COLL`, `TRACE_P2P`, the writing of logs | files | `MpiTracer` |
| Matching (`comm_dep_analysis.cpp`, `comm_dep_approxi_analysis.cpp`) | the lists of operations, the edges | `readMPIInfo`, `commOpMatch*` | the tracer's files; the analysis reads its edges | `CommMatch` |
| Graph store (`src/core/graph.cpp`, `pg.cpp`) | an igraph, `cur_vertex_num` | `AddVertex`, `AddEdge`, `AddGraph`, `DeleteVertex`, traversals, `SortBy`, lookups | all graph classes | `GraphStore`, `LabelledGraph`, `FunctionGraph` |
| Static analysis (`static_analysis.cpp`) | the graph of each function | `ExtractLoopStructure`, `ExtractCallStructure` | Dyninst | `FunctionGraph` |
| Graph analysis (`graph_perf.cpp`, `pag.cpp`) | call graph, one PAG per function, root PAG and its expansions, maps of thread numbers | `GenerateProgramCallGraph`, `InterProceduralAnalysis`, `DynamicInterProceduralAnalysis`, `DataEmbedding`, three expansions | everything above | `DynamicCalls`, `Expansion`, `ThreadGraph`, `OmpGraph`, `ProcessGraph` |

Hard behaviours. The collector is concurrent and lock-free: threads, and signal
handlers on top of them, share `PerfData` and the maps; a buffer that fills up is
dumped by whoever notices, while others record; thread numbers travel from a new
thread to its creator through memory the creator frees. The tracer writes its logs
while the trace goes on naming their entries. The analysis is
sequential; what is hard there are graphs that are copied into graphs while these are
traversed, sorting during a traversal, threads that are found through the creations of
other threads, and guesses: which function a thread runs, which record is a join, which
frames of a path are calls. `PROJECT.json` lists each hazard with its line.

What makes each component correct:

* `PerfData`: each sample is printed exactly once, for its thread and path; no
  slot has two writers; no write leaves the arrays.
* pthread wrappers: they are transparent (mutual exclusion, the start routine that
  was asked for, no call that never returns) and edges name the threads involved.
* OpenMP sampler: counters run exactly while the program does; samples of a worker can be
  traced to the call that took it in.
* MPI tracer: logs count and the trace replays the calls; matching joins receives to
  their sends.
* graph store: id attributes are ids, edges join vertices in use, copies are
  isomorphic, sorting permutes siblings and nothing else.
* analysis: every call is connected to its callees once in every context; each sample is
  embedded in its own context; each thread and process has its chain in the expanded graph,
  with forks, joins and messages between the right vertices.

## Plan

Done: `PerfData` with `SampleLog`; `PthreadMutex`, `PthreadCreate`; `GraphStore` with
`LabelledGraph`; `Expansion`; around it `DynamicCalls` and `ThreadGraph`, the whole pthread
analysis from records to the multi-thread graph; `OmpSampler` and `OmpGraph`; `MpiTracer`,
`CommMatch`, `ProcessGraph`; `FunctionGraph`. Proofs: the collector (`PerfData`,
`PthreadMutex`, `PthreadCreate`, `OmpSampler`), the graph store, the graph of a function, the
call graph and its expansion, and the whole MPI chain from the calls to the graph of the processes.

Left, in this order:

1. Receives from any source, communicators and `MPI_Test` in `MpiTracer`.
2. Waiting edges of mutexes in `ThreadGraph`, with `Read` of `PerfData` in front.
3. The reductions of `pag.cpp` and the hot-spot queries.

`Expansion` takes the graph operations from the abstract specification that
`GraphStore` is proved to implement. `ThreadGraph` extends `DynamicCalls`, which extends
`Expansion`; `ProcessGraph` extends `CommMatch`, which extends `MpiTracer`; `OmpGraph` extends
`OmpSampler`. Each of these chains is checked as one program, from the calls that are
recorded to the graph at the end. No module that is proved about uses a RECURSIVE
operator (`ThreadGraph` does).

## What is modelled

### `PerfData`, `SampleLog`

A *context* is a thread in its overflow handler (kind `v`, it runs
`RecordVertexData`) or in a wrapper (kind `e`, `RecordEdgeData`). One action is one
access to a shared variable:

| Action | Code (`perf_data.cpp`) |
|---|---|
| `Call` | the sampler's call of `Record*Data` |
| `Query` | `QueryVertexData`, the first match; one step |
| `Load`, `Store` | `value += value`, 291 |
| `Reserve` | `__sync_fetch_and_add`, 294 and 315 |
| `Write` | path, value, thread id, in this order |
| `Check` | the threshold, 305 and 332 |
| `Open`, `PrintRecord`, `Clear`, `Reset` | `Dump`: `fopen` with "w", the loops that read the count each time, the count stored to 0 twice |
| `Fini` | `fini_mock` |

A handler runs to its end before the wrapper it interrupted goes on (`MayStep`);
`SamplerRunsInWrapper` says whether it can interrupt one at all: not in
`pthread_create` and `GOMP_parallel`, which stop the sampler, but in
`pthread_join` and `pthread_mutex_lock`, which do not. Slots are never cleared, so
a reserved slot shows what was in it before, or the thread id 0 of the main thread.

Left out: `procs_id` (one process), the header lines with the counts, the stdio
buffer, the two halves of a torn 64-bit field, the length limits of call paths,
the destination of an edge (an edge record is a path and a thread like a vertex
record). There is one file name. `Fini` waits for all threads: records that come
after the destructor are a listed hazard. A write behind an array changes no slot
and `InBounds` reports it.

`SampleLog` is what this promises. A sample of a key (kind, thread, path) is *taken* when
`Record*Data` is called (`Take`) and *recorded* once by that call, for its own key (`Record`);
what is recorded is pending until it is *emitted*, once (`Emit`). The one loss is that of a dump
whose open failed (`Fail`, `Forget`): it forgets, once, the vertex data that is pending as it does
(lines 197-201). In the refinement mapping a call that has not finished its record is taken, a
context on its way from a failed `fopen` to the reset has failed, and pending is what is counted,
not being written, and not already printed by the dump in progress; the history variable `printed`
is the output. So a record lost to a race, or a reset without a failed open, is no step of
`SampleLog`. `CallsArePrinted` counts at the end: if every file opened, the samples printed
for a thread are as many as its calls.

### `PthreadCreate`

The argument block of `pthread_create` is memory that `free` returns and `malloc`
may give to another call. After `free` its routine is either still there or
garbage. `ReadArgs`, `NewThreadGid` and `TellCreator` are the new thread's lines
168-180, `Create`, `RealCreate`, `RecordCreate`, `NoteCreate`, `Free` the
creator's 205-233, `Join`, `RecordJoin` lines 247-263. `Handles` are `pthread_t`
values; a joined thread's is free for the next one. A failed creation leaves any
handle in `*thread`. Accesses to the map are atomic here, which the
`unordered_map` is not.

The creator frees the block at once, wherever the new thread is: it may read its routine, or
write its number, after `free`, and after the block went to another call. The history
variable `late` has the threads that still had to use their block when it was freed. The
properties of edges say what remains true: an edge names its thread, or 0, or one of the
`Strangers` of that thread, which are the late threads that had its block before (or any late thread,
once a creation has failed, whose entry in the map is left to the next owner of the
handle); and a join names what the creation named where there is no stranger. A write to a
block that `malloc` has not given out again disturbs nothing here; to the code it is undefined.

### `PthreadMutex`

`Lock` (entering the kernel id in the map), `Test` (the lock word), `Acquire` (the
real lock), `RecordWait` (the edge), `Unlock` (noting it), `Release` (the real
unlock). A caller is `direct` (its return address is in the executable) or a
`library`. A library that finds the lock taken gets a return value that was never
assigned: it goes on, or gives up. The real unlock does not check the owner, as
that of a default mutex. Kernel ids are used again when their thread is dead
(`TidOf` need not be injective). Only the last edge is kept, so the state space is
finite without a bound on the number of calls.

### `GraphStore`, `LabelledGraph`

Vertices are allocated in trunks; `cur_vertex_num` of them are in use. One action is one public
method of `Graph`, with the whole of what it calls (`AddVertex` with the allocation of a trunk,
`DumpGraphGML` with the cut of the spare vertices); only `AddGraph` is several steps (`StartCopy`,
one `CopyVertex` per vertex, `CopyEdges`), because a graph may be appended to itself, and then it
grows while it is read. A vertex has the attribute `id` and a *name*, which stands for all
attributes `CopyVertex` copies; `Blank` is that of a vertex that was only allocated. Edges are a
set: callers add an edge once. `DeleteVertex` renumbers edges and moves attributes as igraph does,
and leaves `id` as it was; `shifted` remembers in which graphs that made a difference. It is a
public method, but in the repository only code that nothing calls uses it. One dump stands for all,
since every file is written once; `ReadGraphGML` reads into a graph that was just constructed.

`LabelledGraph` has the same operations in one step each on graphs without spare
vertices. In the refinement mapping the copies that have no edges yet are not
there (`Shown`).

### `Expansion`

`stack` holds the traversals that `ConnectCallerCallee` starts inside each other. Each has
the graph it is `on`, the vertex it is `at`, the number of vertices there were at its
start (`pag.cpp:124`), and the step the callback is in: `visit` (the next vertex), `call`
(the loop over the callees), `append` (`AddGraph`; a caller is in this step while its
callee is walked over) and `link` (`AddEdge`). Graph operations are the actions of
`LabelledGraph`. Initially the graph of a function is its vertex and below it its
calls: loops and basic blocks between them carry no callee and are left out, and a call
that the program call graph does not know has no callees. Callees are taken in any order;
the code takes them in that of the vertices of the call graph. `callees`
is what `DynamicCalls` made of the samples; addresses are exact here, so no two calls or
functions are within the 4 bytes in which the code takes them for the same
(`FunctionGraph` is about those).

### `DynamicCalls`, `ThreadGraph`

`Expansion` leaves open which functions a call reaches. In `DynamicCalls` they are learned
from samples: `ReadSample` handles one call path as `ReadDynamicProgramCallGraph` does,
dropping its first address, pairing each known address with the next, with the set of
pairs already seen when there is debug information for shared objects. Call paths are
modelled by what the analysis finds at an address: a call, another place in a function, a
shared object with or without debug information (`Address`). `Preserved` is what `PerfData`
keeps of shared objects when a path is read. Assumed of the constants: functions of shared
objects are not `main`, have one call each and are not the object without debug information
(`LibAssumption`); a call on a path is one of a function of the binary, not one of a shared
object, whose addresses are `<<"lib", l>>` (`InputAssumption`); and the innermost frames of a
path are those of the sampler's own library, without debug information (`HandlerAssumption`), as
samples and edges are recorded from its handler and wrappers. The last address of a path is then
never a call, and `callee_addr`, which `ReadDynamicProgramCallGraph` does not initialise
(`graph_perf.cpp:167`), is always set before it is used.

`ThreadGraph` goes on with `CreateThread` (one record of `pthread_create`: where its vertex
is or is added, which record passes for its join, which function its first sample is in),
`ConnectRoutine` (`ConnectCallerCallee` again, over that function), `HangRoutine` (the copy
below the creation), `Embed` (`DataEmbedding`) and `Expand` (the depth-first walk that makes
the multi-thread graph). Inputs are whole files: every pair of 24 samples, with and without
debug information, for programs without threads, and scenarios of creations and joins
(one thread; two threads of one routine with one or two creating calls and one join;
creation in a function called twice; nested creations recorded in both orders; a
creation directly in a routine; threads without a usable sample).

Vertex -1 is never written: each thread with a routine has a record that passes for its
join. Waiting edges of mutexes and the times of edges are left out.

### `OmpSampler`, `OmpGraph`

`Fork` and `Join` are the two halves of `GOMP_parallel` around the real one, `Enter` and
`Leave` those of `fn_wrapper`; a team is any set of idle threads with the caller, so that
regions can be nested by the caller or opened by a worker. `Papi` is the automaton of an
event set: a call PAPI would refuse leads to `"failed"`. `Sample` may happen whenever the
counter runs. `OmpGraph` embeds the samples, groups numbers by core, and copies each region
(`EnterVertex`, `LeaveVertex`, `ExpandRegion`: the callbacks of the walk; a region in a region
ends the outer one's recording, as in the code).

### `MpiTracer`, `CommMatch`, `ProcessGraph`

One action is one MPI call of a process, wrapper included: the real call, the table of
requests, the entry in a log and the trace (`Trace`), and the writing of what is due, each
file of which may fail to open (`Write`). MPI is external: messages are matched
with receives per channel in the order of posting; collective calls block as their kind
demands. Entries are numbered from 1, and `Limit` is the array's size less `Slack`.

* *Duplicates.* `TRACE_COLL` calls `MPI_Comm_dup` for each new entry (268), a collective call of
  its own: it returns when every process makes as many (`Duplicated`). `NobodyDuplicatesAlone` says
  that no process is left alone in it, if the processes make each collective call from one call path
  and every file opens. Otherwise one has the entry and another has not, and the program hangs: the
  run has such states.
* *Sizes.* An entry has room for `TracedRequests` (100) requests; `WaitAssumption` limits the
  programs to that, as what lies behind the arrays is the rest of the log. An entry of the
  analyses has room for `ReadRequests` (50): with more the analysis is *overrun* (`Overrun`),
  which the program may meet, and nothing is said of its result.
* *Statuses.* A wait for a request that is not in the table reads its status, also if the program
  passed none (723, 817). `StatusesRead` is false then and the process takes no further step.

`CommMatch` reads the files when all processes are through and matches each request of each
call in the code's order, after the traces (`exact`) or the logs (`approximate`); an index
behind the end of a log crashes the exact analysis. `ProcessGraph` makes one copy of the PAG
per process in pre-order and adds an edge for each match, or none when it was fast.

Left out: receives from any source, persistent requests, other communicators, `MPI_Test` and its
relatives, the Fortran entry points, times.

### `FunctionGraph`

The input is a function as Dyninst reports it: blocks by address, with the last instruction of each,
a forest of loops, and the blocks that functions analysed earlier have too (`shared`).
`visited_block_map` is one for the whole binary and is never cleared, so these are visited from the
start: a call in one of them gets no vertex in this function. The comment in `ExtractCallStructure`
(136) takes a visited block to be inside a loop, which such a block is not; its call is lost, and
the properties are about the calls in blocks that are not shared. `ExtractLoop` and `ExtractCall`
are one call each of the recursive functions, in their order (`todo` is what the recursion has
left); `SortChildren` is the callback of the breadth-first search, which swaps attributes and edges
of siblings whose numbers the search has already queued; ties may be left in any order. `WithAddr`
is the lookup of an address, with its tolerance of 4 bytes and the shift of 8 bytes of loops.
Assumed of the input (`LayoutAssumption`): a loop has its entry among its blocks, lies inside its
parent, which is numbered before it, and has no block in common with a loop beside it.

## Runs

| Run | Shows |
|---|---|
| `perf_serial` | one thread, both buffers full several times, opens that fail, no slack: implements `SampleLog`, every write is inside the arrays |
| `perf_threads` | two threads, handlers inside wrappers, one shared path, no buffer full: implements `SampleLog`, one slot per key, no slot has two owners, as many samples are printed as calls were made |
| `perf_reserved` | *violation*: a dump resets the count under a reserved slot, which is given out again |
| `pthread_create` | one creator, blocks freed at once and used again: the only third thread an edge can name is one that wrote late into the block, and otherwise a join names what the creation named |
| `pthread_launch` | *violation*: the new thread reads its start routine from freed memory |
| `pthread_mutex` | direct callers: mutual exclusion, a call path is always found, edges start at the releaser, every lock returns |
| `pthread_mutex_library` | *violation*: two threads in one critical section |
| `graph_store` | any six calls on two graphs: `id` is the number, spare vertices stay invisible, and every graph is the one that was built (`LabelledGraph`) |
| `analysis` | from records to the multi-thread graph: callees are what was sampled, graphs are trees with every context once, recursion ends, samples land in their context, threads are chains with their forks and joins |
| `mpi` | two processes, books that are written early or fail to open: room for the next call, traces replay and logs count the calls, no process is left alone in a duplicate of a communicator, both matchers find the messages, the multi-process graph is one chain per process with the right edges |
| `omp` | two threads, nested regions: counters run with the program, sampled workers have their edge, time stays where it was spent, also in the copies |
| `function_graph` | 24075 functions of five blocks, with and without blocks of earlier functions: nesting is kept, and return addresses lead to their call |

Several properties name the condition under which the code keeps them, because outside
it the runs reach states where it does not:

* `SamplesLandInContext`, `EveryContextExpanded`: `main` is not called again.
* `ThreadsAreChains`, `JoinsFollowTheirThread`: creations were recorded in order
  (`CreatedInOrder`), and for joins no thread creates another directly in its start routine
  (`CreatesBelow`).
* `SampledWorkersHaveEdge`, `TimeIsWhereItWasSpent`: only the main thread opens regions.
* `CopiesShareTheTime`: no more groups than copies; the function and its loop sampled in the
  same groups.
* `TraceReplaysCalls`: no log was written before `MPI_Finalize` (from then on indices in
  the trace start anew, while the analysis counts over the whole file).
* `ExactEdgesAreMessages`: complete files, and receives between the two processes that
  complete in the order in which they were posted; `ApproximateEdgesAreMessages`: one call
  path on either side of each channel.
* `ExactEdgesAreMessages`, `ApproximateEdgesAreMessages`: no wait is for more requests than the analysis has
  room for (`ShortEntries`).
* `NobodyDuplicatesAlone`: every file opened, and the processes make each collective call from the
  same call path (`SameCollectives`).
* `NoEdgeNamesStranger`, `JoinNamesWhatCreateNamed`: `Strangers`, above; one creator.
* `KeepsNesting`, `CallsAreFound`: the call is in a block that no earlier function has.
* `CallsAreFound`: loops side by side are not woven into each other in memory, and the call is
  not `Crowded`.
* `InBounds`: the edge buffer is exempt when opens may fail.

So the promise of `PerfData` holds for one thread with any number of dumps, and
for several threads while nothing overflows; once two threads are recording while one
dumps, `perf_reserved` shows how it fails.

Bounds. `PerfData`: `Slack` is 0 or 1 instead of 5 and buffers have 2 slots (9 where no overflow is
wanted), so that 2 to 3 records fill one: what matters is the number of threads against `Slack` + 1,
which the theorem `SlackSuffices` covers. `MaxCalls` (3 and 2 per context at most) lets a serial run
dump each buffer at least twice. `PthreadCreate` has four threads, two handles and two blocks: both
must be used again, a block also while its last owner has not written into it yet. `PthreadMutex`
has four threads, two of which have one kernel id, so that two others can wait at once; the state of
one mutex does not depend on another's, so there is one. `GraphStore` has two graphs, so that a copy
goes to another graph or to itself, two names, and trunks of 2 vertices instead of `TRUNK_SIZE`, so
that six calls fill one, start the next, cut it and grow it again. `analysis` has three functions,
so that two can call each other or themselves below `main`, and one in a shared object; its samples
are up to three calls deep, the depth at which a call path passes through a recursive call. `mpi`
has two processes, four messages at most, books of six entries (the collective log of three) of
which the last is the slack (`Limit` 5 and 2, `Slack` 1) and one failing open, so that the trace is
written before the end, or kept too long, or neither; the receiver's calls come in every order that
two requests and a blocking receive allow. A wait can be for three requests, which is all that an
entry of the tracer holds (`TracedRequests` 3) and more than one of the analysis does
(`ReadRequests` 2), or for a request that was waited for before, with and without statuses. Other
programs have three collective calls of every kind from two call paths, behind messages that take
one process more calls than the other, so that one writes its trace between them and the other does
not. `omp` has two threads on two cores, two regions (`MaxRegions`) and four samples (`MaxSamples`):
one thread can be in both regions, and a region can be sampled by both threads in both parts; there
are never more groups than copies of a region, and the other side of that boundary is covered by the
theorem `CopiesKeepTheTime`. `function_graph` has five blocks of five kinds in eight loop forests,
among them a loop entered in the middle, loops beside, in and woven into each other; a call ends its
block and returns to the next one of its loop. The blocks of earlier functions are a tail of the
function (none, or one to four blocks), with its loops as a whole.

Deadlock is checked in every run but `graph_store`, which stops when its `MaxCalls` calls are used
up: elsewhere the only states to stop in are those of `Terminated`, `Finished`, `MpiDone`,
`MpiStopped` or `Expanded`. `MpiStopped` is a process that crashed at a status it did not ask for,
or one that duplicates a communicator alone; so in `mpi` the check says that the
programs never block otherwise, and that both analyses come to an end; in `analysis` and `omp`,
whose state graphs have no cycle but the final one, that the expansions end.

Fairness. Only `EveryLockReturns` needs any: the kernel runs every thread that is
in a wrapper (weak fairness), the real lock starves nobody (strong fairness of
`Acquire`: an assumption about glibc under contention, as its lock is not queued),
and the program ends its critical sections (weak fairness of `Unlock`; a program
that does not do so waits with and without the wrappers).

## Proofs

`PerfDataProofs`, for all threads, paths, spaces and bounds:

* `TypeCorrect`: `TypeOK`, by one case per action.
* `VertexCountBounded`, `SlackSuffices`. The inductive invariant is `BoundInv`:
  `count < threshold + number of holders`, where a holder is a context between its
  `Reserve` and the `Clear` of its own dump. `InBounds` alone is not inductive, as it
  says nothing of the count. A context that passes the threshold keeps holding until the
  count is 0; one that does not pass it leaves the count below the threshold. With at
  most `Slack + 1` threads the one about to reserve is not a holder, so at most
  `Slack` are, and the slot is inside the array. For edges this needs that no open
  fails: a failed open resets the vertex count only.
* `SlotsStayOwned`, `OneSlotEach` and `LogImplemented`, that `PerfData` implements
  `SampleLog`: for any number of threads, handlers and call paths while no buffer is at
  its threshold (`[]NoneFull`; without it `perf_reserved` shows a slot with two owners) and
  the main thread shares no call path with another (`MainAlone`: backtraces of the main thread
  end in `main`, others in `start_routine_wrapper`; without it a worker's reserved slot, which
  has thread id 0 until line 300, can pass for the main thread's). `QInv` says where each
  context is (`Control`), that who writes a slot is alone with it and has written exactly the
  fields in front of its program point (`Writes`), that recorded slots count something and
  the slots behind them are blank (`Slots`), and that a key has one (`OneSlot`); `DInv`
  what the destructor has printed. A step of the refinement changes the value of one
  slot, so what is pending changes by one: that is a fact about sums over finite sets. The call
  whose step it is has not recorded yet and has then (`TakenOf`), so each call records once.
  `Forget` is matched by the reset after a failed open only (`LogForget`), here that of the destructor's
  dump; in `perf_serial` any dump may fail.

`SumTheorems` has the facts about sums over finite sets, about least elements and about the
selections of `Selection` that this and the next proofs need. The library's induction takes an
operator, so they are proved from a minimal finite counterexample (`MinimalFinite`), which is
first-order.

`PthreadMutexProofs`, for all threads, mutexes and kernel ids, when every caller is
direct (`DirectCalls`): `DirectCallsExclude`, `WaiterFindsEntry`,
`EdgesStartAtReleaser` and, when kernel ids are never used again,
`FreshIdsNameThread`. `IInv` joins the properties with what makes them inductive:
who releases owns the mutex and has noted so (`ReleaseNoted`); who waits finds the
mutex locked or an unlock noted (`WaitNoted`); unless a release is going on the
entry of a mutex is its last releaser's (`EntryOfReleaser`); the kernel ids of
threads that were in a wrapper are in the map (`GidKnown`).

`GraphStoreProofs`, for all graphs, names, trunk sizes and numbers of calls: `TypeCorrect`,
`NoPhantoms`, `IdsCorrect`, and `Refinement`, that `GraphStore` implements `LabelledGraph`.
`IInv` says of every graph that its parts have one size, that spare vertices are
blank and no edge touches them, and that numbers are ids where nothing was
renumbered (`GraphOK`), the same of the file (`FileOK`), and of the copy that is going
on (`TaskOK`) that the vertices copied so far are the last of the target and have the
names of the originals, and that `total` is the abstract size of the source. The last
part is what a copy of a graph to itself needs: the vertices that the copy adds are not
among those that are copied.

`GraphStoreProofs` also has `NestingKept`, for all functions that satisfy `LayoutAssumption`, whatever
blocks functions analysed earlier have visited (`fn.shared`, of which it says nothing): the
graph that `FunctionGraph` dumps has `KeepsNesting`. That property speaks of the end only, so
`FInv` says what holds on the way there. The edges, read as pairs of a loop and what is
directly in it, are those of the loops and calls that have a vertex so far, one vertex for
each (`Extracted`); no vertex is below a call, itself, or two others (`EdgesOK`). `TodoOK` is about the
recursion: no loop has two tasks or is part of two, and the tasks for the loops in a loop come before
the one for its calls (`TasksApart`), so that a block that is still not visited then belongs to the
loop that asks; every loop has a task it is part of, or a vertex and, if it asks for calls,
all its blocks visited (`PlacesCovered`); and what a task makes goes below the vertex of its place
(`TaskFits`). Sorting changes the numbers and not what is below what:
it is a renaming of siblings (`Renamed`), whatever order `std::sort` chooses among equal addresses.

`ExpansionProofs`, for all functions, calls and call graphs: `TypeCorrect`, `TreesStay`,
`CallsOnly`, `RecursionEnds` and `Expanded`, for `Expansion` with any call graph; and, with the
samples in front, for any call paths, `OnlySampledCallees`, `ContextsExpanded` and
`GraphsStay`, which is the first four again for `DynamicSpec`. `TreeShaped` is not inductive alone: the
call that is connected must be in front of the copied root, and that root must still have
no parent. `FrameOK` says so of each traversal: it stays below its `limit`, `link` is not
below it, and what it appends is a callee of the call it is at. `StackOK` adds that every
caller waits in step `append`, so a root waits for its edge only on top; and `GraphOK`
that vertex 0 of a graph is its function, so the root of a copy is the callee. That the
numbers and edges of a frame survive when other frames append to the same graph (`main`,
called by others) is `FrameKept`. `RecursionEnds` needs `Entered`: all that is walked over
above the first frame was marked.

`Expanded` says that nothing is missing when the stack is empty, so its invariant, `Progress`,
follows the work that is left. The calls of a function keep the first numbers of its graph
(`OwnCalls`); a graph that was not marked is as it was made (`Untouched`), one that
was marked is walked over or complete (`Complete`); a traversal has connected the calls
before `at`, of the one at `at` all callees but those in `todo` and the one it is to append,
and none of those behind (`FrameDone`); and each frame is on the callee that the one below is to append
(`Linked`). A copy taken of a graph that is walked over has calls without callees:
without recursion this never happens (`CopiesComplete`), because if the callee is on the stack then the
functions from there to the top call each other in a ring, the `group` of `Recursive`
(`NotOnStack`).

`OnlySampledCallees` needs what the set of visited pairs is good for: a pair in it was
connected, so leaving it out changes nothing (`Found`), whatever libraries were added
since (`AddressIs`). `FoldIs` unrolls the fold over the pairs, `PreservedIs` and `SeenIs` say where
the addresses of a path are after both selections: what is kept of shared objects is
behind everything of the program, so neighbours in the program stay neighbours. From the end of the
reading on `callees` does not change, and `DInv` joins this to the invariants of `Expansion`.

`PthreadCreateProofs`, for all threads, handles and blocks: `NumbersAreUnique`
without a condition (a number is below `nextGid` and taken once); `EdgesNameNoStranger` and
`JoinsMatchCreations` for one creator, who frees each block as early as the code does. With two creators
neither holds: one can be given the handle again whose join the
other has not recorded yet, or join a thread whose number its creator has not noted yet
(TLC finds both when `Creators` has two members). Their invariant `IInv(p)` follows a number on its way.
`Names(t)` is what may be found where the number of `t` belongs: 0, its number, or that of a
late thread that can still write, or wrote, into its block. A thread that is
starting is the one being created, or late (`OneAtATime`), a thread has a
handle of its own until it is joined (`HandlesAreOwn`, `CreatorHasHandle`), what is noted
for the handle is in `Names` (`EntriesAreOwn`), so are the edges (`EdgesAreOwn`),
and the number a creation named is in the block, then in the map, then in the join
(`NamesAreKept`), while there are no strangers. `NamesStay` is what every step needs: `Names` only
grows, as blocks and numbers are given once and who was late has been.

`OmpSamplerProofs`, for all threads, regions, nesting and numbers of cores: `CountersFollowProgram`
and `SampledWorkersAreNamed`. Whether a counter runs is a matter of the top of a thread's stack;
that it is right again when a region ends needs the rest of it: `StacksNest` (a thread is in the
function of each region on its stack but, maybe, the last, and called all but the one it was taken
into), `CallersWait` (a region that is not complete is on its caller's stack), `MainCalls` and
`EndsQuiet` (nothing is left when the program ends). `EdgeInv` adds the numbers: they only grow, and
no two executions have one (`NumbersGrow`: a number is `thread_global_id` times the cores and a
rest), and an execution that goes on and has a sample has its flag set, while one that ended has its
one edge (`SamplesAttributed`, where only the main thread opens regions).

`TimeIsKept` follows a sample from its call path to the vertex it is embedded at. `PathsLead`: the
path of a sample and that of a region are chains of calls, each made in the function of the one
before it (`Chained`), those of workers without the call that starts them; `NumberInv`: an
edge from a call of the main thread leads to the function below which the samples with its
number were taken. The search for a chain arrives or ends at the first call
that is not connected (`SearchGoes`, over the partial results of the fold), the samples of the
main thread connect what they pass, and with a call those around it are connected
(`ChainConnected`), so all that can be found is found (`SamplesLocated`). The totals are
then sums over parts of the same samples (`SumFibres`), by vertex, by number and by group.

`CopiesKeepTheTime` does not need that only the main thread opens regions. `TodoOK` and `ClosedUp`: the
walk goes down a tree, so what it still has to enter is not entered yet and the rest is below it;
no vertex is entered twice. `CopiesOK`: hence a recorded vertex has no copies yet, gets one for
each thread, and each has the group of its turn (`Share`), whatever region inside it ended the
recording. The copies then are the parts of a sum over the groups (`CopiesShare`); the groups in
one copy of a function are those of the same turn of equal sets (`OneGroup`), as calls that are
connected have no data.

`MpiProofs`, for all numbers of processes, limits and failures within `Slack`, and all programs whose
waits fit into an entry of the tracer (`WaitAssumption`). What it says of the analyses is for waits of
at most `ReadRequests` requests, 50 in the code: the matching properties have that as an antecedent
(`ShortEntries`), since the arrays of the analyses are overrun otherwise. Two more
hypotheses are about constants: ranks are numbered from 0 without a gap, which MPI ensures and
the loop over `pid` relies on; and the PAG is a tree (`TreeAssumption`, which is what
`TreesStay` and `CallsOnly` say of the graphs that are expanded).

* `BooksHaveRoom`, `TracesReplayTheCalls`, `LogsCountTheCalls`. `RoomForNext` is not inductive, as
  a book that was kept grows on: `RoomLeft` bounds each book by its limit plus the failures so far,
  because a book at its limit is written or costs a failure. `TracesReplay` needs that an entry
  keeps its place: while a process has written no log, its logs are in memory as a whole
  (`LogsInMemory`), counting a call never changes the call of an entry, and no two
  entries in memory are of one call (`IsLog`), so that the one `Entry` returns is the first and
  only one. What `Write` and `Noted` do to a book is stated once each (`WriteIs`, `NotedIs`), and
  `TraceStep` covers every wrapper, since each is one `Trace`. The lemmas in front speak of
  sequences of anything: books hold records of two kinds. `LogsCountTheCalls` adds up the counts of
  entries in file and memory, with the sums of `SumTheorems`.
* `ProcessesHaveGraphs`: the walk that copies the PAG has a stack of the vertices it is below;
  what is copied is closed under parents, numbers grow downwards, and when the stack is empty
  nothing of a tree can be missing.
* `ApproximateEdgesAreTrue` and `CommEdgesJoinTheCopies` join the tracer to the matching.
  `MsgInv`: every message sent and received is a call that was booked, with the partner that the
  request names, and the other way round. `LogInv`: the logs in the files
  are the calls, after `MPI_Finalize`. `MatchInv` of the analysis: every edge joins
  a logged send to a logged receive of its channel (`EdgesAreFound`), a send is missing from
  the list only when its message is joined (`SendsAreLeft`), a receive that was passed is
  joined or had nothing to join (`ReceivesAreLeft`), and `Place` says how far it has got.
* `ExactEdgesAreTrue`: each receive is joined to the very message it got. `OrderInv` gives
  each message of a channel its place among the calls of the sender, and among those of the
  receiver when these complete in order. `ExactInv` follows the lists, from which matched sends are
  taken away: they are what is left of the calls, in their order (`Origin`), and of every
  channel that is in order the first m messages are joined and no other was touched (`Half`),
  whatever was matched in between on channels that are not.

`MpiTracer`, `CommMatch` and `DynamicCalls` filter sequences with `Selected` (module
`Selection`) and not with `SelectSeq`, whose recursion the provers cannot reason about.

`VertexCountIsHeld` and `GidsAreUnique` are proved and in no run: the first is the stronger form of
`InBounds`, the second rests on the atomic counter alone.

Only model-checked, because not proved yet: `CallsAreFound` of `FunctionGraph`, which follows a
lookup down the graph by recursion, `NobodyDuplicatesAlone`, `CallsArePrinted`, and the refinement
of `SampleLog` by one thread with buffers that fill up (`perf_serial`). Out of the provers' reach:
`ThreadGraph`, whose expansion and search are RECURSIVE operators, and the liveness property
`EveryLockReturns`.

## Not modelled, and why

`hybrid_analysis.cpp` is not built. `shared_obj_analysis.cpp` parses
`/proc` files and runs `addr2line`; its result is an input of `DynamicCalls`. Python scripts,
examples and third-party code are not part of the tool's logic. The static call graph
(`CaptureProgramCallGraph`) is not followed by the analysis, which takes dynamic edges only.
The text forms of files, JSON, the hot-spot queries and the reductions of `pag.cpp` compute
what is printed. The sequential and MPI samplers are `PerfData` with one thread. What else is left
is in the plan above, and under each module.
