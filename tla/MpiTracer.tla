-------------------------------- MODULE MpiTracer -----------------------------
(***************************************************************************)
(* The wrappers that record the MPI calls of a program (mpi_tracer.cpp).   *)
(* Each process keeps in memory a log of its different collective calls, a *)
(* log of its different point-to-point calls, and a trace that names an    *)
(* entry of one of the logs for every call.  A log or the trace that gets  *)
(* long is appended to its file, and MPI_Finalize writes the rest.         *)
(*                                                                         *)
(* MPI itself is external: messages of one channel (source, destination    *)
(* and tag) are matched with its receives in the order in which both are   *)
(* posted.  Receives from any source, persistent requests and other        *)
(* communicators are left out.                                             *)
(***************************************************************************)
EXTENDS Integers, Sequences, FiniteSets, FiniteSetsExt, Selection

CONSTANTS Ranks, Tags, Sites, Requests, \* processes, tags, call paths, request handles
          Programs,           \* what the processes call, one of these
          Limit,              \* the length at which each book is written
          Slack,              \* entries a book has room for beyond its limit
          TracedRequests,     \* the requests an entry has room for: MAX_WAIT_REQ, 100
          MaxFailures         \* bound: how often a file does not open

Books == {"coll", "p2p", "trace"}
Ops == {"send", "isend", "recv", "irecv", "wait", "fromroot", "toroot", "alltoall"}
Op == [op : Ops, peer : Ranks, tag : Tags, site : Sites, reqs : Seq(Requests),
       statuses : BOOLEAN]      \* whether a wait asks for them

ASSUME TracerAssumption ==
    /\ \A r \in Ranks : r \in Nat /\ 0..r \subseteq Ranks      \* numbered from 0
    /\ Programs \subseteq [Ranks -> Seq(Op)]
    /\ Limit \in [Books -> Nat \ {0}]
    /\ Slack \in Nat /\ MaxFailures \in 0..Slack

\* The tracer copies the requests of a wait into its entry without a look at their
\* number: it is for programs whose waits have no more than an entry can hold.
ASSUME WaitAssumption ==
    /\ TracedRequests \in Nat
    /\ \A prog \in Programs : \A r \in Ranks : \A i \in DOMAIN prog[r] :
          Len(prog[r][i].reqs) <= TracedRequests

VARIABLES program, at,        \* the program and how many calls each process has made
          sent, posted,       \* by channel: the messages sent, the number of receives posted
          active,             \* the requests of each process, with what they wait for
          requests,           \* request_converter of each process
          mem, file,          \* its books in memory, and what its files hold of them
          failures, finalized,
          calls,              \* history: the calls of each process, as they are to be recorded
          received,           \* history: by channel, the receives as they completed
          early               \* history: the processes that wrote a log before MPI_Finalize

mpi == <<program, at, sent, posted, active>>
history == <<calls, received, early>>
vars == <<mpi, requests, mem, file, failures, finalized, history>>

Channels == Ranks \X Ranks \X Tags
None == [i \in {} |-> i]      \* the empty map

Init == /\ program \in Programs
        /\ at = [r \in Ranks |-> 0]
        /\ sent = [c \in Channels |-> <<>>] /\ posted = [c \in Channels |-> 0]
        /\ active = [r \in Ranks |-> None]
        /\ requests = [r \in Ranks |-> None]
        /\ mem = [r \in Ranks |-> [b \in Books |-> <<>>]]
        /\ file = [r \in Ranks |-> [b \in Books |-> <<>>]]
        /\ failures = 0
        /\ finalized = {}
        /\ calls = [r \in Ranks |-> <<>>]
        /\ received = [c \in Channels |-> <<>>]
        /\ early = {}
-----------------------------------------------------------------------------
(* TRACE_COLL and TRACE_P2P                                                  *)

\* Mutant: the entry is looked for by its call path only.
Entry_BySite(log, c) ==
    LET same == {i \in DOMAIN log : log[i].call.site = c.site}
    IN  IF same = {} THEN Len(log) + 1 ELSE Min(same)

\* The first entry with the same type, call path and partners, or a new one.
Entry(log, c) ==
    LET same == {i \in DOMAIN log : log[i].call = c}
    IN  IF same = {} THEN Len(log) + 1 ELSE Min(same)

Counted(log, i, c) == IF i \in DOMAIN log THEN [log EXCEPT ![i].count = @ + 1]
                      ELSE Append(log, [call |-> c, count |-> 1])

\* Mutant: the trace names the entry behind the log, also when the call was merged.
Noted_AsNew(books, b, c) ==
    LET i == Entry(books[b], c)
    IN  [books EXCEPT ![b] = Counted(@, i, c), !["trace"] = Append(@, <<b, Len(books[b]) + 1>>)]

Noted(books, b, c) ==
    LET i == Entry(books[b], c)
    IN  [books EXCEPT ![b] = Counted(@, i, c), !["trace"] = Append(@, <<b, i>>)]

\* Mutant: a full trace takes the logs with it.
Due_All(books, b) == IF Len(books["trace"]) >= Limit["trace"] THEN Books
                     ELSE {d \in {b} : Len(books[d]) >= Limit[d]}

\* Mutant: the limit itself is still accepted.
Due_Above(books, b) == {d \in {b, "trace"} : Len(books[d]) > Limit[d]}

Due(books, b) == {d \in {b, "trace"} : Len(books[d]) >= Limit[d]}

\* What is left in memory of the books that were written.
Emptied(books, bs) == [b \in Books |-> IF b \in bs THEN <<>> ELSE books[b]]

\* The books bs are to be written: those whose file opens are appended to it and
\* emptied, the others are kept.
Write(r, books, bs) ==
    \E failing \in SUBSET bs :
        /\ failures + Cardinality(failing) <= MaxFailures
        /\ failures' = failures + Cardinality(failing)
        /\ file' = [file EXCEPT ![r] = [b \in Books |-> IF b \in bs \ failing THEN @[b] \o books[b]
                                                        ELSE @[b]]]
        /\ mem' = [mem EXCEPT ![r] = Emptied(books, bs \ failing)]
        /\ early' = IF r \in finalized' \/ bs \ failing \subseteq {"trace"} THEN early
                    ELSE early \cup {r}

\* The call c of process r is recorded in book b, when it has returned.
Trace(r, b, c) ==
    /\ calls' = [calls EXCEPT ![r] = Append(@, [book |-> b, call |-> c])]
    /\ UNCHANGED finalized
    /\ LET books == Noted(mem[r], b, c) IN Write(r, books, Due(books, b))
-----------------------------------------------------------------------------
(* The wrappers of process r                                                 *)

Current(r) == program[r][at[r] + 1]
Calling(r, kind) == r \notin finalized /\ at[r] < Len(program[r]) /\ Current(r).op = kind
Returns(r) == at' = [at EXCEPT ![r] = @ + 1] /\ UNCHANGED program

Partners(s, d, t) == [source |-> s, dest |-> d, tag |-> t]
P2P(type, site, partners) == [type |-> type, site |-> site, partners |-> partners]
Set(f, k, v) == [x \in DOMAIN f \cup {k} |-> IF x = k THEN v ELSE f[x]]
Without(f, ks) == [x \in DOMAIN f \ ks |-> f[x]]

To(r) == <<r, Current(r).peer, Current(r).tag>>
From(r) == <<Current(r).peer, r, Current(r).tag>>
Sends(r, type) == /\ sent' = [sent EXCEPT ![To(r)] = Append(@, [type |-> type, site |-> Current(r).site])]
                  /\ UNCHANGED posted
RecordP2P(r, type, c) ==
    Trace(r, "p2p", P2P(type, Current(r).site, <<Partners(c[1], c[2], c[3])>>))

Send(r) ==
    /\ Calling(r, "send") /\ Returns(r)
    /\ Sends(r, "s")
    /\ RecordP2P(r, "s", To(r))
    /\ UNCHANGED <<active, requests, received>>

Isend(r) ==
    /\ Calling(r, "isend") /\ Returns(r)
    /\ Sends(r, "S")
    /\ LET q == Current(r).reqs[1]
       IN  /\ active' = [active EXCEPT ![r] = Set(@, q, [recv |-> FALSE, channel |-> To(r), nth |-> 0])]
           /\ requests' = [requests EXCEPT ![r] = Set(@, q, [source |-> r, tag |-> Current(r).tag])]
    /\ RecordP2P(r, "S", To(r))
    /\ UNCHANGED received

\* The receive that is posted next gets the message with its number.
Posts(r) == posted' = [posted EXCEPT ![From(r)] = @ + 1] /\ UNCHANGED sent
Arrived(c, nth) == Len(sent[c]) >= nth
Completed(c, nth, type, site) == [nth |-> nth, type |-> type, site |-> site]

Recv(r) ==
    /\ Calling(r, "recv") /\ Returns(r)
    /\ LET nth == posted[From(r)] + 1
       IN  /\ Arrived(From(r), nth)
           /\ received' = [received EXCEPT ![From(r)] = Append(@, Completed(From(r), nth, "r", Current(r).site))]
    /\ Posts(r)
    /\ RecordP2P(r, "r", From(r))
    /\ UNCHANGED <<active, requests>>

Irecv(r) ==
    /\ Calling(r, "irecv") /\ Returns(r)
    /\ Posts(r)
    /\ LET q == Current(r).reqs[1]
       IN  /\ active' = [active EXCEPT ![r] =
                            Set(@, q, [recv |-> TRUE, channel |-> From(r), nth |-> posted[From(r)] + 1])]
           /\ requests' = [requests EXCEPT ![r] = Set(@, q, [source |-> Current(r).peer, tag |-> Current(r).tag])]
    /\ RecordP2P(r, "R", From(r))
    /\ UNCHANGED received

\* The entry of a request is looked up; without one the status names no process.
AnySource == -1
Waited(r, q) == IF q \in DOMAIN requests[r] THEN Partners(requests[r][q].source, r, requests[r][q].tag)
                ELSE Partners(AnySource, r, AnySource)

Pending(r, q) == q \in DOMAIN active[r] /\ active[r][q].recv
Ready(r, q) == Pending(r, q) => Arrived(active[r][q].channel, active[r][q].nth)

\* What the receives among the requests qs get, in their order, for channel c.
Got(r, qs, c) ==
    LET mine == Selected(qs, {i \in DOMAIN qs : Pending(r, qs[i]) /\ active[r][qs[i]].channel = c})
    IN  [i \in DOMAIN mine |-> Completed(c, active[r][mine[i]].nth, "w", Current(r).site)]

\* The status of a request without entry is read also if the program did not ask for
\* statuses: the process crashes then, before it records the call or does anything else.
StatusesRead(r) == \A i \in DOMAIN Current(r).reqs :
                       Current(r).reqs[i] \in DOMAIN requests[r] \/ Current(r).statuses

\* MPI_Wait and MPI_Waitall: the entries of the requests are erased.
Wait(r) ==
    /\ Calling(r, "wait") /\ Returns(r)
    /\ LET qs == Current(r).reqs
           Done == {qs[i] : i \in DOMAIN qs}
       IN  /\ \A q \in Done : Ready(r, q)
           /\ StatusesRead(r)
           /\ requests' = [requests EXCEPT ![r] = Without(@, Done)]
           /\ active' = [active EXCEPT ![r] = Without(@, Done)]
           /\ received' = [c \in Channels |-> received[c] \o Got(r, qs, c)]
           /\ Trace(r, "p2p", P2P("w", Current(r).site, [i \in DOMAIN qs |-> Waited(r, qs[i])]))
    /\ UNCHANGED <<sent, posted>>

\* The number of collective calls that process q has left, and that it has entered.
Collectives == {"fromroot", "toroot", "alltoall"}
InColl(q) == \E k \in Collectives : Calling(q, k)
Round(q) == Cardinality({i \in 1..at[q] : program[q][i].op \in Collectives})
Entered(q) == Round(q) + (IF InColl(q) THEN 1 ELSE 0)
AllEntered(r) == \A q \in Ranks : Entered(q) > Round(r)

\* MPI_Bcast and MPI_Scatter: over when the root has entered.
FromRootOver(r) == Calling(r, "fromroot") /\ Entered(Current(r).peer) > Round(r)

\* MPI_Reduce and MPI_Gather: over for the root when all have entered.
ToRootOver(r) == Calling(r, "toroot") /\ (Current(r).peer = r => AllEntered(r))

\* MPI_Alltoall, MPI_Allreduce and MPI_Allgather: over when all have entered.
AllToAllOver(r) == Calling(r, "alltoall") /\ AllEntered(r)

CollCall(r) == P2P("c", Current(r).site, <<>>)

\* The entries of a book of process r: those in the file, and behind them those in memory.
Entries(r, b) == file[r][b] \o mem[r][b]

\* A new entry of the collective log keeps a duplicate of the communicator.  MPI_Comm_dup
\* is a collective call itself: it returns when every process has made, or is making,
\* as many duplicates.
Duplicates(r) == Len(Entries(r, "coll"))
NeedsDuplicate(r) ==
    InColl(r) /\ Entry(mem[r]["coll"], CollCall(r)) \notin DOMAIN mem[r]["coll"]
AtDuplicate(r) == /\ FromRootOver(r) \/ ToRootOver(r) \/ AllToAllOver(r)
                  /\ NeedsDuplicate(r)
Duplicated(r) == \A q \in Ranks : \/ Duplicates(q) > Duplicates(r)
                                  \/ Duplicates(q) = Duplicates(r) /\ AtDuplicate(q)

RecordColl(r) == /\ NeedsDuplicate(r) => Duplicated(r)
                 /\ Returns(r)
                 /\ Trace(r, "coll", CollCall(r))
                 /\ UNCHANGED <<sent, posted, active, requests, received>>

FromRoot(r) == FromRootOver(r) /\ RecordColl(r)
ToRoot(r) == ToRootOver(r) /\ RecordColl(r)
AllToAll(r) == AllToAllOver(r) /\ RecordColl(r)

Finalize(r) ==
    /\ r \notin finalized /\ at[r] = Len(program[r])
    /\ finalized' = finalized \cup {r}
    /\ Write(r, mem[r], Books)
    /\ UNCHANGED <<mpi, requests, calls, received>>

Next == \E r \in Ranks :
            \/ Send(r) \/ Isend(r) \/ Recv(r) \/ Irecv(r) \/ Wait(r)
            \/ FromRoot(r) \/ ToRoot(r) \/ AllToAll(r)
            \/ Finalize(r)

Spec == Init /\ [][Next]_vars
-----------------------------------------------------------------------------
(* Properties                                                                *)

\* A book always has room for the next entry, even if its file did not open when it
\* was to be written and it stays as long as it was (137-140, 276-281).
RoomForNext == \A r \in Ranks : \A b \in Books : Len(mem[r][b]) < Limit[b] + Slack

\* What the trace is for (16: "Use index to record all communication traces"): as long
\* as no log was written before MPI_Finalize, the i-th entry of the trace names an
\* entry with the i-th call of the process.
TraceReplaysCalls ==
    \A r \in Ranks \ early :
        LET trace == Entries(r, "trace")
        IN  /\ Len(trace) = Len(calls[r])
            /\ \A i \in DOMAIN trace :
                  LET b == trace[i][1]
                  IN  /\ b = calls[r][i].book
                      /\ trace[i][2] \in DOMAIN Entries(r, b)
                      /\ Entries(r, b)[trace[i][2]].call = calls[r][i].call

\* the number of times call c was counted in log
TimesIn(log, c) ==
    SumFunctionOnSet([i \in DOMAIN log |-> log[i].count], {i \in DOMAIN log : log[i].call = c})

\* Merging, writing and failing to write lose and double no call: the entries in file
\* and memory count each different call as often as it was made (245-268, 297-331).
LogsCountCalls ==
    \A r \in Ranks : \A b \in {"coll", "p2p"} :
        LET made == {i \in DOMAIN calls[r] : calls[r][i].book = b}
        IN  \A c \in {calls[r][i].call : i \in made} :
                TimesIn(Entries(r, b), c) = Cardinality({i \in made : calls[r][i].call = c})

\* The call path of the n-th collective call of process r.
CollSite(r, n) == LET colls == {i \in DOMAIN program[r] : program[r][i].op \in Collectives}
                  IN  Selected(program[r], colls)[n].site

\* All processes make their n-th collective call from the same call path.
SameCollectives == \A r, q \in Ranks : \A n \in 1..Entered(r) :
                       n <= Entered(q) => CollSite(r, n) = CollSite(q, n)

\* Process r needs a duplicate at the end of its call, but process q, which is in the same
\* collective call or behind it, has made none and makes none in this call.
DuplicatesAlone(r, q) == /\ NeedsDuplicate(r)
                         /\ Entered(q) > Round(r)
                         /\ Duplicates(q) <= Duplicates(r)
                         /\ Round(q) = Round(r) => ~NeedsDuplicate(q)

\* The tracer adds no collective call of its own (268) that is left to one process, on
\* which the program would hang: whatever else the processes call, and whenever their
\* books are written.  (If a file does not open, the book of one process only is kept.)
NobodyDuplicatesAlone ==
    failures = 0 /\ SameCollectives => \A r, q \in Ranks : ~DuplicatesAlone(r, q)
===============================================================================
