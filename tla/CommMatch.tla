-------------------------------- MODULE CommMatch -----------------------------
(***************************************************************************)
(* The analysis of the files of MpiTracer: for each receive, the send of   *)
(* the same channel that is left, to be joined by an edge.  The exact      *)
(* analysis (comm_dep_analysis.cpp) goes through the traces, the           *)
(* approximate one (comm_dep_approxi_analysis.cpp) through the logs, where *)
(* an entry stands for all its calls.                                      *)
(***************************************************************************)
EXTENDS MpiTracer, SequencesExt

CONSTANT ReadRequests   \* the requests an entry has room for here: MAX_WAIT_REQ, 50

ASSUME ReadAssumption == ReadRequests \in Nat

VARIABLES analysis,     \* "none", "exact", "approximate", "crashed" or "overrun"
          ops,          \* the calls of each process that are left: trace_log, or p2p_info
          pid, nth, req, \* the process, its call and the request of it to match next
          edges         \* comm_dep_edge

matching == <<analysis, ops, pid, nth, req, edges>>

MatchInit == /\ analysis = "none"
             /\ ops = [r \in Ranks |-> <<>>]
             /\ pid = 0 /\ nth = 1 /\ req = 1
             /\ edges = {}

AllFinalized == finalized = Ranks

\* The entries of the traces that are point-to-point calls.
P2PTrace(r) == Selected(file[r].trace, {i \in DOMAIN file[r].trace : file[r].trace[i][1] = "p2p"})
Readable == \A r \in Ranks : \A i \in DOMAIN P2PTrace(r) : P2PTrace(r)[i][2] \in DOMAIN file[r].p2p

\* An entry that MpiTracer could hold has more requests than an entry has room for here.
TooLong(r) == \E i \in DOMAIN file[r].p2p : Len(file[r].p2p[i].call.partners) > ReadRequests

ShortEntries == \A r \in Ranks : ~TooLong(r)

\* readMPIInfo: it copies the requests of an entry without a look at their number.  Behind
\* the arrays the analysis is undefined, and nothing is said of it any more.
Overrun == /\ ~ShortEntries
           /\ analysis' = "overrun" /\ UNCHANGED ops

\* readMPIInfo and readTraceInfo: the calls the traces name.  The analysis crashes at an
\* index that names no entry.
ReadTraces ==
    /\ ShortEntries
    /\ IF Readable
       THEN /\ analysis' = "exact"
            /\ ops' = [r \in Ranks |-> [i \in DOMAIN P2PTrace(r) |-> file[r].p2p[P2PTrace(r)[i][2]].call]]
       ELSE analysis' = "crashed" /\ UNCHANGED ops

ReadLogs ==
    /\ ShortEntries
    /\ analysis' = "approximate"
    /\ ops' = [r \in Ranks |-> [i \in DOMAIN file[r].p2p |-> file[r].p2p[i].call]]

StartMatch == /\ AllFinalized /\ analysis = "none"
              /\ Overrun \/ ReadTraces \/ ReadLogs
              /\ UNCHANGED <<pid, nth, req, edges, vars>>

Receiver == ops[pid][nth]
Wanted == Receiver.partners[req]

IsReceive(c) == c.type \in {"r", "w"}
IsMessage(p) == p.source # p.dest /\ p.source \in Ranks

\* Mutant: the tag is not compared.
Answers_AnyTag(c, p) == /\ c.type \in {"s", "S"}
                        /\ c.partners[1].source = p.source /\ c.partners[1].dest = p.dest

Answers(c, p) == c.type \in {"s", "S"} /\ c.partners[1] = p

\* Mutant: the last send is taken.
MatchingSend_Last(p) == LET found == {i \in DOMAIN ops[p.source] : Answers(ops[p.source][i], p)}
                        IN  IF found = {} THEN 0 ELSE Max(found)

\* The first send with the source, destination and tag of p, 0 if there is none.
MatchingSend(p) == LET found == {i \in DOMAIN ops[p.source] : Answers(ops[p.source][i], p)}
                   IN  IF found = {} THEN 0 ELSE Min(found)

Edge(p, s) == [src |-> p.source, dest |-> pid,
               srcType |-> s.type, destType |-> Receiver.type,
               srcPath |-> s.site, destPath |-> Receiver.site]

\* The send is deleted, and the edge recorded unless there is one like it.
Match(p) ==
    LET i == MatchingSend(p)
    IN  IF i = 0 THEN UNCHANGED <<ops, edges>>
        ELSE /\ ops' = [ops EXCEPT ![p.source] = RemoveAt(@, i)]
             /\ edges' = edges \cup {Edge(p, ops[p.source][i])}

NextRequest == IF req < Len(Receiver.partners)
               THEN req' = req + 1 /\ UNCHANGED nth
               ELSE req' = 1 /\ nth' = nth + 1

\* commOpMatch, commOpMatchWithMPIInfo: one request of one call of process pid.
MatchRequest ==
    /\ analysis \in {"exact", "approximate"} /\ pid \in Ranks /\ nth <= Len(ops[pid])
    /\ IF IsReceive(Receiver) /\ req <= Len(Receiver.partners) /\ IsMessage(Wanted)
       THEN Match(Wanted)
       ELSE UNCHANGED <<ops, edges>>
    /\ NextRequest
    /\ UNCHANGED <<analysis, pid, vars>>

NextProcess ==
    /\ analysis \in {"exact", "approximate"} /\ pid \in Ranks /\ nth > Len(ops[pid])
    /\ pid' = pid + 1 /\ nth' = 1
    /\ UNCHANGED <<analysis, ops, req, edges, vars>>

Matched == analysis \in {"exact", "approximate"} /\ pid \notin Ranks

MatchNext == StartMatch \/ MatchRequest \/ NextProcess
-----------------------------------------------------------------------------
(* Properties                                                                *)

\* What the files are to be relied on for: every one was written as a whole.
Complete == failures = 0 /\ early = {}

\* The receives of channel c completed in the order in which they were posted.
InOrder(c) == \A i \in DOMAIN received[c] : received[c][i].nth = i

\* The edge between the i-th receive of channel c that completed and its message.
TrueEdge(c, i) == LET r == received[c][i]
                      s == sent[c][r.nth]
                  IN  [src |-> c[1], dest |-> c[2], srcType |-> s.type, destType |-> r.type,
                       srcPath |-> s.site, destPath |-> r.site]

EdgesBetween(p, q) == {e \in edges : e.src = p /\ e.dest = q}

\* If no wait has more requests than an entry has room for, and the receives between two
\* processes completed as they were posted, the exact analysis joins each to the message
\* that it got, whatever happened between other processes, and finds nothing else
\* (comm_dep_analysis.cpp 182: "search, record, and delete corresponding send op").
ExactEdgesAreMessages ==
    Matched /\ analysis = "exact" /\ ShortEntries /\ Complete =>
        \A p, q \in Ranks :
            LET between == {c \in Channels : c[1] = p /\ c[2] = q}
            IN  p # q /\ (\A c \in between : InOrder(c)) =>
                    EdgesBetween(p, q) = UNION {{TrueEdge(c, i) : i \in DOMAIN received[c]} : c \in between}

\* All messages of a channel are sent by one entry of the log and received by one.
OneSite(c) ==
    /\ \A i, j \in DOMAIN sent[c] : sent[c][i] = sent[c][j]
    /\ \A i, j \in DOMAIN received[c] : received[c][i].site = received[c][j].site
                                        /\ received[c][i].type = received[c][j].type

\* The approximate analysis misses edges and may invent some, but not where every
\* channel of the two processes has one sending and one receiving call path (and no wait
\* has more requests than an entry has room for).
ApproximateEdgesAreMessages ==
    Matched /\ analysis = "approximate" /\ ShortEntries /\ failures = 0 =>
        \A p, q \in Ranks :
            LET between == {c \in Channels : c[1] = p /\ c[2] = q}
            IN  p # q /\ (\A c \in between : OneSite(c)) =>
                    EdgesBetween(p, q) = UNION {{TrueEdge(c, i) : i \in DOMAIN received[c]} : c \in between}
===============================================================================
