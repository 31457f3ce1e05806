--------------------------------- MODULE MCMpi --------------------------------
(***************************************************************************)
(* Process 0 sends three messages, from two call paths and with one or two *)
(* tags; process 1 receives them, blocking or not, in several orders, and  *)
(* may answer; there may be a collective call before the end.  Or, in the  *)
(* programs of the collective calls, there are two messages and three of   *)
(* them.                                                                   *)
(***************************************************************************)
EXTENDS ProcessGraph

MCRanks == {0, 1}
MCTags == {1, 2}
MCSites == {"a", "b"}
MCRequests == {"q", "p", "o"}

Do(op, peer, tag, site, reqs) ==
    [op |-> op, peer |-> peer, tag |-> tag, site |-> site, reqs |-> reqs, statuses |-> TRUE]
Sending == {Do("send", 1, 1, x, <<>>) : x \in MCSites}
LastSend == Sending \cup {Do("send", 1, 2, "a", <<>>)}
ISend == Do("isend", 1, 1, "a", <<"q">>)
R(op, tag, site, reqs) == Do(op, 0, tag, site, reqs)

Senders == {<<x, y, z>> : x, y \in Sending, z \in LastSend}
           \cup {<<ISend, x, Do("wait", 1, 1, "b", <<"q">>), z>> : x \in Sending, z \in LastSend}

\* Process 1 receives two messages with tag 1.
Receivers ==
    {<<R("recv", 1, x, <<>>), R("recv", 1, y, <<>>)>> : x, y \in MCSites}
    \cup {<<R("irecv", 1, "a", <<"q">>), R("recv", 1, "b", <<>>), R("wait", 1, x, <<"q">>)>> : x \in MCSites}
    \cup {<<R("irecv", 1, "a", <<"q">>), R("irecv", 1, "a", <<"p">>)>> \o w :
             w \in {<<R("wait", 1, "b", <<"q", "p">>)>>, <<R("wait", 1, "b", <<"p", "q">>)>>,
                    <<R("wait", 1, "a", <<"q">>), R("wait", 1, "b", <<"p">>)>>,
                    <<R("wait", 1, "a", <<"p">>), R("wait", 1, "b", <<"q">>)>>}}

Answer == Do("send", 0, 1, "a", <<>>)
Answered == Do("recv", 1, 1, "b", <<>>)
Together == {<<>>} \cup {<<Do(k, 0, 1, "a", <<>>)>> : k \in {"fromroot", "toroot", "alltoall"}}

MCPrograms ==
    {[r \in MCRanks |-> IF r = 0 THEN s \o t ELSE w \o <<R("recv", s[Len(s)].tag, "a", <<>>)>> \o t] :
        s \in Senders, w \in Receivers, t \in Together}
    \cup {[r \in MCRanks |-> IF r = 0 THEN s \o <<Answered>> ELSE <<Answer>> \o w] :
             s \in {u \in Senders : u[Len(u)].tag = 2}, w \in Receivers}

\* A wait for three requests, and a wait for a request that was waited for already, with
\* and without statuses.
AllAtOnce(tag) == <<R("irecv", 1, "a", <<"q">>), R("irecv", 1, "a", <<"p">>),
                    R("irecv", tag, "b", <<"o">>), R("wait", 1, "b", <<"q", "p", "o">>)>>
Again(tag, statuses) ==
    <<R("irecv", 1, "a", <<"q">>), R("wait", 1, "b", <<"q">>),
      [R("wait", 1, "b", <<"q">>) EXCEPT !.statuses = statuses], R("recv", 1, "b", <<>>),
      R("recv", tag, "a", <<>>)>>
WaitPrograms ==
    UNION {{[r \in MCRanks |-> IF r = 0 THEN s ELSE w] :
               w \in {AllAtOnce(s[3].tag), Again(s[3].tag, TRUE), Again(s[3].tag, FALSE)}} :
              s \in {u \in Senders : Len(u) = 3}}

\* Three collective calls, from the same call paths or not, behind two messages that take
\* more calls to send than to receive: the trace of process 0 is due between them.
Colls(kinds, sites) == [i \in 1..3 |-> Do(kinds[i], 0, 1, sites[i], <<>>)]
BeforeColls == [r \in MCRanks |->
    IF r = 0 THEN <<ISend, Do("send", 1, 1, "a", <<>>), Do("wait", 1, 1, "b", <<"q">>)>>
    ELSE <<R("recv", 1, "a", <<>>), R("recv", 1, "a", <<>>)>>]
CollPrograms ==
    {[r \in MCRanks |-> BeforeColls[r] \o Colls(k, IF r = 0 THEN x ELSE y)] :
        k \in [1..3 -> Collectives], x, y \in [1..3 -> MCSites]}

AllPrograms == MCPrograms \cup WaitPrograms \cup CollPrograms

MCKids == [v \in 0..3 |-> CASE v = 0 -> <<2, 1>> [] v = 2 -> <<3>> [] OTHER -> <<>>]
MCVertexOf == [x \in MCSites |-> IF x = "a" THEN 3 ELSE 1]
MCSamples == {[v \in 0..3 |-> [r \in MCRanks |-> 2 * v + r]]}
MCLimit == [coll |-> 2, p2p |-> 5, trace |-> 5]
===============================================================================
