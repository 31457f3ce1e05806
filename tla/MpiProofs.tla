------------------------------- MODULE MpiProofs -------------------------------
(***************************************************************************)
(* What the books of the MPI tracer, the edges found in them and the graph *)
(* of the processes guarantee for every program, number of processes,      *)
(* program graph, limits and failures of files.                            *)
(*                                                                         *)
(* The tracer first: its books have room, its traces replay the calls and  *)
(* its logs count them.  Then the copies of the program graph that         *)
(* ProcessGraph makes.  Then what the calls, the messages and the files    *)
(* say of each other, which gives the edges of the approximate analysis    *)
(* and those between the copies; and at last the order of the calls, which *)
(* gives the edges of the exact analysis.                                  *)
(***************************************************************************)
EXTENDS ProcessGraph, SumTheorems, SequenceTheorems, TLAPS

-------------------------------------------------------------------------------
(* Sequences of anything                                                       *)

\* The empty book.
LEMMA EmptyIsSequence == IsSequence(<<>>) /\ Len(<<>>) = 0
<1>1. <<>> \in Seq({})
  OBVIOUS
<1> QED
  BY <1>1 DEF IsSequence

\* A sequence with one more element.
LEMMA AppendIs ==
    ASSUME NEW s, NEW e, IsSequence(s)
    PROVE  /\ IsSequence(Append(s, e))
           /\ Len(Append(s, e)) = Len(s) + 1
           /\ DOMAIN Append(s, e) = 1..(Len(s) + 1)
           /\ \A i \in 1..Len(s) : Append(s, e)[i] = s[i]
           /\ Append(s, e)[Len(s) + 1] = e
<1>1. PICK S : s \in Seq(S)
  BY DEF IsSequence
<1>2. s \in Seq(S \cup {e}) /\ e \in S \cup {e}
  BY <1>1
<1>3. Append(s, e) \in Seq(S \cup {e})
  BY <1>2
<1> QED
  BY <1>2, <1>3 DEF IsSequence

\* A sequence behind another.
LEMMA ConcatIs ==
    ASSUME NEW s, NEW t, IsSequence(s), IsSequence(t)
    PROVE  /\ IsSequence(s \o t)
           /\ Len(s \o t) = Len(s) + Len(t)
           /\ \A i \in 1..(Len(s) + Len(t)) :
                 (s \o t)[i] = IF i <= Len(s) THEN s[i] ELSE t[i - Len(s)]
<1>1. PICK S : s \in Seq(S)
  BY DEF IsSequence
<1>2. PICK T : t \in Seq(T)
  BY DEF IsSequence
<1> DEFINE U == S \cup T
<1>3. s \in Seq(U) /\ t \in Seq(U)
  BY <1>1, <1>2
<1>4. s \o t \in Seq(U)
  BY <1>3
<1> QED
  BY <1>3, <1>4 DEF IsSequence

\* Sequences with the same elements are the same.
LEMMA SameSequence ==
    ASSUME NEW s, NEW t, IsSequence(s), IsSequence(t), Len(s) = Len(t),
           \A i \in 1..Len(s) : s[i] = t[i]
    PROVE  s = t
<1>1. PICK S : s \in Seq(S)
  BY DEF IsSequence
<1>2. PICK T : t \in Seq(T)
  BY DEF IsSequence
<1>3. s \in Seq(S \cup T) /\ t \in Seq(S \cup T)
  BY <1>1, <1>2
<1> QED
  BY <1>3, SeqEqual

\* Nothing in front or behind.
LEMMA ConcatEmpty ==
    ASSUME NEW s, IsSequence(s)
    PROVE  s \o <<>> = s /\ <<>> \o s = s
<1>1. Len(s) \in Nat
  BY LenIsNat
<1>2. s \o <<>> = s
  BY <1>1, EmptyIsSequence, ConcatIs, SameSequence
<1>3. <<>> \o s = s
  BY <1>1, EmptyIsSequence, ConcatIs, SameSequence
<1> QED
  BY <1>2, <1>3

\* Appending to what is in memory appends to file and memory together.
LEMMA ConcatAppend ==
    ASSUME NEW s, NEW t, NEW e, IsSequence(s), IsSequence(t)
    PROVE  s \o Append(t, e) = Append(s \o t, e)
<1>1. Len(s) \in Nat /\ Len(t) \in Nat
  BY LenIsNat
<1>2. IsSequence(s \o t) /\ Len(s \o t) = Len(s) + Len(t)
  BY ConcatIs
<1>3. IsSequence(Append(t, e)) /\ Len(Append(t, e)) = Len(t) + 1
  BY AppendIs
<1>4. IsSequence(s \o Append(t, e)) /\ Len(s \o Append(t, e)) = Len(s) + Len(t) + 1
  BY <1>1, <1>3, ConcatIs
<1>5. IsSequence(Append(s \o t, e)) /\ Len(Append(s \o t, e)) = Len(s) + Len(t) + 1
  BY <1>2, AppendIs
<1>6. ASSUME NEW i \in 1..(Len(s) + Len(t) + 1)
      PROVE  (s \o Append(t, e))[i] = Append(s \o t, e)[i]
  <2>1. (s \o Append(t, e))[i] = IF i <= Len(s) THEN s[i] ELSE Append(t, e)[i - Len(s)]
    BY <1>1, <1>3, ConcatIs
  <2>2. CASE i = Len(s) + Len(t) + 1
    <3>1. Append(t, e)[i - Len(s)] = e
      BY <1>1, <2>2, AppendIs
    <3>2. Append(s \o t, e)[i] = e
      BY <1>2, <2>2, AppendIs
    <3> QED
      BY <1>1, <2>1, <2>2, <3>1, <3>2
  <2>3. CASE i # Len(s) + Len(t) + 1
    <3>1. i \in 1..(Len(s) + Len(t))
      BY <1>1, <2>3
    <3>2. Append(s \o t, e)[i] = IF i <= Len(s) THEN s[i] ELSE t[i - Len(s)]
      BY <1>2, <3>1, AppendIs, ConcatIs
    <3>3. ASSUME i > Len(s) PROVE Append(t, e)[i - Len(s)] = t[i - Len(s)]
      <4>1. i - Len(s) \in 1..Len(t)
        BY <1>1, <3>1, <3>3
      <4> QED
        BY <4>1, AppendIs
    <3> QED
      BY <1>1, <2>1, <3>2, <3>3
  <2> QED
    BY <2>2, <2>3
<1> QED
  BY <1>4, <1>5, <1>6, SameSequence
-------------------------------------------------------------------------------
(* Logs                                                                        *)

Logs == {"coll", "p2p"}

\* No two entries of a log in memory are of the same call.
IsLog(s) == /\ IsSequence(s)
            /\ \A i \in 1..Len(s) : "call" \in DOMAIN s[i]
            /\ \A i, j \in 1..Len(s) : s[i].call = s[j].call => i = j

\* Of the entries with the same call there is one at most, so that Entry finds it.
LEMMA EntryIs ==
    ASSUME NEW s, NEW c, IsLog(s)
    PROVE  \/ /\ Entry(s, c) = Len(s) + 1
              /\ \A i \in 1..Len(s) : s[i].call # c
           \/ /\ Entry(s, c) \in 1..Len(s)
              /\ s[Entry(s, c)].call = c
<1>1. Len(s) \in Nat /\ DOMAIN s = 1..Len(s)
  BY LenIsNat DEF IsLog
<1> DEFINE same == {i \in DOMAIN s : s[i].call = c}
<1>2. CASE same = {}
  BY <1>1, <1>2 DEF Entry
<1>3. CASE same # {}
  <2>1. PICK k \in same : TRUE
    BY <1>3
  <2>2. k \in 1..Len(s) /\ s[k].call = c
    BY <1>1, <2>1
  <2>3. \A i \in same : i = k
    BY <1>1, <2>2 DEF IsLog
  <2>4. same = {k}
    BY <2>1, <2>3
  <2>5. Min({k}) = k
    BY <1>1, <2>2 DEF Min
  <2>6. Entry(s, c) = k
    BY <1>3, <2>4, <2>5 DEF Entry
  <2> QED
    BY <2>2, <2>6
<1> QED
  BY <1>2, <1>3

\* Counting a call leaves the calls of the entries as they are, and names one with it.
LEMMA CountedIs ==
    ASSUME NEW s, NEW c, NEW i, NEW t, IsLog(s), i = Entry(s, c), t = Counted(s, i, c)
    PROVE  /\ IsLog(t)
           /\ Len(t) \in {Len(s), Len(s) + 1}
           /\ i \in 1..Len(t) /\ t[i].call = c
           /\ \A k \in 1..Len(s) : t[k].call = s[k].call
<1>1. Len(s) \in Nat /\ DOMAIN s = 1..Len(s) /\ IsSequence(s)
  BY LenIsNat DEF IsLog
<1>2. CASE i = Len(s) + 1 /\ \A k \in 1..Len(s) : s[k].call # c
  <2> DEFINE e == [call |-> c, count |-> 1]
  <2>1. t = Append(s, e)
    BY <1>1, <1>2 DEF Counted
  <2>2. e.call = c /\ "call" \in DOMAIN e
    OBVIOUS
  <2> HIDE DEF e
  <2>3. /\ IsSequence(t) /\ Len(t) = Len(s) + 1
        /\ \A k \in 1..Len(s) : t[k] = s[k]
        /\ t[Len(s) + 1] = e
    BY <1>1, <2>1, AppendIs
  <2>4. IsLog(t)
    BY <1>1, <1>2, <2>2, <2>3 DEF IsLog
  <2> QED
    BY <1>1, <1>2, <2>2, <2>3, <2>4
<1>3. CASE i \in 1..Len(s) /\ s[i].call = c
  <2>1. t = [s EXCEPT ![i].count = @ + 1]
    BY <1>1, <1>3 DEF Counted
  <2>2. PICK S : s \in Seq(S)
    BY <1>1 DEF IsSequence
  <2> DEFINE e == [s[i] EXCEPT !.count = @ + 1]
  <2>3. t = [s EXCEPT ![i] = e]
    BY <2>1
  <2>4. s \in Seq(S \cup {e})
    BY <2>2
  <2>5. e.call = c /\ "call" \in DOMAIN e
    BY <1>3 DEF IsLog
  <2> HIDE DEF e
  <2>6. t \in Seq(S \cup {e}) /\ Len(t) = Len(s)
    BY <1>3, <2>3, <2>4
  <2>7. t[i] = e /\ \A k \in 1..Len(s) : k # i => t[k] = s[k]
    BY <1>1, <1>3, <2>3
  <2>8. \A k \in 1..Len(s) : t[k].call = s[k].call /\ "call" \in DOMAIN t[k]
    BY <1>3, <2>5, <2>7 DEF IsLog
  <2>9. IsLog(t)
    BY <2>6, <2>8 DEF IsLog, IsSequence
  <2> QED
    BY <1>3, <2>6, <2>8, <2>9
<1> QED
  BY <1>2, <1>3, EntryIs
-------------------------------------------------------------------------------
(* Writing the books                                                           *)

Shape == /\ failures \in 0..MaxFailures
         /\ DOMAIN mem = Ranks /\ DOMAIN file = Ranks /\ DOMAIN calls = Ranks
         /\ \A r \in Ranks : DOMAIN mem[r] = Books /\ DOMAIN file[r] = Books /\ IsSequence(calls[r])
         /\ \A r \in Ranks, b \in Books : IsSequence(mem[r][b]) /\ IsSequence(file[r][b])
         /\ \A r \in Ranks, b \in Logs : IsLog(mem[r][b])

\* Books that fail to open can be counted.
LEMMA FewBooks ==
    ASSUME NEW bs \in SUBSET Books
    PROVE  /\ Cardinality(bs) \in Nat
           /\ Cardinality(bs) = 0 <=> bs = {}
<1>1. IsFiniteSet({"coll"}) /\ IsFiniteSet({"p2p"}) /\ IsFiniteSet({"trace"})
  BY FS_Singleton
<1>2. Books = ({"coll"} \cup {"p2p"}) \cup {"trace"}
  BY DEF Books
<1>3. IsFiniteSet(Books)
  BY <1>1, <1>2, FS_Union
<1>4. IsFiniteSet(bs)
  BY <1>3, FS_Subset
<1> QED
  BY <1>4, FS_CardinalityType, FS_EmptySet

\* Of the books bs, those that were written have moved to the file; a failure was counted
\* unless all were.
HasWritten(r, books, bs, written) ==
    /\ failures' \in failures..MaxFailures
    /\ written = bs \/ failures' > failures
    /\ DOMAIN mem' = Ranks /\ DOMAIN file' = Ranks
    /\ DOMAIN mem'[r] = Books /\ DOMAIN file'[r] = Books
    /\ \A q \in Ranks : q # r => mem'[q] = mem[q] /\ file'[q] = file[q]
    /\ \A d \in Books :
          /\ mem'[r][d] = IF d \in written THEN <<>> ELSE books[d]
          /\ file'[r][d] = IF d \in written THEN file[r][d] \o books[d] ELSE file[r][d]
    /\ early' = IF r \in finalized' \/ written \subseteq {"trace"} THEN early ELSE early \cup {r}

\* Write moves some of the books that are due, or counts a failure for those that are not.
LEMMA WriteIs ==
    ASSUME Shape, NEW r \in Ranks, NEW books, NEW bs \in SUBSET Books, Write(r, books, bs)
    PROVE  \E written \in SUBSET bs : HasWritten(r, books, bs, written)
<1>1. PICK failing \in SUBSET bs :
        /\ failures + Cardinality(failing) <= MaxFailures
        /\ failures' = failures + Cardinality(failing)
        /\ file' = [file EXCEPT ![r] =
                       [b \in Books |-> IF b \in bs \ failing THEN file[r][b] \o books[b]
                                        ELSE file[r][b]]]
        /\ mem' = [mem EXCEPT ![r] = Emptied(books, bs \ failing)]
        /\ early' = IF r \in finalized' \/ bs \ failing \subseteq {"trace"} THEN early
                    ELSE early \cup {r}
  BY DEF Write
<1> DEFINE written == bs \ failing
<1>2. /\ Cardinality(failing) \in Nat
      /\ Cardinality(failing) = 0 => written = bs
  BY FewBooks
<1>3. failures' \in failures..MaxFailures /\ (written = bs \/ failures' > failures)
  BY <1>1, <1>2, TracerAssumption DEF Shape
<1>4. /\ DOMAIN mem' = Ranks /\ DOMAIN file' = Ranks
      /\ \A q \in Ranks : q # r => mem'[q] = mem[q] /\ file'[q] = file[q]
  BY <1>1 DEF Shape
<1>5. mem'[r] = Emptied(books, written)
  BY <1>1 DEF Shape
<1>6. file'[r] = [b \in Books |-> IF b \in written THEN file[r][b] \o books[b] ELSE file[r][b]]
  BY <1>1 DEF Shape
<1>7. early' = IF r \in finalized' \/ written \subseteq {"trace"} THEN early ELSE early \cup {r}
  BY <1>1
<1>8. written \in SUBSET bs
  OBVIOUS
<1> HIDE DEF written
<1> WITNESS written \in SUBSET bs
<1> QED
  BY <1>3, <1>4, <1>5, <1>6, <1>7 DEF Emptied, HasWritten
-------------------------------------------------------------------------------
(* The inductive invariant                                                     *)

\* A book is longer than its limit only by the failures that kept it from being written.
RoomLeft == \A r \in Ranks, b \in Books : Len(mem[r][b]) < Limit[b] + failures

\* Until MPI_Finalize the logs of a process that wrote none are in memory.
LogsInMemory == \A r \in Ranks \ (early \cup finalized) : \A b \in Logs : file[r][b] = <<>>

Replays(r, trace) ==
    /\ Len(trace) = Len(calls[r])
    /\ \A i \in 1..Len(trace) :
          /\ calls[r][i].book \in Logs
          /\ trace[i][1] = calls[r][i].book
          /\ trace[i][2] \in 1..Len(Entries(r, calls[r][i].book))
          /\ Entries(r, calls[r][i].book)[trace[i][2]].call = calls[r][i].call

TracesReplay == \A r \in Ranks \ early : Replays(r, Entries(r, "trace"))

IInv == Shape /\ RoomLeft /\ LogsInMemory /\ TracesReplay

\* All books are empty at first.
LEMMA InitIInv == Init => IInv
<1> SUFFICES ASSUME Init PROVE IInv
  OBVIOUS
<1>1. \A r \in Ranks, b \in Books : mem[r][b] = <<>> /\ file[r][b] = <<>>
  BY DEF Init
<1>2. Shape
  BY <1>1, EmptyIsSequence, TracerAssumption DEF Init, Shape, IsLog, Logs, Books
<1>3. RoomLeft
  BY <1>1, EmptyIsSequence, TracerAssumption DEF Init, RoomLeft
<1>4. LogsInMemory
  BY <1>1 DEF LogsInMemory, Logs, Books
<1>5. ASSUME NEW r \in Ranks PROVE Replays(r, Entries(r, "trace"))
  <2>1. Entries(r, "trace") = <<>>
    BY <1>1, EmptyIsSequence, ConcatEmpty DEF Entries, Books
  <2>2. calls[r] = <<>>
    BY DEF Init
  <2> QED
    BY <2>1, <2>2, EmptyIsSequence DEF Replays
<1> QED
  BY <1>2, <1>3, <1>4, <1>5 DEF IInv, TracesReplay
-------------------------------------------------------------------------------
(* One call                                                                    *)

\* What the books of process r are when call c was noted in book b, as entry i of it,
\* and before any is written.
HasNoted(books, r, b, c, i) ==
    /\ DOMAIN books = Books
    /\ books[b] = Counted(mem[r][b], i, c)
    /\ books["trace"] = Append(mem[r]["trace"], <<b, i>>)
    /\ \A d \in Logs : d # b => books[d] = mem[r][d]
    /\ \A d \in Books : IsSequence(books[d])
    /\ \A d \in Books : Len(books[d]) <= Len(mem[r][d]) + 1
    /\ \A d \in Logs : /\ IsLog(books[d]) /\ Len(books[d]) >= Len(mem[r][d])
                       /\ \A k \in 1..Len(mem[r][d]) : books[d][k].call = mem[r][d][k].call
    /\ i \in 1..Len(books[b]) /\ books[b][i].call = c

\* What noting a call does to the books in memory.
LEMMA NotedIs ==
    ASSUME Shape, NEW r \in Ranks, NEW b \in Logs, NEW c, NEW i, NEW books,
           i = Entry(mem[r][b], c), books = Noted(mem[r], b, c)
    PROVE  HasNoted(books, r, b, c, i)
<1>1. /\ DOMAIN mem[r] = Books /\ \A d \in Books : IsSequence(mem[r][d])
      /\ \A d \in Logs : IsLog(mem[r][d])
  BY DEF Shape
<1>2. books = [mem[r] EXCEPT ![b] = Counted(mem[r][b], i, c),
                             !["trace"] = Append(mem[r]["trace"], <<b, i>>)]
  BY DEF Noted, Logs
<1>3. /\ DOMAIN books = Books
      /\ books[b] = Counted(mem[r][b], i, c)
      /\ books["trace"] = Append(mem[r]["trace"], <<b, i>>)
      /\ \A d \in Logs : d # b => books[d] = mem[r][d]
  BY <1>1, <1>2 DEF Logs, Books
<1>4. /\ IsLog(books[b])
      /\ Len(books[b]) \in {Len(mem[r][b]), Len(mem[r][b]) + 1}
      /\ i \in 1..Len(books[b]) /\ books[b][i].call = c
      /\ \A k \in 1..Len(mem[r][b]) : books[b][k].call = mem[r][b][k].call
  BY <1>1, <1>3, CountedIs
<1>5. IsSequence(books["trace"]) /\ Len(books["trace"]) = Len(mem[r]["trace"]) + 1
  BY <1>1, <1>3, AppendIs DEF Books
<1>6. \A d \in Books : Len(mem[r][d]) \in Nat
  BY <1>1, LenIsNat
<1>7. \A d \in Books : d = "trace" \/ d \in Logs
  BY DEF Books, Logs
<1>8. Logs \subseteq Books
  BY DEF Books, Logs
<1>9. \A d \in Books : IsSequence(books[d])
  BY <1>1, <1>3, <1>4, <1>5, <1>7 DEF IsLog
<1>10. \A d \in Books : Len(books[d]) <= Len(mem[r][d]) + 1
  BY <1>3, <1>4, <1>5, <1>6, <1>7, <1>8, SMTT(20)
<1>11. \A d \in Logs : /\ IsLog(books[d]) /\ Len(books[d]) >= Len(mem[r][d])
                       /\ \A k \in 1..Len(mem[r][d]) : books[d][k].call = mem[r][d][k].call
  BY <1>1, <1>3, <1>4, <1>6, <1>8, SMTT(20)
<1> QED
  BY <1>3, <1>4, <1>9, <1>10, <1>11 DEF HasNoted

\* A call that is recorded keeps what is known of the books.
LEMMA TraceStep ==
    ASSUME IInv, NEW r \in Ranks \ finalized, NEW b \in Logs, NEW c, Trace(r, b, c)
    PROVE  IInv'
<1> DEFINE books == Noted(mem[r], b, c)
           i == Entry(mem[r][b], c)
           bs == Due(books, b)
           made == [book |-> b, call |-> c]
<1>1. Shape /\ RoomLeft /\ LogsInMemory /\ TracesReplay
  BY DEF IInv
<1>2. bs \in SUBSET Books /\ Logs \subseteq Books /\ r \in Ranks
  BY DEF Due, Books, Logs
<1>3. /\ calls' = [calls EXCEPT ![r] = Append(@, made)] /\ finalized' = finalized
      /\ Write(r, books, bs)
  BY DEF Trace
<1>4. books = Noted(mem[r], b, c) /\ i = Entry(mem[r][b], c)
  OBVIOUS
<1> HIDE DEF books, i
<1>5. HasNoted(books, r, b, c, i)
  BY <1>4, <1>1, <1>2, NotedIs
<1>6. /\ DOMAIN books = Books
      /\ books[b] = Counted(mem[r][b], i, c)
      /\ books["trace"] = Append(mem[r]["trace"], <<b, i>>)
      /\ \A d \in Logs : d # b => books[d] = mem[r][d]
      /\ \A d \in Books : IsSequence(books[d])
      /\ \A d \in Books : Len(books[d]) <= Len(mem[r][d]) + 1
      /\ \A d \in Logs : /\ IsLog(books[d]) /\ Len(books[d]) >= Len(mem[r][d])
                         /\ \A k \in 1..Len(mem[r][d]) : books[d][k].call = mem[r][d][k].call
      /\ i \in 1..Len(books[b]) /\ books[b][i].call = c
  BY <1>5 DEF HasNoted
<1>7. \A d \in Books : Len(books[d]) >= Limit[d] => d \in bs \/ Len(books[d]) = Len(mem[r][d])
  BY <1>6 DEF Due, Books, Logs
<1> HIDE DEF bs
<1>8. PICK written \in SUBSET bs : HasWritten(r, books, bs, written)
  BY <1>1, <1>2, <1>3, WriteIs
<1>9. /\ failures' \in failures..MaxFailures
      /\ written = bs \/ failures' > failures
      /\ DOMAIN mem' = Ranks /\ DOMAIN file' = Ranks
      /\ DOMAIN mem'[r] = Books /\ DOMAIN file'[r] = Books
      /\ \A q \in Ranks : q # r => mem'[q] = mem[q] /\ file'[q] = file[q]
      /\ \A d \in Books :
            /\ mem'[r][d] = IF d \in written THEN <<>> ELSE books[d]
            /\ file'[r][d] = IF d \in written THEN file[r][d] \o books[d] ELSE file[r][d]
      /\ early' = IF r \in finalized' \/ written \subseteq {"trace"} THEN early ELSE early \cup {r}
  BY <1>8 DEF HasWritten
<1>10. /\ DOMAIN calls' = Ranks /\ \A q \in Ranks : q # r => calls'[q] = calls[q]
       /\ calls'[r] = Append(calls[r], made)
  BY <1>1, <1>2, <1>3 DEF Shape
<1> HIDE DEF made
<1>11. /\ IsSequence(calls[r]) /\ IsSequence(calls'[r]) /\ Len(calls'[r]) = Len(calls[r]) + 1
       /\ Len(calls[r]) \in Nat
       /\ \A k \in 1..Len(calls[r]) : calls'[r][k] = calls[r][k]
       /\ calls'[r][Len(calls[r]) + 1] = made
  BY <1>1, <1>10, AppendIs, LenIsNat DEF Shape
<1>12. Shape'
  <2>1. failures' \in 0..MaxFailures
    BY <1>1, <1>9, TracerAssumption DEF Shape
  <2>2. \A q \in Ranks : DOMAIN mem'[q] = Books /\ DOMAIN file'[q] = Books /\ IsSequence(calls'[q])
    BY <1>1, <1>9, <1>10, <1>11 DEF Shape
  <2>3. ASSUME NEW d \in Books PROVE IsSequence(mem'[r][d]) /\ IsSequence(file'[r][d])
    <3>1. IsSequence(books[d]) /\ IsSequence(file[r][d])
      BY <1>1, <1>2, <1>6 DEF Shape
    <3>2. IsSequence(file[r][d] \o books[d])
      BY <3>1, ConcatIs
    <3>3. /\ mem'[r][d] = IF d \in written THEN <<>> ELSE books[d]
          /\ file'[r][d] = IF d \in written THEN file[r][d] \o books[d] ELSE file[r][d]
      BY <1>9
    <3> QED
      BY <3>1, <3>2, <3>3, EmptyIsSequence
  <2>4. \A q \in Ranks, d \in Books : IsSequence(mem'[q][d]) /\ IsSequence(file'[q][d])
    BY <1>1, <1>9, <2>3 DEF Shape
  <2>5. IsLog(<<>>)
    BY EmptyIsSequence DEF IsLog
  <2>6. \A q \in Ranks, d \in Logs : IsLog(mem'[q][d])
    <3>1. ASSUME NEW d \in Logs PROVE IsLog(mem'[r][d])
      <4>1. mem'[r][d] = IF d \in written THEN <<>> ELSE books[d]
        BY <1>2, <1>9
      <4> QED
        BY <1>6, <2>5, <4>1
    <3>2. ASSUME NEW q \in Ranks, q # r, NEW d \in Logs PROVE IsLog(mem'[q][d])
      BY <1>1, <1>9, <3>2 DEF Shape
    <3> QED
      BY <3>1, <3>2
  <2> QED
    BY <1>9, <1>10, <2>1, <2>2, <2>4, <2>6 DEF Shape
<1>13. RoomLeft'
  <2>1. failures \in Nat /\ failures' \in Nat /\ failures' >= failures
    BY <1>1, <1>9, TracerAssumption DEF Shape
  <2>2. ASSUME NEW d \in Books PROVE Len(mem'[r][d]) < Limit[d] + failures'
    <3>1. Limit[d] \in Nat \ {0} /\ Len(mem[r][d]) \in Nat /\ Len(books[d]) \in Nat
      BY <1>1, <1>6, LenIsNat, TracerAssumption DEF Shape
    <3>2. Len(mem[r][d]) < Limit[d] + failures
      BY <1>1 DEF RoomLeft
    <3>3. mem'[r][d] = IF d \in written THEN <<>> ELSE books[d]
      BY <1>9
    <3>4. Len(books[d]) <= Len(mem[r][d]) + 1
      BY <1>6
    <3>5. CASE d \in written
      <4>1. Len(mem'[r][d]) = 0
        BY <3>5, <3>3, EmptyIsSequence
      <4> QED
        BY <2>1, <3>1, <4>1
    <3>6. CASE d \notin written /\ failures' > failures
      <4>1. Len(mem'[r][d]) = Len(books[d])
        BY <3>6, <3>3
      <4> QED
        BY <2>1, <3>1, <3>2, <3>6, <3>4, <4>1, SMTT(20)
    <3>7. CASE d \notin written /\ written = bs
      <4>1. Len(mem'[r][d]) = Len(books[d])
        BY <3>7, <3>3
      <4>2. Len(books[d]) < Limit[d] \/ Len(books[d]) = Len(mem[r][d])
        BY <1>7, <3>1, <3>7
      <4> QED
        BY <2>1, <3>1, <3>2, <4>1, <4>2
    <3> QED
      BY <1>9, <3>5, <3>6, <3>7
  <2>3. ASSUME NEW q \in Ranks, q # r, NEW d \in Books PROVE Len(mem'[q][d]) < Limit[d] + failures'
    <3>1. Limit[d] \in Nat /\ Len(mem[q][d]) \in Nat /\ Len(mem[q][d]) < Limit[d] + failures
      BY <1>1, LenIsNat, TracerAssumption DEF Shape, RoomLeft
    <3> QED
      BY <1>9, <2>1, <2>3, <3>1
  <2> QED
    BY <2>2, <2>3 DEF RoomLeft
<1>14. early \subseteq early' /\ (r \notin early' => written \subseteq {"trace"})
  BY <1>3, <1>9
<1>15. LogsInMemory'
  <2>1. ASSUME NEW q \in Ranks \ (early' \cup finalized'), NEW d \in Logs PROVE file'[q][d] = <<>>
    <3>1. file[q][d] = <<>>
      BY <1>1, <1>3, <1>14 DEF LogsInMemory
    <3>2. CASE q = r
      BY <1>2, <1>9, <1>14, <3>1, <3>2 DEF Logs
    <3> QED
      BY <1>9, <3>1, <3>2
  <2> QED
    BY <2>1 DEF LogsInMemory
<1>16. TracesReplay'
  <2>1. ASSUME NEW q \in Ranks \ early', q # r PROVE Replays(q, Entries(q, "trace"))'
    <3>1. Replays(q, Entries(q, "trace"))
      BY <1>1, <1>14 DEF TracesReplay
    <3>2. \A d : Entries(q, d)' = Entries(q, d)
      BY <1>9, <2>1 DEF Entries
    <3>3. calls'[q] = calls[q]
      BY <1>10, <2>1
    <3> QED
      BY <3>1, <3>2, <3>3 DEF Replays
  <2>2. ASSUME r \notin early' PROVE Replays(r, Entries(r, "trace"))'
    <3> DEFINE old == Entries(r, "trace")
               new == Append(old, <<b, i>>)
    <3>1. Replays(r, old) /\ written \subseteq {"trace"}
      BY <1>1, <1>2, <1>14, <2>2 DEF TracesReplay
    <3>2. ASSUME NEW d \in Logs PROVE Entries(r, d) = mem[r][d] /\ Entries(r, d)' = books[d]
      <4>1. d \notin written /\ d \in Books
        BY <1>2, <3>1 DEF Logs
      <4>2. file[r][d] = <<>>
        BY <1>1, <1>14, <2>2 DEF LogsInMemory
      <4>3. mem'[r][d] = books[d] /\ file'[r][d] = <<>>
        BY <1>9, <4>1, <4>2
      <4>4. IsSequence(mem[r][d]) /\ IsSequence(books[d])
        BY <1>1, <1>2, <1>6, <4>1 DEF Shape
      <4> QED
        BY <4>2, <4>3, <4>4, ConcatEmpty DEF Entries
    <3>3. Entries(r, "trace")' = new
      <4>1. /\ IsSequence(file[r]["trace"]) /\ IsSequence(mem[r]["trace"])
            /\ IsSequence(books["trace"]) /\ "trace" \in Books
        BY <1>1, <1>2, <1>6 DEF Shape, Books
      <4>2. file[r]["trace"] \o books["trace"] = new
        <5>1. books["trace"] = Append(mem[r]["trace"], <<b, i>>)
          BY <1>6
        <5> DEFINE e == <<b, i>>
                   s == file[r]["trace"]
                   t == mem[r]["trace"]
        <5>2. IsSequence(s) /\ IsSequence(t)
          BY <4>1
        <5> HIDE DEF e, s, t
        <5>3. s \o Append(t, e) = Append(s \o t, e)
          BY <5>2, ConcatAppend
        <5> QED
          BY <5>1, <5>3 DEF Entries, e, s, t
      <4>3. /\ mem'[r]["trace"] = IF "trace" \in written THEN <<>> ELSE books["trace"]
            /\ file'[r]["trace"] = IF "trace" \in written THEN file[r]["trace"] \o books["trace"]
                                   ELSE file[r]["trace"]
        BY <1>9, <4>1
      <4>4. (file[r]["trace"] \o books["trace"]) \o <<>> = file[r]["trace"] \o books["trace"]
        BY <4>1, ConcatIs, ConcatEmpty
      <4> QED
        BY <4>2, <4>3, <4>4 DEF Entries
    <3>4. IsSequence(old)
      BY <1>1, <1>2, ConcatIs DEF Shape, Entries, Books
    <3>5. /\ Len(old) \in Nat /\ Len(new) = Len(old) + 1
          /\ \A k \in 1..Len(old) : new[k] = old[k]
          /\ new[Len(old) + 1] = <<b, i>>
      BY <3>4, AppendIs, LenIsNat
    <3> HIDE DEF old, new
    <3>6. Len(old) = Len(calls[r])
      BY <3>1 DEF Replays
    <3>7. Len(new) = Len(calls'[r])
      BY <1>11, <3>5, <3>6
    <3>8. ASSUME NEW k \in 1..Len(new)
          PROVE  /\ calls'[r][k].book \in Logs
                 /\ new[k][1] = calls'[r][k].book
                 /\ new[k][2] \in 1..Len(books[calls'[r][k].book])
                 /\ books[calls'[r][k].book][new[k][2]].call = calls'[r][k].call
      <4>1. CASE k = Len(old) + 1
        <5>1. calls'[r][k] = made
          BY <1>11, <3>6, <4>1
        <5>2. new[k] = <<b, i>>
          BY <3>5, <4>1
        <5>3. made.book = b /\ made.call = c
          BY DEF made
        <5> QED
          BY <1>6, <5>1, <5>2, <5>3
      <4>2. CASE k # Len(old) + 1
        <5>1. k \in 1..Len(old)
          BY <3>5, <4>2
        <5>2. calls'[r][k] = calls[r][k] /\ new[k] = old[k]
          BY <1>11, <3>5, <3>6, <5>1
        <5> DEFINE d == calls[r][k].book
        <5>3. /\ d \in Logs /\ old[k][1] = d
              /\ old[k][2] \in 1..Len(Entries(r, d))
              /\ Entries(r, d)[old[k][2]].call = calls[r][k].call
          BY <3>1, <5>1 DEF Replays
        <5> HIDE DEF d
        <5>4. old[k][2] \in 1..Len(mem[r][d]) /\ mem[r][d][old[k][2]].call = calls[r][k].call
          BY <3>2, <5>3
        <5>5. /\ Len(books[d]) >= Len(mem[r][d])
              /\ \A j \in 1..Len(mem[r][d]) : books[d][j].call = mem[r][d][j].call
          BY <1>6, <5>3
        <5>6. Len(books[d]) \in Nat /\ Len(mem[r][d]) \in Nat
          BY <1>1, <1>2, <1>6, <5>3, LenIsNat DEF Shape
        <5> DEFINE j == old[k][2]
        <5>7. j \in 1..Len(mem[r][d]) /\ mem[r][d][j].call = calls[r][k].call
          BY <5>4
        <5> HIDE DEF j
        <5>8. j \in 1..Len(books[d])
          BY <5>5, <5>6, <5>7
        <5>9. books[d][j].call = calls[r][k].call
          BY <5>5, <5>7
        <5>10. calls'[r][k].book = d /\ calls'[r][k].call = calls[r][k].call
          BY <5>2 DEF d
        <5> QED
          BY <5>2, <5>3, <5>8, <5>9, <5>10 DEF j
      <4> QED
        BY <4>1, <4>2
    <3> QED
      BY <3>2, <3>3, <3>7, <3>8 DEF Replays
  <2> QED
    BY <2>1, <2>2 DEF TracesReplay
<1> QED
  BY <1>12, <1>13, <1>15, <1>16 DEF IInv
-------------------------------------------------------------------------------
(* The end of a process                                                        *)

\* What MPI_Finalize writes goes to the end of the files: the entries stay the same.
LEMMA FinalizeIs ==
    ASSUME Shape, NEW r \in Ranks, Finalize(r)
    PROVE  /\ finalized' = finalized \cup {r} /\ calls' = calls /\ early' = early
           /\ failures' \in failures..MaxFailures
           /\ DOMAIN mem' = Ranks /\ DOMAIN file' = Ranks
           /\ DOMAIN mem'[r] = Books /\ DOMAIN file'[r] = Books
           /\ \A q \in Ranks : q # r => mem'[q] = mem[q] /\ file'[q] = file[q]
           /\ \A d \in Books : mem'[r][d] \in {<<>>, mem[r][d]} /\ IsSequence(mem'[r][d])
           /\ \A d \in Books : IsSequence(file'[r][d])
           /\ \A q \in Ranks, d \in Books : Entries(q, d)' = Entries(q, d)
<1>1. finalized' = finalized \cup {r} /\ calls' = calls /\ Write(r, mem[r], Books)
  BY DEF Finalize, mpi
<1> DEFINE books == mem[r]
<1>2. Write(r, books, Books)
  BY <1>1
<1>3. \A d \in Books : books[d] = mem[r][d]
  OBVIOUS
<1> HIDE DEF books
<1>4. PICK written \in SUBSET Books : HasWritten(r, books, Books, written)
  BY <1>2, WriteIs
<1>5. /\ failures' \in failures..MaxFailures
      /\ DOMAIN mem' = Ranks /\ DOMAIN file' = Ranks
      /\ DOMAIN mem'[r] = Books /\ DOMAIN file'[r] = Books
      /\ \A q \in Ranks : q # r => mem'[q] = mem[q] /\ file'[q] = file[q]
      /\ \A d \in Books :
            /\ mem'[r][d] = IF d \in written THEN <<>> ELSE mem[r][d]
            /\ file'[r][d] = IF d \in written THEN file[r][d] \o mem[r][d] ELSE file[r][d]
      /\ early' = early
  BY <1>1, <1>3, <1>4 DEF HasWritten
<1>6. ASSUME NEW d \in Books
      PROVE  /\ IsSequence(mem'[r][d]) /\ IsSequence(file'[r][d])
             /\ file'[r][d] \o mem'[r][d] = file[r][d] \o mem[r][d]
  <2>1. IsSequence(mem[r][d]) /\ IsSequence(file[r][d])
    BY DEF Shape
  <2> DEFINE s == file[r][d] \o mem[r][d]
  <2>2. IsSequence(s)
    BY <2>1, ConcatIs
  <2>3. CASE d \in written
    <3>1. mem'[r][d] = <<>> /\ file'[r][d] = s
      BY <1>5, <2>3
    <3> HIDE DEF s
    <3>2. s \o <<>> = s
      BY <2>2, ConcatEmpty
    <3> QED
      BY <2>2, <3>1, <3>2, EmptyIsSequence DEF s
  <2>4. CASE d \notin written
    BY <1>5, <2>1, <2>4
  <2> QED
    BY <2>3, <2>4
<1>7. \A q \in Ranks, d \in Books : Entries(q, d)' = Entries(q, d)
  BY <1>5, <1>6 DEF Entries
<1> QED
  BY <1>1, <1>5, <1>6, <1>7

\* The last calls are made, and what is known of the books stays.
LEMMA FinalizeStep ==
    ASSUME IInv, NEW r \in Ranks, Finalize(r)
    PROVE  IInv'
<1>1. Shape /\ RoomLeft /\ LogsInMemory /\ TracesReplay
  BY DEF IInv
<1>2. /\ finalized' = finalized \cup {r} /\ calls' = calls /\ early' = early
      /\ failures' \in failures..MaxFailures
      /\ DOMAIN mem' = Ranks /\ DOMAIN file' = Ranks
      /\ DOMAIN mem'[r] = Books /\ DOMAIN file'[r] = Books
      /\ \A q \in Ranks : q # r => mem'[q] = mem[q] /\ file'[q] = file[q]
      /\ \A d \in Books : mem'[r][d] \in {<<>>, mem[r][d]} /\ IsSequence(mem'[r][d])
      /\ \A d \in Books : IsSequence(file'[r][d])
      /\ \A q \in Ranks, d \in Books : Entries(q, d)' = Entries(q, d)
  BY <1>1, FinalizeIs
<1>3. failures \in Nat /\ failures' \in 0..MaxFailures /\ failures' >= failures
  BY <1>1, <1>2, TracerAssumption DEF Shape
<1>4. Logs \subseteq Books /\ "trace" \in Books
  BY DEF Logs, Books
<1>5. Shape'
  <2>1. \A q \in Ranks : DOMAIN mem'[q] = Books /\ DOMAIN file'[q] = Books /\ IsSequence(calls'[q])
    BY <1>1, <1>2 DEF Shape
  <2>2. \A q \in Ranks, d \in Books : IsSequence(mem'[q][d]) /\ IsSequence(file'[q][d])
    BY <1>1, <1>2 DEF Shape
  <2>3. IsLog(<<>>)
    BY EmptyIsSequence DEF IsLog
  <2>4. \A q \in Ranks, d \in Logs : IsLog(mem'[q][d])
    BY <1>1, <1>2, <1>4, <2>3 DEF Shape
  <2> QED
    BY <1>1, <1>2, <1>3, <2>1, <2>2, <2>4 DEF Shape
<1>6. RoomLeft'
  <2>1. ASSUME NEW q \in Ranks, NEW d \in Books PROVE Len(mem'[q][d]) < Limit[d] + failures'
    <3>1. Limit[d] \in Nat \ {0} /\ Len(mem[q][d]) \in Nat /\ Len(mem[q][d]) < Limit[d] + failures
      BY <1>1, LenIsNat, TracerAssumption DEF Shape, RoomLeft
    <3>2. mem'[q][d] = <<>> \/ mem'[q][d] = mem[q][d]
      BY <1>2
    <3> QED
      BY <1>3, <3>1, <3>2, EmptyIsSequence
  <2> QED
    BY <2>1 DEF RoomLeft
<1>7. LogsInMemory'
  BY <1>1, <1>2 DEF LogsInMemory
<1>8. TracesReplay'
  <2>1. ASSUME NEW q \in Ranks \ early' PROVE Replays(q, Entries(q, "trace"))'
    <3>1. Replays(q, Entries(q, "trace"))
      BY <1>1, <1>2 DEF TracesReplay
    <3>2. calls'[q] = calls[q]
      BY <1>2
    <3> QED
      BY <1>2, <1>4, <3>1, <3>2 DEF Replays
  <2> QED
    BY <2>1 DEF TracesReplay
<1> QED
  BY <1>5, <1>6, <1>7, <1>8 DEF IInv
-------------------------------------------------------------------------------
(* The theorems                                                                *)

\* Every step records a call of a process that goes on, or is its end.
LEMMA Steps ==
    ASSUME Next
    PROVE  \E r \in Ranks : \/ r \notin finalized /\ \E b \in Logs : \E c : Trace(r, b, c)
                            \/ Finalize(r)
<1>1. PICK r \in Ranks : \/ Send(r) \/ Isend(r) \/ Recv(r) \/ Irecv(r) \/ Wait(r)
                         \/ FromRoot(r) \/ ToRoot(r) \/ AllToAll(r)
                         \/ Finalize(r)
  BY DEF Next
<1>2. "p2p" \in Logs /\ "coll" \in Logs
  BY DEF Logs
<1>3. CASE Send(r) \/ Isend(r) \/ Recv(r) \/ Irecv(r)
  <2>1. r \notin finalized /\ \E c : Trace(r, "p2p", c)
    BY <1>3 DEF Send, Isend, Recv, Irecv, Calling, RecordP2P
  <2> QED
    BY <1>2, <2>1
<1>4. CASE Wait(r)
  <2>1. r \notin finalized /\ \E c : Trace(r, "p2p", c)
    BY <1>4 DEF Wait, Calling
  <2> QED
    BY <1>2, <2>1
<1>5. CASE FromRoot(r) \/ ToRoot(r) \/ AllToAll(r)
  <2>1. r \notin finalized /\ \E c : Trace(r, "coll", c)
    BY <1>5 DEF FromRoot, ToRoot, AllToAll, FromRootOver, ToRootOver, AllToAllOver, Calling, RecordColl
  <2> QED
    BY <1>2, <2>1
<1> QED
  BY <1>1, <1>3, <1>4, <1>5

\* Every step of the processes keeps what is known of their books.
LEMMA StepIInv == IInv /\ [Next]_vars => IInv'
<1> SUFFICES ASSUME IInv, [Next]_vars PROVE IInv'
  OBVIOUS
<1>1. CASE UNCHANGED vars
  <2>1. /\ mem' = mem /\ file' = file /\ calls' = calls
        /\ failures' = failures /\ finalized' = finalized /\ early' = early
    BY <1>1 DEF vars, history
  <2>2. Shape' /\ RoomLeft' /\ LogsInMemory'
    BY <2>1 DEF IInv, Shape, RoomLeft, LogsInMemory
  <2>3. \A r, b : Entries(r, b)' = Entries(r, b)
    BY <2>1 DEF Entries
  <2>4. TracesReplay'
    BY <2>1, <2>3 DEF IInv, TracesReplay, Replays
  <2> QED
    BY <2>2, <2>4 DEF IInv
<1>2. CASE Next
  BY <1>2, Steps, TraceStep, FinalizeStep
<1> QED
  BY <1>1, <1>2

\* What is known of the books holds in every state.
LEMMA IInvIsInvariant == Spec => []IInv
  BY InitIInv, StepIInv, PTL DEF Spec

\* For every program, limits and processes: a book has room for the next entry, when it
\* has as many entries to spare as files may fail to open (mpi_tracer.cpp 137-140, 276-281).
THEOREM BooksHaveRoom == Spec => []RoomForNext
<1>1. IInv => RoomForNext
  <2> SUFFICES ASSUME IInv, NEW r \in Ranks, NEW b \in Books
               PROVE  Len(mem[r][b]) < Limit[b] + Slack
    BY DEF RoomForNext
  <2>1. Limit[b] \in Nat /\ failures \in 0..MaxFailures /\ MaxFailures \in 0..Slack /\ Slack \in Nat
    BY TracerAssumption DEF IInv, Shape
  <2>2. Len(mem[r][b]) \in Nat /\ Len(mem[r][b]) < Limit[b] + failures
    BY LenIsNat DEF IInv, Shape, RoomLeft
  <2> QED
    BY <2>1, <2>2
<1> QED
  BY <1>1, IInvIsInvariant, PTL

\* For every program, limits, processes and failures: the trace of a process that wrote no
\* log before MPI_Finalize names, for every call, an entry with it (16, 270, 333).
THEOREM TracesReplayTheCalls == Spec => []TraceReplaysCalls
<1>1. IInv => TraceReplaysCalls
  <2> SUFFICES ASSUME IInv, NEW r \in Ranks \ early
               PROVE  LET trace == Entries(r, "trace")
                      IN  /\ Len(trace) = Len(calls[r])
                          /\ \A i \in DOMAIN trace :
                                LET b == trace[i][1]
                                IN  /\ b = calls[r][i].book
                                    /\ trace[i][2] \in DOMAIN Entries(r, b)
                                    /\ Entries(r, b)[trace[i][2]].call = calls[r][i].call
    BY DEF TraceReplaysCalls
  <2>1. Replays(r, Entries(r, "trace"))
    BY DEF IInv, TracesReplay
  <2>2. \A b \in Books : DOMAIN Entries(r, b) = 1..Len(Entries(r, b))
    <3>1. ASSUME NEW b \in Books PROVE IsSequence(Entries(r, b))
      BY ConcatIs DEF IInv, Shape, Entries
    <3> QED
      BY <3>1, LenIsNat
  <2>3. "trace" \in Books /\ Logs \subseteq Books
    BY DEF Logs, Books
  <2> QED
    BY <2>1, <2>2, <2>3 DEF Replays
<1> QED
  BY <1>1, IInvIsInvariant, PTL
-------------------------------------------------------------------------------
(* How often each call is counted                                              *)

\* The entries of a log, in the file and in memory, have a call and a number each.
IsCount(s) == /\ IsSequence(s)
              /\ \A i \in 1..Len(s) : {"call", "count"} \subseteq DOMAIN s[i] /\ s[i].count \in Nat
Of(s, c) == {i \in 1..Len(s) : s[i].call = c}
CountOf(s) == [i \in 1..Len(s) |-> s[i].count]

\* Any entries of a log are finitely many, and their numbers add up to a number.
LEMMA OfIs ==
    ASSUME NEW s, IsCount(s), NEW c, NEW S \in SUBSET Of(s, c)
    PROVE  /\ IsFiniteSet(S)
           /\ \A x \in S : CountOf(s)[x] = s[x].count /\ CountOf(s)[x] \in Int
           /\ SumFunctionOnSet(CountOf(s), S) \in Int
<1>1. Len(s) \in Nat
  BY LenIsNat DEF IsCount
<1>2. IsFiniteSet(1..Len(s)) /\ S \subseteq 1..Len(s)
  BY <1>1, FS_Interval DEF Of
<1>3. IsFiniteSet(S)
  BY <1>2, FS_Subset
<1>4. \A x \in S : CountOf(s)[x] = s[x].count /\ CountOf(s)[x] \in Int
  BY <1>2 DEF CountOf, IsCount
<1> QED
  BY <1>3, <1>4, SumIs

\* How often call c is counted in a log of which one entry with it is set apart.
LEMMA TimesIs ==
    ASSUME NEW s, IsCount(s), NEW c
    PROVE  /\ TimesIn(s, c) = SumFunctionOnSet(CountOf(s), Of(s, c))
           /\ TimesIn(s, c) \in Int
           /\ Of(s, c) = {} => TimesIn(s, c) = 0
           /\ \A x \in Of(s, c) :
                 TimesIn(s, c) = s[x].count + SumFunctionOnSet(CountOf(s), Of(s, c) \ {x})
<1>1. DOMAIN s = 1..Len(s)
  BY LenIsNat DEF IsCount
<1>2. TimesIn(s, c) = SumFunctionOnSet(CountOf(s), Of(s, c))
  BY <1>1 DEF TimesIn, Of, CountOf
<1>3. /\ IsFiniteSet(Of(s, c))
      /\ \A x \in Of(s, c) : CountOf(s)[x] = s[x].count /\ CountOf(s)[x] \in Int
  BY OfIs
<1>4. /\ SumFunctionOnSet(CountOf(s), Of(s, c)) \in Int
      /\ Of(s, c) = {} => SumFunctionOnSet(CountOf(s), Of(s, c)) = 0
      /\ \A x \in Of(s, c) :
            SumFunctionOnSet(CountOf(s), Of(s, c))
                = CountOf(s)[x] + SumFunctionOnSet(CountOf(s), Of(s, c) \ {x})
  BY <1>3, SumIs
<1> QED
  BY <1>2, <1>3, <1>4

\* Two logs that differ in nothing else than one entry x with call c, which counts one
\* more than it did, or is new.
LEMMA TimesMore ==
    ASSUME NEW s, NEW t, IsCount(s), IsCount(t), NEW x \in 1..Len(t),
           1..Len(s) \subseteq 1..Len(t) /\ 1..Len(t) \subseteq 1..Len(s) \cup {x},
           \A i \in 1..Len(s) : i # x => t[i] = s[i],
           x \in 1..Len(s) => t[x].call = s[x].call /\ t[x].count = s[x].count + 1,
           x \notin 1..Len(s) => t[x].count = 1,
           NEW c
    PROVE  TimesIn(t, c) = TimesIn(s, c) + (IF c = t[x].call THEN 1 ELSE 0)
<1> DEFINE others == Of(s, c) \ {x}
           n == SumFunctionOnSet(CountOf(s), others)
<1>1. /\ Of(t, c) \ {x} = others
      /\ x \in Of(t, c) <=> c = t[x].call
      /\ x \in Of(s, c) <=> x \in 1..Len(s) /\ c = t[x].call
  BY DEF Of
<1>2. /\ others \in SUBSET Of(s, c) /\ others \in SUBSET Of(t, c)
      /\ \A i \in others : t[i].count = s[i].count
  BY <1>1 DEF Of
<1> HIDE DEF others
<1>3. n \in Int /\ n = SumFunctionOnSet(CountOf(t), others)
  <2>1. /\ IsFiniteSet(others) /\ n \in Int
        /\ \A i \in others : CountOf(s)[i] = s[i].count
    BY <1>2, OfIs
  <2>2. \A i \in others : CountOf(t)[i] = t[i].count
    BY <1>2, OfIs
  <2>3. \A i \in others : CountOf(s)[i] = CountOf(t)[i]
    BY <1>2, <2>1, <2>2
  <2> QED
    BY <2>1, <2>3, SumSame
<1>4. /\ TimesIn(s, c) = SumFunctionOnSet(CountOf(s), Of(s, c)) /\ TimesIn(s, c) \in Int
      /\ x \in Of(s, c) => TimesIn(s, c) = s[x].count + SumFunctionOnSet(CountOf(s), Of(s, c) \ {x})
  BY TimesIs
<1>5. /\ TimesIn(t, c) = SumFunctionOnSet(CountOf(t), Of(t, c)) /\ TimesIn(t, c) \in Int
      /\ x \in Of(t, c) => TimesIn(t, c) = t[x].count + SumFunctionOnSet(CountOf(t), Of(t, c) \ {x})
  BY TimesIs
<1>6. CASE c # t[x].call
  <2>1. Of(t, c) = others /\ Of(s, c) = others
    BY <1>1, <1>6 DEF others
  <2> QED
    BY <1>3, <1>4, <1>5, <1>6, <2>1
<1>7. CASE c = t[x].call /\ x \in 1..Len(s)
  <2>1. TimesIn(s, c) = s[x].count + n /\ TimesIn(t, c) = t[x].count + n
    BY <1>1, <1>3, <1>4, <1>5, <1>7 DEF others
  <2>2. s[x].count \in Nat /\ t[x].count = s[x].count + 1
    BY <1>7 DEF IsCount
  <2> HIDE DEF n
  <2> QED
    BY <1>3, <1>7, <2>1, <2>2
<1>8. CASE c = t[x].call /\ x \notin 1..Len(s)
  <2>1. others = Of(s, c) /\ t[x].count = 1
    BY <1>1, <1>8 DEF others
  <2>2. TimesIn(s, c) = n /\ TimesIn(t, c) = 1 + n
    BY <1>1, <1>3, <1>4, <1>5, <1>8, <2>1
  <2> HIDE DEF n
  <2> QED
    BY <1>3, <1>8, <2>2
<1> QED
  BY <1>6, <1>7, <1>8

\* What Counted does to a log that goes on in memory, behind what is in the file.
LEMMA CountedMore ==
    ASSUME NEW f, NEW m, NEW c, NEW i, IsSequence(f), IsLog(m), IsCount(f \o m), i = Entry(m, c)
    PROVE  /\ IsCount(f \o Counted(m, i, c))
           /\ \A d : TimesIn(f \o Counted(m, i, c), d)
                         = TimesIn(f \o m, d) + (IF d = c THEN 1 ELSE 0)
<1> DEFINE s == f \o m
           n == Counted(m, i, c)
           t == f \o n
<1>1. /\ IsSequence(m) /\ Len(m) \in Nat /\ DOMAIN m = 1..Len(m) /\ Len(f) \in Nat
      /\ IsSequence(s) /\ Len(s) = Len(f) + Len(m)
      /\ \A k \in 1..(Len(f) + Len(m)) : s[k] = IF k <= Len(f) THEN f[k] ELSE m[k - Len(f)]
  BY LenIsNat, ConcatIs DEF IsLog
<1>2. CASE i = Len(m) + 1
  <2> DEFINE e == [call |-> c, count |-> 1]
             x == Len(s) + 1
  <2>1. t = Append(s, e)
    <3>1. n = Append(m, e)
      BY <1>1, <1>2 DEF Counted
    <3> HIDE DEF e
    <3> QED
      BY <1>1, <3>1, ConcatAppend
  <2>2. e.call = c /\ e.count = 1 /\ {"call", "count"} \subseteq DOMAIN e
    OBVIOUS
  <2> HIDE DEF e, s, t
  <2>3. /\ IsSequence(t) /\ Len(t) = Len(s) + 1 /\ Len(s) \in Nat
        /\ \A k \in 1..Len(s) : t[k] = s[k]
        /\ t[x] = e
    BY <1>1, <2>1, AppendIs
  <2>4. IsCount(s)
    BY DEF s
  <2>5. IsCount(t)
    BY <2>2, <2>3, <2>4 DEF IsCount
  <2>6. \A d : TimesIn(t, d) = TimesIn(s, d) + (IF d = c THEN 1 ELSE 0)
    <3>1. /\ x \in 1..Len(t) /\ x \notin 1..Len(s) /\ t[x].call = c /\ t[x].count = 1
          /\ 1..Len(s) \subseteq 1..Len(t) /\ 1..Len(t) \subseteq 1..Len(s) \cup {x}
      BY <2>2, <2>3
    <3> HIDE DEF x
    <3> QED
      BY <2>3, <2>4, <2>5, <3>1, TimesMore
  <2> QED
    BY <2>5, <2>6 DEF s, t
<1>3. CASE i \in 1..Len(m) /\ m[i].call = c
  <2> DEFINE e == [m[i] EXCEPT !.count = @ + 1]
             x == Len(f) + i
  <2>1. n = [m EXCEPT ![i] = e]
    BY <1>1, <1>3 DEF Counted
  <2>2. PICK S : m \in Seq(S)
    BY <1>1 DEF IsSequence
  <2>3. s[x] = m[i] /\ x \in 1..Len(s)
    BY <1>1, <1>3
  <2>4. e.call = c /\ e.count = m[i].count + 1 /\ {"call", "count"} \subseteq DOMAIN e
        /\ m[i].count \in Nat
    <3>1. {"call", "count"} \subseteq DOMAIN m[i] /\ m[i].count \in Nat
      BY <2>3 DEF IsCount
    <3> QED
      BY <1>3, <3>1
  <2> HIDE DEF e, n
  <2>5. IsSequence(n) /\ Len(n) = Len(m) /\ n[i] = e /\ \A k \in 1..Len(m) : k # i => n[k] = m[k]
    <3>1. m \in Seq(S \cup {e})
      BY <2>2
    <3>2. n \in Seq(S \cup {e}) /\ Len(n) = Len(m)
      BY <1>3, <2>1, <3>1
    <3> QED
      BY <1>1, <1>3, <2>1, <3>2 DEF IsSequence
  <2>6. /\ IsSequence(t) /\ Len(t) = Len(f) + Len(m)
        /\ \A k \in 1..(Len(f) + Len(m)) : t[k] = IF k <= Len(f) THEN f[k] ELSE n[k - Len(f)]
    BY <1>1, <2>5, ConcatIs
  <2>7. t[x] = e
    BY <1>1, <1>3, <2>3, <2>5, <2>6
  <2>8. ASSUME NEW k \in 1..Len(s), k # x PROVE t[k] = s[k]
    <3>1. CASE k <= Len(f)
      BY <1>1, <2>6, <2>8, <3>1
    <3>2. CASE ~ (k <= Len(f))
      <4>1. k - Len(f) \in 1..Len(m) /\ k - Len(f) # i
        BY <1>1, <1>3, <2>8, <3>2
      <4> QED
        BY <1>1, <2>5, <2>6, <2>8, <3>2, <4>1
    <3> QED
      BY <3>1, <3>2
  <2>9. IsCount(s) /\ Len(t) = Len(s)
    BY <1>1, <2>6
  <2> HIDE DEF s, t, x
  <2>10. IsCount(t)
    <3>1. ASSUME NEW k \in 1..Len(t)
          PROVE  {"call", "count"} \subseteq DOMAIN t[k] /\ t[k].count \in Nat
      <4>1. CASE k = x
        <5>1. e.count \in Nat
          BY <2>4
        <5> QED
          BY <2>4, <2>7, <4>1, <5>1
      <4>2. CASE k # x
        BY <2>8, <2>9, <4>2 DEF IsCount
      <4> QED
        BY <4>1, <4>2
    <3> QED
      BY <2>6, <3>1 DEF IsCount
  <2>11. \A d : TimesIn(t, d) = TimesIn(s, d) + (IF d = c THEN 1 ELSE 0)
    <3>1. x \in 1..Len(t) /\ t[x].call = c /\ s[x].call = c /\ t[x].count = s[x].count + 1
      BY <1>3, <2>3, <2>4, <2>7, <2>9
    <3> QED
      BY <2>3, <2>8, <2>9, <2>10, <3>1, TimesMore
  <2> QED
    BY <2>10, <2>11 DEF n, s, t
<1> QED
  BY <1>2, <1>3, EntryIs

\* The calls of a process that are to be recorded in book b as c.
Made(r, b, c) == {k \in 1..Len(calls[r]) : calls[r][k].book = b /\ calls[r][k].call = c}

CountInv == \A r \in Ranks, b \in Logs :
                /\ IsCount(Entries(r, b))
                /\ \A c : TimesIn(Entries(r, b), c) = Cardinality(Made(r, b, c))

\* One call more to be recorded.
LEMMA MadeMore ==
    ASSUME NEW r, NEW b, NEW c, IsSequence(calls[r]),
           calls'[r] = Append(calls[r], [book |-> b, call |-> c])
    PROVE  \A a, d : /\ Cardinality(Made(r, a, d)) \in Nat
                     /\ Cardinality(Made(r, a, d)')
                            = Cardinality(Made(r, a, d)) + (IF a = b /\ d = c THEN 1 ELSE 0)
<1> DEFINE e == [book |-> b, call |-> c]
           n == Len(calls[r])
<1>1. e.book = b /\ e.call = c
  OBVIOUS
<1> HIDE DEF e
<1>2. /\ n \in Nat /\ Len(calls'[r]) = n + 1 /\ calls'[r][n + 1] = e
      /\ \A k \in 1..n : calls'[r][k] = calls[r][k]
  BY AppendIs, LenIsNat DEF e
<1>3. SUFFICES ASSUME NEW a, NEW d
               PROVE  /\ Cardinality(Made(r, a, d)) \in Nat
                      /\ Cardinality(Made(r, a, d)')
                             = Cardinality(Made(r, a, d)) + (IF a = b /\ d = c THEN 1 ELSE 0)
  OBVIOUS
<1>4. Made(r, a, d)' = IF a = b /\ d = c THEN Made(r, a, d) \cup {n + 1} ELSE Made(r, a, d)
  BY <1>1, <1>2 DEF Made
<1>5. n + 1 \notin Made(r, a, d) /\ IsFiniteSet(Made(r, a, d))
  <2>1. IsFiniteSet(1..n)
    BY <1>2, FS_Interval
  <2>2. Made(r, a, d) \subseteq 1..n /\ n + 1 \notin 1..n
    BY <1>2 DEF Made
  <2> QED
    BY <2>1, <2>2, FS_Subset
<1> QED
  BY <1>4, <1>5, FS_AddElement, FS_CardinalityType

\* The books of all processes: what is counted follows the call that is recorded.
LEMMA CountTraceStep ==
    ASSUME IInv, CountInv, NEW r \in Ranks, NEW b \in Logs, NEW c, Trace(r, b, c)
    PROVE  CountInv'
<1> DEFINE books == Noted(mem[r], b, c)
           i == Entry(mem[r][b], c)
           bs == Due(books, b)
<1>1. Shape /\ bs \in SUBSET Books /\ Logs \subseteq Books
  BY DEF IInv, Due, Books, Logs
<1>2. calls' = [calls EXCEPT ![r] = Append(@, [book |-> b, call |-> c])] /\ Write(r, books, bs)
  BY DEF Trace
<1>3. HasNoted(books, r, b, c, i)
  BY <1>1, NotedIs
<1>4. PICK written \in SUBSET bs : HasWritten(r, books, bs, written)
  BY <1>1, <1>2, WriteIs
<1> HIDE DEF books, i, bs
<1>5. ASSUME NEW a \in Logs PROVE Entries(r, a)' = file[r][a] \o books[a]
  <2>1. /\ mem'[r][a] = IF a \in written THEN <<>> ELSE books[a]
        /\ file'[r][a] = IF a \in written THEN file[r][a] \o books[a] ELSE file[r][a]
    BY <1>1, <1>4 DEF HasWritten
  <2>2. IsSequence(file[r][a]) /\ IsSequence(books[a])
    BY <1>1, <1>3 DEF Shape, HasNoted
  <2>3. IsSequence(file[r][a] \o books[a])
    BY <2>2, ConcatIs
  <2>4. (file[r][a] \o books[a]) \o <<>> = file[r][a] \o books[a]
    BY <2>3, ConcatEmpty
  <2> QED
    BY <2>1, <2>4 DEF Entries
<1>6. ASSUME NEW a \in Logs
      PROVE  /\ IsCount(Entries(r, a)')
             /\ \A d : TimesIn(Entries(r, a)', d)
                           = TimesIn(Entries(r, a), d) + (IF a = b /\ d = c THEN 1 ELSE 0)
  <2>1. IsCount(Entries(r, a)) /\ \A d : TimesIn(Entries(r, a), d) \in Int
    BY TimesIs DEF CountInv
  <2>2. CASE a = b
    <3>1. books[b] = Counted(mem[r][b], i, c) /\ i = Entry(mem[r][b], c)
      BY <1>3 DEF HasNoted, i
    <3>2. IsSequence(file[r][b]) /\ IsLog(mem[r][b]) /\ IsCount(file[r][b] \o mem[r][b])
      BY <1>1, <2>1, <2>2 DEF Shape, Entries
    <3>3. /\ IsCount(file[r][b] \o books[b])
          /\ \A d : TimesIn(file[r][b] \o books[b], d)
                        = TimesIn(file[r][b] \o mem[r][b], d) + (IF d = c THEN 1 ELSE 0)
      BY <3>1, <3>2, CountedMore
    <3> QED
      BY <1>5, <2>2, <3>3 DEF Entries
  <2>3. CASE a # b
    <3>1. books[a] = mem[r][a]
      BY <1>3, <2>3 DEF HasNoted
    <3>2. Entries(r, a)' = Entries(r, a)
      BY <1>5, <3>1 DEF Entries
    <3> QED
      BY <2>1, <2>3, <3>2
  <2> QED
    BY <2>2, <2>3
<1>7. ASSUME NEW a \in Logs, NEW d
      PROVE  TimesIn(Entries(r, a), d)' = Cardinality(Made(r, a, d)')
  <2>1. IsSequence(calls[r]) /\ calls'[r] = Append(calls[r], [book |-> b, call |-> c])
    BY <1>1, <1>2 DEF Shape
  <2>2. Cardinality(Made(r, a, d)') = Cardinality(Made(r, a, d)) + (IF a = b /\ d = c THEN 1 ELSE 0)
    BY <2>1, MadeMore
  <2>3. TimesIn(Entries(r, a), d) = Cardinality(Made(r, a, d))
    BY DEF CountInv
  <2> QED
    BY <1>6, <2>2, <2>3
<1>8. ASSUME NEW q \in Ranks, q # r, NEW a \in Logs
      PROVE  Entries(q, a)' = Entries(q, a) /\ \A d : Made(q, a, d)' = Made(q, a, d)
  <2>1. mem'[q] = mem[q] /\ file'[q] = file[q] /\ calls'[q] = calls[q]
    BY <1>1, <1>2, <1>4, <1>8 DEF HasWritten, Shape
  <2> QED
    BY <2>1 DEF Entries, Made
<1>9. ASSUME NEW q \in Ranks, NEW a \in Logs
      PROVE  /\ IsCount(Entries(q, a)')
             /\ \A d : TimesIn(Entries(q, a)', d) = Cardinality(Made(q, a, d)')
  BY <1>6, <1>7, <1>8 DEF CountInv
<1> QED
  BY <1>9 DEF CountInv

\* Where neither the entries nor the calls change, as when MPI_Finalize writes the books.
LEMMA CountSame ==
    ASSUME CountInv, UNCHANGED calls, \A r \in Ranks, b \in Logs : Entries(r, b)' = Entries(r, b)
    PROVE  CountInv'
<1>1. \A r, b, c : Made(r, b, c)' = Made(r, b, c)
  BY DEF Made
<1> QED
  BY <1>1 DEF CountInv

\* Every step of the processes keeps the numbers right.
LEMMA StepCount == IInv /\ CountInv /\ [Next]_vars => CountInv'
<1> SUFFICES ASSUME IInv, CountInv, [Next]_vars PROVE CountInv'
  OBVIOUS
<1>1. CASE UNCHANGED vars
  <2>1. UNCHANGED calls /\ \A r \in Ranks, b \in Logs : Entries(r, b)' = Entries(r, b)
    BY <1>1 DEF vars, history, Entries
  <2> QED
    BY <2>1, CountSame
<1>2. CASE Next
  <2>1. ASSUME NEW r \in Ranks, Finalize(r) PROVE CountInv'
    <3>1. Shape /\ Logs \subseteq Books
      BY DEF IInv, Logs, Books
    <3>2. UNCHANGED calls /\ \A q \in Ranks, b \in Logs : Entries(q, b)' = Entries(q, b)
      BY <2>1, <3>1, FinalizeIs
    <3> QED
      BY <3>2, CountSame
  <2> QED
    BY <1>2, <2>1, Steps, CountTraceStep
<1> QED
  BY <1>1, <1>2

\* For every program, limits, processes and failures: the entries of a log in the file
\* and in memory count each different call as often as it was made (245-268, 297-331).
THEOREM LogsCountTheCalls == Spec => []LogsCountCalls
<1>1. Init => CountInv
  <2> SUFFICES ASSUME Init, NEW r \in Ranks, NEW b \in Logs
               PROVE  /\ IsCount(Entries(r, b))
                      /\ \A c : TimesIn(Entries(r, b), c) = Cardinality(Made(r, b, c))
    BY DEF CountInv
  <2>1. Entries(r, b) = <<>> /\ calls[r] = <<>>
    <3>1. mem[r][b] = <<>> /\ file[r][b] = <<>> /\ calls[r] = <<>>
      BY DEF Init, Logs, Books
    <3> QED
      BY <3>1, EmptyIsSequence, ConcatEmpty DEF Entries
  <2>2. IsCount(Entries(r, b)) /\ \A c : Of(Entries(r, b), c) = {} /\ Made(r, b, c) = {}
    BY <2>1, EmptyIsSequence DEF IsCount, Of, Made
  <2> QED
    BY <2>2, TimesIs, FS_EmptySet
<1>2. IInv /\ CountInv => LogsCountCalls
  <2> SUFFICES ASSUME IInv, CountInv, NEW r \in Ranks, NEW b \in Logs, NEW c
               PROVE  TimesIn(Entries(r, b), c)
                          = Cardinality({i \in {j \in DOMAIN calls[r] : calls[r][j].book = b} :
                                             calls[r][i].call = c})
    BY DEF LogsCountCalls, Logs
  <2>1. DOMAIN calls[r] = 1..Len(calls[r])
    BY LenIsNat DEF IInv, Shape
  <2>2. Made(r, b, c) = {i \in {j \in DOMAIN calls[r] : calls[r][j].book = b} :
                             calls[r][i].call = c}
    BY <2>1 DEF Made
  <2> QED
    BY <2>2 DEF CountInv
<1> QED
  BY <1>1, <1>2, InitIInv, StepIInv, StepCount, PTL DEF Spec

-------------------------------------------------------------------------------
(* The walk over the program graph, and the copies it makes                    *)

\* Division with a rest.
LEMMA DivMod ==
    ASSUME NEW n \in Nat, NEW c \in Nat \ {0}
    PROVE  /\ n \div c \in Nat /\ n % c \in 0..(c - 1)
           /\ n = c * (n \div c) + (n % c)
  OBVIOUS

\* Division, of a number of given quotient and rest.
LEMMA DivIs ==
    ASSUME NEW c \in Nat \ {0}, NEW p \in Nat, NEW k \in 0..(c - 1)
    PROVE  (p * c + k) \div c = p /\ (p * c + k) % c = k
  OBVIOUS

\* Division keeps the order.
LEMMA DivMonotone ==
    ASSUME NEW c \in Nat \ {0}, NEW p \in Nat, NEW k \in 0..(c - 1), NEW n \in Nat,
           n \div c > p
    PROVE  p * c + k < n
  OBVIOUS

\* q is to be visited behind p: both are of different vertices; each of them but the root
\* has its parent in front of it, in p; and all children of p are in p or q.
InTree(p, q) ==
    /\ p \in Seq(Pag) /\ q \in Seq(Pag)
Line(p, q, i) == IF i <= Len(p) THEN p[i] ELSE q[i - Len(p)]
Walked(p, q) ==
    /\ InTree(p, q)
    /\ \A i, j \in 1..(Len(p) + Len(q)) : Line(p, q, i) = Line(p, q, j) => i = j
    /\ \A i \in 1..(Len(p) + Len(q)) :
          \/ Line(p, q, i) = 0
          \/ \E j \in 1..Len(p) : j < i /\ \E k \in DOMAIN Kids[p[j]] : Line(p, q, i) = Kids[p[j]][k]
    /\ \E i \in 1..(Len(p) + Len(q)) : Line(p, q, i) = 0
    /\ \A j \in 1..Len(p) : \A k \in DOMAIN Kids[p[j]] :
          \E i \in 1..(Len(p) + Len(q)) : Line(p, q, i) = Kids[p[j]][k]

\* The walk over the program graph in preorder begins at its root.
LEMMA WalkStarts == Walked(<<>>, <<0>>)
<1>1. <<>> \in Seq(Pag) /\ <<0>> \in Seq(Pag) /\ Len(<<>>) = 0 /\ Len(<<0>>) = 1
  BY GraphAssumption
<1>2. \A i \in 1..1 : Line(<<>>, <<0>>, i) = 0
  BY <1>1 DEF Line
<1> QED
  BY <1>1, <1>2 DEF Walked, InTree

\* One vertex more of the walk.
LEMMA WalkStep ==
    ASSUME NEW p, NEW q, Walked(p, q), q # <<>>
    PROVE  Walked(Append(p, Head(q)), Kids[Head(q)] \o Tail(q))
<1> DEFINE h == Head(q)
           m == Len(Kids[h])
           n == Len(p)
           P == Append(p, h)
           Q == Kids[h] \o Tail(q)
           L(i) == Line(p, q, i)
           M(i) == Line(P, Q, i)
           size == Len(p) + Len(q)
<1>1. /\ p \in Seq(Pag) /\ q \in Seq(Pag) /\ h \in Pag /\ Tail(q) \in Seq(Pag)
      /\ Len(q) \in Nat \ {0} /\ Len(Tail(q)) = Len(q) - 1 /\ n \in Nat
      /\ \A i \in 1..(Len(q) - 1) : Tail(q)[i] = q[i + 1]
      /\ h = q[1]
  BY DEF Walked, InTree
<1>2. Kids[h] \in Seq(Pag) /\ m \in Nat /\ DOMAIN Kids[h] = 1..m
  BY <1>1, GraphAssumption
<1>3. P \in Seq(Pag) /\ Len(P) = n + 1 /\ (\A i \in 1..n : P[i] = p[i]) /\ P[n + 1] = h
  BY <1>1
<1>4. /\ Q \in Seq(Pag) /\ Len(Q) = m + Len(q) - 1
      /\ \A i \in 1..m : Q[i] = Kids[h][i]
      /\ \A i \in (m + 1)..(m + Len(q) - 1) : Q[i] = Tail(q)[i - m]
  BY <1>1, <1>2
<1>21. Len(p) = n /\ size = n + Len(q) /\ Len(q) >= 1 /\ n \in Nat /\ Len(q) \in Nat /\ m \in Nat
  BY <1>1, <1>2
<1>22. q[1] = h /\ (\A i \in 1..(Len(q) - 1) : Tail(q)[i] = q[i + 1])
  BY <1>1
<1> HIDE DEF P, Q, h, m, n, size
<1>5. /\ \A i \in 1..(n + 1) : M(i) = L(i)
      /\ \A i \in (n + 2)..(n + 1 + m) : M(i) = Kids[h][i - n - 1]
      /\ \A i \in (n + 2 + m)..(size + m) : M(i) = L(i - m)
      /\ Len(P) + Len(Q) = size + m /\ size \in Nat /\ L(n + 1) = h
      /\ n + 1 <= size
  <2>1. \A i \in 1..(n + 1) : M(i) = L(i)
    <3> TAKE i \in 1..(n + 1)
    <3>1. M(i) = P[i]
      BY <1>3, <1>21 DEF Line
    <3>2. CASE i <= n
      BY <3>1, <3>2, <1>3, <1>21 DEF Line
    <3>3. CASE i = n + 1
      BY <3>1, <3>3, <1>3, <1>21, <1>22 DEF Line
    <3> QED
      BY <3>2, <3>3, <1>21
  <2>2. \A i \in (n + 2)..(n + 1 + m) : M(i) = Kids[h][i - n - 1]
    <3> TAKE i \in (n + 2)..(n + 1 + m)
    <3>1. i - (n + 1) \in 1..m /\ ~(i <= n + 1) /\ i - (n + 1) = i - n - 1
      BY <1>21
    <3>2. Q[i - (n + 1)] = Kids[h][i - (n + 1)]
      BY <3>1, <1>4
    <3>3. M(i) = Q[i - (n + 1)]
      BY <3>1, <1>3 DEF Line
    <3> QED
      BY <3>1, <3>2, <3>3
  <2>3. \A i \in (n + 2 + m)..(size + m) : M(i) = L(i - m)
    <3> TAKE i \in (n + 2 + m)..(size + m)
    <3>1. /\ i - (n + 1) \in (m + 1)..(m + Len(q) - 1) /\ ~(i <= n + 1) /\ ~(i - m <= n)
          /\ i - (n + 1) - m \in 1..(Len(q) - 1)
          /\ i - (n + 1) - m + 1 = i - m - n
      BY <1>21
    <3>2. Q[i - (n + 1)] = Tail(q)[i - (n + 1) - m]
      BY <3>1, <1>4
    <3>3. Tail(q)[i - (n + 1) - m] = q[i - (n + 1) - m + 1]
      BY <3>1, <1>22
    <3>4. M(i) = Q[i - (n + 1)] /\ L(i - m) = q[i - m - n]
      BY <3>1, <1>3, <1>21 DEF Line
    <3> QED
      BY <3>1, <3>2, <3>3, <3>4
  <2>4. L(n + 1) = h
    BY <1>21, <1>22 DEF Line
  <2> QED
    BY <2>1, <2>2, <2>3, <2>4, <1>3, <1>4, <1>21
<1>6. /\ \A i, j \in 1..size : L(i) = L(j) => i = j
      /\ \A i \in 1..size : \/ L(i) = 0
                            \/ \E j \in 1..n : j < i /\ \E k \in DOMAIN Kids[p[j]] : L(i) = Kids[p[j]][k]
      /\ \E i \in 1..size : L(i) = 0
      /\ \A j \in 1..n : \A k \in DOMAIN Kids[p[j]] : \E i \in 1..size : L(i) = Kids[p[j]][k]
  BY DEF Walked, n, size
<1>7. \A i \in 1..n : L(i) = p[i] /\ p[i] \in Pag
  BY <1>1 DEF Line, n
<1> HIDE DEF L, M
<1>8. \A v, w \in Pag : \A i \in DOMAIN Kids[v], j \in DOMAIN Kids[w] :
         /\ Kids[v][i] # 0
         /\ Kids[v][i] = Kids[w][j] => v = w /\ i = j
  BY TreeAssumption
<1>20. \A i, j \in 1..m : Kids[h][i] = Kids[h][j] => i = j
  BY <1>1, <1>2, <1>8
\* The children are new.
<1>9. \A k \in 1..m : \A i \in 1..size : L(i) # Kids[h][k]
  <2> SUFFICES ASSUME NEW k \in 1..m, NEW i \in 1..size, L(i) = Kids[h][k]
               PROVE  FALSE
    OBVIOUS
  <2>1. L(i) # 0
    BY <1>1, <1>2, <1>8
  <2>2. PICK j \in 1..n : \E l \in DOMAIN Kids[p[j]] : L(i) = Kids[p[j]][l]
    BY <2>1, <1>6
  <2>3. PICK l \in DOMAIN Kids[p[j]] : L(i) = Kids[p[j]][l]
    BY <2>2
  <2>4. k \in DOMAIN Kids[h] /\ p[j] \in Pag /\ Kids[p[j]][l] = Kids[h][k]
    BY <2>3, <1>2, <1>7
  <2>5. p[j] = h
    BY <2>4, <1>1, <1>8
  <2>6. L(j) = L(n + 1) /\ j \in 1..size /\ n + 1 \in 1..size
    BY <2>5, <1>5, <1>7, <1>1
  <2> QED
    BY <2>6, <1>6, <1>1
<1>10. \A i \in 1..size : \E j \in 1..(size + m) : M(j) = L(i) /\ j >= i
  <2> TAKE i \in 1..size
  <2>1. CASE i <= n + 1
    BY <2>1, <1>5, <1>1, <1>2
  <2>2. CASE i > n + 1
    <3>1. PICK j : j = i + m
      OBVIOUS
    <3>2. j \in (n + 2 + m)..(size + m) /\ j - m = i /\ j \in 1..(size + m) /\ j >= i
      BY <2>2, <3>1, <1>5, <1>1, <1>2
    <3>3. M(j) = L(j - m)
      BY <3>2, <1>5
    <3> QED
      BY <3>2, <3>3
  <2> QED
    BY <2>1, <2>2, <1>1
\* Where the vertices of the new line come from.
<1>11. \A i \in 1..(size + m) :
          \/ i \in 1..(n + 1) /\ i \in 1..size /\ M(i) = L(i)
          \/ i \in (n + 2)..(n + 1 + m) /\ i - n - 1 \in 1..m /\ M(i) = Kids[h][i - n - 1]
          \/ i \in (n + 2 + m)..(size + m) /\ i - m \in 1..size /\ M(i) = L(i - m)
  BY <1>1, <1>2, <1>5
<1>12. \A i, j \in 1..(size + m) : M(i) = M(j) => i = j
  <2> TAKE i, j \in 1..(size + m)
  <2> HAVE M(i) = M(j)
  <2>1. CASE i \in (n + 2)..(n + 1 + m) /\ i - n - 1 \in 1..m /\ M(i) = Kids[h][i - n - 1]
    <3>1. j \in (n + 2)..(n + 1 + m) /\ j - n - 1 \in 1..m /\ M(j) = Kids[h][j - n - 1]
      BY <2>1, <1>9, <1>11
    <3>2. i - n - 1 = j - n - 1
      BY <2>1, <3>1, <1>20
    <3> QED
      BY <3>2, <1>1, <1>2, <1>5
  <2>2. CASE i \in 1..(n + 1) /\ i \in 1..size /\ M(i) = L(i)
    <3>1. CASE j \in 1..(n + 1) /\ j \in 1..size /\ M(j) = L(j)
      BY <2>2, <3>1, <1>6
    <3>2. CASE j \in (n + 2 + m)..(size + m) /\ j - m \in 1..size /\ M(j) = L(j - m)
      <4>1. i = j - m
        BY <2>2, <3>2, <1>6
      <4> QED
        BY <4>1, <2>2, <3>2, <1>1, <1>2, <1>5
    <3> QED
      BY <3>1, <3>2, <2>2, <1>9, <1>11
  <2>3. CASE i \in (n + 2 + m)..(size + m) /\ i - m \in 1..size /\ M(i) = L(i - m)
    <3>1. CASE j \in 1..(n + 1) /\ j \in 1..size /\ M(j) = L(j)
      <4>1. j = i - m
        BY <2>3, <3>1, <1>6
      <4> QED
        BY <4>1, <2>3, <3>1, <1>1, <1>2, <1>5
    <3>2. CASE j \in (n + 2 + m)..(size + m) /\ j - m \in 1..size /\ M(j) = L(j - m)
      <4>1. i - m = j - m
        BY <2>3, <3>2, <1>6
      <4> QED
        BY <4>1, <1>1, <1>2, <1>5
    <3> QED
      BY <3>1, <3>2, <2>3, <1>9, <1>11
  <2> QED
    BY <2>1, <2>2, <2>3, <1>11
<1>13. \A j \in 1..n : P[j] = p[j]
  BY <1>3
<1>14. \A i \in 1..(size + m) :
          \/ M(i) = 0
          \/ \E j \in 1..(n + 1) : j < i /\ \E k \in DOMAIN Kids[P[j]] : M(i) = Kids[P[j]][k]
  <2> TAKE i \in 1..(size + m)
  <2>1. CASE i \in 1..(n + 1) /\ i \in 1..size /\ M(i) = L(i)
    <3>1. CASE L(i) # 0
      <4>1. PICK j \in 1..n : j < i /\ \E k \in DOMAIN Kids[p[j]] : L(i) = Kids[p[j]][k]
        BY <3>1, <2>1, <1>6
      <4> QED
        BY <4>1, <2>1, <1>13, <1>1
    <3> QED
      BY <3>1, <2>1
  <2>2. CASE i \in (n + 2)..(n + 1 + m) /\ i - n - 1 \in 1..m /\ M(i) = Kids[h][i - n - 1]
    <3>1. n + 1 \in 1..(n + 1) /\ n + 1 < i /\ i - n - 1 \in DOMAIN Kids[P[n + 1]]
      BY <2>2, <1>1, <1>2, <1>3
    <3> QED
      BY <3>1, <2>2, <1>3
  <2>3. CASE i \in (n + 2 + m)..(size + m) /\ i - m \in 1..size /\ M(i) = L(i - m)
    <3>1. CASE L(i - m) # 0
      <4>1. PICK j \in 1..n : j < i - m /\ \E k \in DOMAIN Kids[p[j]] : L(i - m) = Kids[p[j]][k]
        BY <3>1, <2>3, <1>6
      <4>2. j \in 1..(n + 1) /\ j < i
        BY <4>1, <1>1, <1>2
      <4> QED
        BY <4>1, <4>2, <2>3, <1>13
    <3> QED
      BY <3>1, <2>3
  <2> QED
    BY <2>1, <2>2, <2>3, <1>11
<1>15. \E i \in 1..(size + m) : M(i) = 0
  BY <1>6, <1>10
<1>16. \A j \in 1..(n + 1) : \A k \in DOMAIN Kids[P[j]] : \E i \in 1..(size + m) : M(i) = Kids[P[j]][k]
  <2> TAKE j \in 1..(n + 1)
  <2>1. CASE j \in 1..n
    BY <2>1, <1>6, <1>10, <1>13
  <2>2. CASE j = n + 1
    <3>1. P[j] = h
      BY <2>2, <1>3
    <3> TAKE k \in DOMAIN Kids[P[j]]
    <3>2. k \in 1..m /\ n + 1 + k \in (n + 2)..(n + 1 + m) /\ (n + 1 + k) - n - 1 = k
      BY <3>1, <1>1, <1>2
    <3>3. M(n + 1 + k) = Kids[h][k] /\ n + 1 + k \in 1..(size + m)
      BY <3>2, <1>5, <1>1, <1>2
    <3> QED
      BY <3>1, <3>3
  <2> QED
    BY <2>1, <2>2, <1>1
<1>17. Len(P) = n + 1 /\ Len(P) + Len(Q) = size + m
  BY <1>3, <1>5
<1>18. InTree(P, Q)
  BY <1>3, <1>4 DEF InTree
<1>19. Walked(P, Q)
  BY <1>12, <1>14, <1>15, <1>16, <1>17, <1>18 DEF Walked, M
<1> QED
  BY <1>19 DEF P, Q, h

\* When no vertex is left, the walk went over all of the graph, each vertex after its parent.
LEMMA WalkEnds ==
    ASSUME NEW p, Walked(p, <<>>)
    PROVE  /\ p \in Seq(Pag) /\ Len(p) \in Nat \ {0}
           /\ \A i, j \in 1..Len(p) : p[i] = p[j] => i = j
           /\ \A v \in Pag : \E i \in 1..Len(p) : p[i] = v
           /\ \A i, j \in 1..Len(p) : \A k \in DOMAIN Kids[p[i]] : p[j] = Kids[p[i]][k] => i < j
<1>1. p \in Seq(Pag) /\ Len(p) \in Nat /\ Len(<<>>) = 0 /\ Len(p) + Len(<<>>) = Len(p)
  BY EmptySeq DEF Walked, InTree
<1>2. \A i \in 1..Len(p) : Line(p, <<>>, i) = p[i] /\ p[i] \in Pag
  BY <1>1 DEF Line
<1>3. /\ \A i, j \in 1..Len(p) : p[i] = p[j] => i = j
      /\ \A i \in 1..Len(p) :
            \/ p[i] = 0
            \/ \E j \in 1..Len(p) : j < i /\ \E k \in DOMAIN Kids[p[j]] : p[i] = Kids[p[j]][k]
      /\ \E i \in 1..Len(p) : p[i] = 0
      /\ \A j \in 1..Len(p) : \A k \in DOMAIN Kids[p[j]] : \E i \in 1..Len(p) : p[i] = Kids[p[j]][k]
  <2>1. \A i, j \in 1..Len(p) : p[i] = p[j] => i = j
    BY <1>1, <1>2 DEF Walked
  <2>2. \A i \in 1..Len(p) :
            \/ p[i] = 0
            \/ \E j \in 1..Len(p) : j < i /\ \E k \in DOMAIN Kids[p[j]] : p[i] = Kids[p[j]][k]
    <3> SUFFICES ASSUME NEW i \in 1..Len(p), p[i] # 0
                 PROVE  \E j \in 1..Len(p) : j < i /\ \E k \in DOMAIN Kids[p[j]] : p[i] = Kids[p[j]][k]
      OBVIOUS
    <3>1. Line(p, <<>>, i) = p[i] /\ i \in 1..(Len(p) + Len(<<>>))
      BY <1>1, <1>2
    <3> DEFINE L == Line(p, <<>>, i)
    <3>2. \/ L = 0
          \/ \E j \in 1..Len(p) : j < i /\ \E k \in DOMAIN Kids[p[j]] : L = Kids[p[j]][k]
      BY <3>1 DEF Walked
    <3> HIDE DEF L
    <3>3. L = p[i]
      BY <3>1 DEF L
    <3> QED
      BY <3>2, <3>3
  <2>3. \E i \in 1..Len(p) : p[i] = 0
    BY <1>1, <1>2 DEF Walked
  <2>4. ASSUME NEW j \in 1..Len(p), NEW k \in DOMAIN Kids[p[j]]
        PROVE  \E i \in 1..Len(p) : p[i] = Kids[p[j]][k]
    BY <1>1, <1>2 DEF Walked
  <2> QED
    BY <2>1, <2>2, <2>3, <2>4
<1>4. \A v \in Pag : \E i \in 1..Len(p) : p[i] = v
  <2> DEFINE S == {p[i] : i \in 1..Len(p)}
  <2>1. S \in SUBSET Pag /\ 0 \in S
    BY <1>2, <1>3
  <2>2. ASSUME NEW v \in S, NEW k \in DOMAIN Kids[v] PROVE Kids[v][k] \in S
    <3>1. PICK j \in 1..Len(p) : v = p[j]
      OBVIOUS
    <3>2. PICK i \in 1..Len(p) : p[i] = Kids[p[j]][k]
      BY <3>1, <1>3
    <3> QED
      BY <3>1, <3>2
  <2>3. S = Pag
    BY <2>1, <2>2, TreeAssumption
  <2> QED
    BY <2>3
<1>5. ASSUME NEW i \in 1..Len(p), NEW j \in 1..Len(p), NEW k \in DOMAIN Kids[p[i]],
             p[j] = Kids[p[i]][k]
      PROVE  i < j
  <2>1. p[j] # 0
    BY <1>5, <1>2, TreeAssumption
  <2>2. PICK h \in 1..Len(p) : h < j /\ \E l \in DOMAIN Kids[p[h]] : p[j] = Kids[p[h]][l]
    BY <2>1, <1>3
  <2>3. PICK l \in DOMAIN Kids[p[h]] : p[j] = Kids[p[h]][l]
    BY <2>2
  <2>4. p[h] = p[i]
    <3>1. p[h] \in Pag /\ p[i] \in Pag /\ Kids[p[h]][l] = Kids[p[i]][k]
      BY <2>3, <1>2, <1>5
    <3> QED
      BY <3>1, TreeAssumption
  <2> QED
    BY <2>2, <2>4, <1>3
<1>6. Len(p) # 0
  BY <1>1, <1>3
<1> QED
  BY <1>1, <1>3, <1>4, <1>5, <1>6

-------------------------------------------------------------------------------
\* The k-th vertex of the walk has its copy for process p here.
Position(p, k) == p * Chain + k + 1

\* Once it has its root, the graph consists of the first copies, in this order.
Arc(i) == <<IF (i - 2) % Chain = 0 THEN 0 ELSE i - 2, i - 1>>
Built ==
    mnode # <<>> =>
        /\ Matched /\ todo = <<>>
        /\ IsSequence(mnode) /\ IsSequence(mdata) /\ Len(mdata) = Len(mnode)
        /\ mnode[1] = Root
        /\ \A i \in 2..Len(mnode) :
              /\ (i - 2) \div Chain \in Ranks
              /\ mnode[i] = <<(i - 2) \div Chain, preorder[((i - 2) % Chain) + 1]>>
              /\ mdata[i] = DataOf(preorder[((i - 2) % Chain) + 1], (i - 2) \div Chain)
        /\ marc = {Arc(i) : i \in 2..Len(mnode)}

GInv == Walked(preorder, todo) /\ Built /\ (mnode = <<>> => marc = {} /\ mdata = <<>>)

\* Before the walk nothing is copied.
LEMMA InitGInv == MpiInit => GInv
<1> SUFFICES ASSUME GraphInit PROVE GInv
  BY DEF MpiInit
<1> QED
  BY WalkStarts DEF GraphInit, GInv, Built

\* The length of a sequence that is not empty.
LEMMA NotEmpty == ASSUME NEW s, IsSequence(s), s # <<>> PROVE Len(s) \in Nat \ {0}
<1>1. PICK S : s \in Seq(S)
  BY DEF IsSequence
<1> QED
  BY <1>1, EmptySeq

\* A step of the walk keeps what is known of the copies.
LEMMA CopyStep ==
    ASSUME GInv, CopyToMpag, UNCHANGED matching
    PROVE  GInv'
<1>1. /\ Matched /\ todo = <<>> /\ mnode # <<>> /\ CopyProcess \in Ranks
      /\ mnode' = Append(mnode, <<CopyProcess, CopyVertexId>>)
      /\ marc' = marc \cup {<<Predecessor, Count>>}
      /\ mdata' = Append(mdata, DataOf(CopyVertexId, CopyProcess))
      /\ samples' = samples /\ todo' = todo /\ preorder' = preorder
  BY DEF CopyToMpag, Copying
<1> DEFINE n == Len(mnode)
           c == Chain
<1>2. c \in Nat \ {0} /\ c' = c /\ Walked(preorder, <<>>)
  BY <1>1, WalkEnds DEF GInv, Chain
<1>3. /\ IsSequence(mnode) /\ IsSequence(mdata) /\ Len(mdata) = n
      /\ mnode[1] = Root
      /\ \A i \in 2..n :
            /\ (i - 2) \div c \in Ranks
            /\ mnode[i] = <<(i - 2) \div c, preorder[((i - 2) % c) + 1]>>
            /\ mdata[i] = DataOf(preorder[((i - 2) % c) + 1], (i - 2) \div c)
      /\ marc = {Arc(i) : i \in 2..n}
  BY <1>1 DEF GInv, Built
<1>4. n \in Nat \ {0}
  BY <1>1, <1>3, NotEmpty
<1>5. /\ IsSequence(mnode') /\ Len(mnode') = n + 1
      /\ (\A i \in 1..n : mnode'[i] = mnode[i])
      /\ mnode'[n + 1] = <<CopyProcess, CopyVertexId>>
  BY <1>1, <1>3, AppendIs
<1>6. /\ IsSequence(mdata') /\ Len(mdata') = n + 1
      /\ (\A i \in 1..n : mdata'[i] = mdata[i])
      /\ mdata'[n + 1] = DataOf(CopyVertexId, CopyProcess)
  BY <1>1, <1>3, AppendIs
<1>7. /\ CopyProcess = (n + 1 - 2) \div c
      /\ CopyVertexId = preorder[((n + 1 - 2) % c) + 1]
      /\ Predecessor = (IF (n + 1 - 2) % c = 0 THEN 0 ELSE n + 1 - 2)
      /\ Count = n + 1 - 1
  BY <1>2, <1>4 DEF CopyProcess, CopyVertexId, Predecessor, Count
<1>8. \A v, p : DataOf(v, p)' = DataOf(v, p)
  BY <1>1 DEF DataOf
<1>9. mnode' # <<>>
  BY <1>4, <1>5, EmptySeq
<1>10. Matched'
  BY <1>1 DEF Matched, matching
<1>11. ASSUME NEW i \in 2..(n + 1)
       PROVE  /\ (i - 2) \div c \in Ranks
              /\ mnode'[i] = <<(i - 2) \div c, preorder[((i - 2) % c) + 1]>>
              /\ mdata'[i] = DataOf(preorder[((i - 2) % c) + 1], (i - 2) \div c)
  <2>1. CASE i \in 2..n
    <3>1. i \in 1..n
      BY <1>4, <2>1
    <3> QED
      BY <2>1, <3>1, <1>3, <1>5, <1>6
  <2>2. CASE i = n + 1
    BY <2>2, <1>1, <1>5, <1>6, <1>7
  <2> QED
    BY <2>1, <2>2, <1>4
<1>15. <<Predecessor, Count>> = Arc(n + 1)
  BY <1>7 DEF Arc
<1>16. \A i : Arc(i)' = Arc(i)
  BY <1>2 DEF Arc
<1>12. marc' = {Arc(i) : i \in 2..(n + 1)}
  <2>1. 2..(n + 1) = (2..n) \cup {n + 1}
    BY <1>4
  <2> QED
    BY <2>1, <1>1, <1>3, <1>15
<1>13. mnode'[1] = Root
  BY <1>3, <1>4, <1>5
<1>14. Built'
  BY <1>1, <1>2, <1>5, <1>6, <1>8, <1>10, <1>11, <1>12, <1>13, <1>16, SMTT(20) DEF Built
<1> QED
  BY <1>1, <1>2, <1>9, <1>14 DEF GInv

\* A step of the construction of the process graph.
LEMMA GraphStep == ASSUME GInv, GraphNext, UNCHANGED matching PROVE GInv'
<1>1. CASE VisitPreOrder
  <2>1. /\ todo # <<>> /\ preorder' = Append(preorder, Head(todo))
        /\ todo' = Kids[Head(todo)] \o Tail(todo)
        /\ UNCHANGED <<samples, mnode, marc, mdata, commEdges, rest>>
    BY <1>1 DEF VisitPreOrder
  <2>2. Walked(preorder, todo)' 
    BY <2>1, WalkStep DEF GInv
  <2>3. mnode = <<>>
    BY <2>1 DEF GInv, Built
  <2> QED
    BY <2>1, <2>2, <2>3 DEF GInv, Built
<1>2. CASE AddRoot
  <2>1. /\ Matched /\ todo = <<>> /\ mnode = <<>> /\ mnode' = <<Root>>
        /\ mdata' = <<[r \in Ranks |-> 0]>>
        /\ UNCHANGED <<samples, todo, preorder, marc, commEdges>>
    BY <1>2 DEF AddRoot
  <2>2. /\ IsSequence(mnode') /\ IsSequence(mdata') /\ Len(mnode') = 1 /\ Len(mdata') = 1
        /\ mnode'[1] = Root
    <3>1. <<Root>> \in Seq({Root}) /\ <<[r \in Ranks |-> 0]>> \in Seq({[r \in Ranks |-> 0]})
      OBVIOUS
    <3> QED
      BY <2>1, <3>1 DEF IsSequence
  <2>3. marc' = {} /\ 2..1 = {}
    BY <2>1 DEF GInv
  <2>4. Built'
    BY <1>2, <2>1, <2>2, <2>3 DEF Built, Matched, matching
  <2>5. mnode' # <<>>
    BY <2>1
  <2> QED
    BY <2>1, <2>4, <2>5 DEF GInv
<1>3. CASE CopyToMpag
  BY <1>3, CopyStep
<1>4. CASE \E e \in rest : AddCommEdge(e)
  <2>1. UNCHANGED <<samples, todo, preorder, mnode, marc, mdata>>
    BY <1>4 DEF AddCommEdge
  <2>2. \A v, p : DataOf(v, p)' = DataOf(v, p)
    BY <2>1 DEF DataOf
  <2>3. \A i : Arc(i)' = Arc(i)
    BY <2>1 DEF Arc, Chain
  <2> QED
    BY <2>1, <2>2, <2>3 DEF GInv, Built, Chain, Matched, matching
<1> QED
  BY <1>1, <1>2, <1>3, <1>4 DEF GraphNext

\* A step of the tracer, the matching or the construction.
LEMMA MpiStep == GInv /\ [MpiNext]_MpiVars => GInv'
<1> SUFFICES ASSUME GInv, [MpiNext]_MpiVars PROVE GInv'
  OBVIOUS
<1>1. CASE UNCHANGED mpag /\ (Matched => UNCHANGED <<analysis, pid>>)
  <2>1. UNCHANGED <<samples, todo, preorder, mnode, marc, mdata>> /\ (Matched => Matched')
    BY <1>1 DEF mpag, Matched
  <2>2. \A v, p : DataOf(v, p)' = DataOf(v, p)
    BY <2>1 DEF DataOf
  <2>3. \A i : Arc(i)' = Arc(i)
    BY <2>1 DEF Arc, Chain
  <2> QED
    BY <2>1, <2>2, <2>3 DEF GInv, Built, Chain
<1>2. CASE MatchNext /\ UNCHANGED mpag
  <2>1. Matched => UNCHANGED <<analysis, pid>>
    BY <1>2 DEF Matched, MatchNext, StartMatch, MatchRequest, NextProcess
  <2> QED
    BY <1>1, <1>2, <2>1
<1>3. CASE UNCHANGED <<matching, mpag>>
  BY <1>1, <1>3 DEF matching
<1>4. CASE GraphNext /\ UNCHANGED <<vars, matching>>
  BY <1>4, GraphStep
<1> QED
  BY <1>2, <1>3, <1>4 DEF MpiNext, MpiVars, matching

\* What is known of the copies holds throughout.
LEMMA GInvIsInvariant == MpiSpec => []GInv
  BY InitGInv, MpiStep, PTL DEF MpiSpec

-------------------------------------------------------------------------------
\* The processes are numbered from 0 without a gap.
LEMMA RanksFrom0 == \A p \in Ranks : p \in Nat /\ \A q \in Nat : q <= p => q \in Ranks
  BY TracerAssumption

\* When all are copied, the copies of process p are at its positions.
LEMMA CopiesAre ==
    ASSUME GInv, Copied, NEW p \in Ranks, NEW k \in 1..Chain
    PROVE  /\ Position(p, k) \in 2..Len(mnode) /\ Position(p, k) \in DOMAIN mnode
           /\ mnode[Position(p, k)] = <<p, preorder[k]>>
           /\ mdata[Position(p, k)] = DataOf(preorder[k], p)
           /\ Arc(Position(p, k)) = <<IF k = 1 THEN 0 ELSE Position(p, k) - 2, Position(p, k) - 1>>
<1>1. /\ todo = <<>> /\ IsSequence(mnode) /\ mnode # <<>> /\ CopyProcess \notin Ranks
      /\ \A i \in 2..Len(mnode) :
            /\ mnode[i] = <<(i - 2) \div Chain, preorder[((i - 2) % Chain) + 1]>>
            /\ mdata[i] = DataOf(preorder[((i - 2) % Chain) + 1], (i - 2) \div Chain)
  BY DEF GInv, Built, Copied, Copying
<1> DEFINE n == Len(mnode)
           c == Chain
<1>2. n \in Nat \ {0} /\ c \in Nat \ {0} /\ p \in Nat /\ k \in Nat
  BY <1>1, NotEmpty, WalkEnds, RanksFrom0 DEF GInv, Chain
<1> HIDE DEF n, c
<1>3. k - 1 \in 0..(c - 1) /\ n - 1 \in Nat
  BY <1>2 DEF c
<1>4. (n - 1) \div c > p
  <2>1. (n - 1) \div c \in Nat /\ (n - 1) \div c \notin Ranks
    BY <1>1, <1>2, <1>3, DivMod DEF CopyProcess, Count, n, c
  <2> QED
    BY <2>1, <1>2, RanksFrom0
<1>5. p * c + (k - 1) < n - 1
  BY <1>2, <1>3, <1>4, DivMonotone
<1>6. p * c \in Nat
  BY <1>2
<1>7. Position(p, k) = p * c + k + 1
  BY DEF Position, c
<1>8. Position(p, k) \in 2..n /\ Position(p, k) - 2 = p * c + (k - 1)
  BY <1>2, <1>5, <1>6, <1>7
<1>9. (Position(p, k) - 2) \div c = p /\ (Position(p, k) - 2) % c = k - 1
  BY <1>8, <1>2, <1>3, DivIs
<1>10. k - 1 + 1 = k /\ (k - 1 = 0 <=> k = 1)
  BY <1>2
<1>11. DOMAIN mnode = 1..n
  BY <1>1, LenIsNat DEF n
<1> QED
  BY <1>1, <1>2, <1>8, <1>9, <1>10, <1>11, SMTT(20) DEF n, c, Arc

\* Every vertex but the root is such a copy.
LEMMA PlacesAre ==
    ASSUME GInv, Copied, NEW i \in 2..Len(mnode)
    PROVE  \E p \in Ranks, k \in 1..Chain : i = Position(p, k)
<1>1. todo = <<>> /\ IsSequence(mnode) /\ mnode # <<>> /\ (i - 2) \div Chain \in Ranks
  BY DEF GInv, Built, Copied
<1> DEFINE c == Chain
           p == (i - 2) \div c
           r == (i - 2) % c
<1>2. Len(mnode) \in Nat /\ c \in Nat \ {0}
  BY <1>1, NotEmpty, WalkEnds DEF GInv, Chain
<1> HIDE DEF c
<1>3. i - 2 \in Nat
  BY <1>2
<1>4. p \in Nat /\ r \in 0..(c - 1) /\ i - 2 = c * p + r
  BY <1>2, <1>3, DivMod
<1> HIDE DEF p, r
<1>5. r + 1 \in 1..c /\ p * c = c * p /\ c * p \in Nat
  BY <1>2, <1>4
<1>6. i = p * c + (r + 1) + 1
  BY <1>3, <1>4, <1>5, <1>2
<1>7. p \in Ranks
  BY <1>1 DEF p, c
<1> QED
  BY <1>5, <1>6, <1>7 DEF Position, c

\* The copy of vertex k for process q is at a place of its own.
LEMMA PositionsDiffer ==
    ASSUME GInv, Copied, NEW p \in Ranks, NEW q \in Ranks, NEW k \in 1..Chain, NEW l \in 1..Chain,
           Position(p, k) = Position(q, l)
    PROVE  p = q /\ k = l
<1>1. Chain \in Nat \ {0} /\ (\A i, j \in 1..Chain : preorder[i] = preorder[j] => i = j)
  BY WalkEnds DEF GInv, Chain, Built, Copied
<1>2. preorder[k] = preorder[l] /\ p = q
  BY CopiesAre
<1> QED
  BY <1>1, <1>2

\* A set within one element.
LEMMA AtMostOne == ASSUME NEW S, NEW x, S \subseteq {x} PROVE Cardinality(S) \in Nat /\ Cardinality(S) <= 1
<1>1. S = {} \/ S = {x}
  OBVIOUS
<1>2. Cardinality({}) = 0 /\ Cardinality({x}) = 1
  BY FS_EmptySet, FS_Singleton
<1> QED
  BY <1>1, <1>2

\* The copies of a vertex, and what is behind a place.
LEMMA OneCopy ==
    ASSUME GInv, Copied, NEW p \in Ranks, NEW k \in 1..Chain
    PROVE  Copies(p, preorder[k]) = {Position(p, k)}
<1>1. Chain \in Nat \ {0} /\ (\A i, j \in 1..Chain : preorder[i] = preorder[j] => i = j)
  BY WalkEnds DEF GInv, Chain, Built, Copied
<1>2. ASSUME NEW i \in DOMAIN mnode, mnode[i] = <<p, preorder[k]>>
      PROVE  i = Position(p, k)
  <2>1. i # 1
    BY <1>2, RanksFrom0 DEF GInv, Built, Copied, Root
  <2>2. i \in 2..Len(mnode)
    BY <2>1, LenIsNat DEF GInv, Built, Copied
  <2>3. PICK q \in Ranks, l \in 1..Chain : i = Position(q, l)
    BY <2>2, PlacesAre
  <2>4. p = q /\ preorder[k] = preorder[l]
    BY <2>3, <1>2, CopiesAre
  <2> QED
    BY <2>3, <2>4, <1>1
<1> QED
  BY <1>2, CopiesAre DEF Copies

\* An arc leads to each copy from the place in front of it, to the first one of a process
\* from the root.
LEMMA ReachedFrom ==
    ASSUME GInv, Copied, NEW i \in Nat, NEW j
    PROVE  j \in Reached(i) <=> \E p \in Ranks, k \in 1..Chain :
              j = Position(p, k) /\ i = IF k = 1 THEN 1 ELSE j - 1
<1>1. /\ marc = {Arc(n) : n \in 2..Len(mnode)} /\ DOMAIN mnode = 1..Len(mnode)
      /\ Len(mnode) \in Nat \ {0}
  BY LenIsNat, NotEmpty DEF GInv, Built, Copied
<1>2. Chain \in Nat \ {0}
  BY WalkEnds DEF GInv, Chain, Built, Copied
<1>3. ASSUME j \in Reached(i)
      PROVE  \E p \in Ranks, k \in 1..Chain : j = Position(p, k) /\ i = IF k = 1 THEN 1 ELSE j - 1
  <2>1. PICK n \in 2..Len(mnode) : <<i - 1, j - 1>> = Arc(n)
    BY <1>1, <1>3 DEF Reached
  <2>2. PICK p \in Ranks, k \in 1..Chain : n = Position(p, k)
    BY PlacesAre
  <2>3. Arc(n) = <<IF k = 1 THEN 0 ELSE n - 2, n - 1>>
    BY <2>2, CopiesAre
  <2>4. j \in Nat /\ n \in Nat /\ k \in Nat
    BY <1>1, <1>2, <1>3 DEF Reached
  <2>5. j - 1 = n - 1 /\ i - 1 = IF k = 1 THEN 0 ELSE n - 2
    BY <2>1, <2>3
  <2>6. j = n /\ i = IF k = 1 THEN 1 ELSE j - 1
    BY <2>4, <2>5
  <2> QED
    BY <2>2, <2>6
<1>4. ASSUME NEW p \in Ranks, NEW k \in 1..Chain, j = Position(p, k), i = IF k = 1 THEN 1 ELSE j - 1
      PROVE  j \in Reached(i)
  <2>1. /\ j \in 2..Len(mnode) /\ j \in DOMAIN mnode
        /\ Arc(j) = <<IF k = 1 THEN 0 ELSE j - 2, j - 1>>
    BY <1>4, CopiesAre
  <2>2. j \in Nat
    BY <2>1, <1>1
  <2>3. i - 1 = IF k = 1 THEN 0 ELSE j - 2
    BY <2>2, <1>4
  <2> QED
    BY <2>1, <2>3, <1>1 DEF Reached
<1> QED
  BY <1>3, <1>4

\* When the copies are made each process has its copy of the program graph, a chain of its
\* own with its own data, in which a vertex is in front of its children (graph_perf.cpp
\* 1093-1133).
THEOREM ProcessesHaveGraphs == MpiSpec => []EachProcessHasItsGraph
<1>1. GInv => EachProcessHasItsGraph
  <2> SUFFICES ASSUME GInv, Copied, NEW p \in Ranks
               PROVE  /\ \A v \in Pag : \E i \in DOMAIN mnode :
                            /\ Copies(p, v) = {i}
                            /\ mdata[i] = [r \in Ranks |-> IF r = p THEN samples[v][p] ELSE 0]
                            /\ Cardinality(Reached(i)) <= 1
                            /\ \A j \in Reached(i) : mnode[j][1] = p /\ j > i
                            /\ \A k \in DOMAIN Kids[v] : \A j \in Copies(p, Kids[v][k]) : j > i
                      /\ Cardinality({i \in Reached(1) : mnode[i][1] = p}) = 1
    BY DEF EachProcessHasItsGraph
  <2>1. /\ Chain \in Nat \ {0} /\ preorder \in Seq(Pag)
        /\ \A v \in Pag : \E i \in 1..Chain : preorder[i] = v
        /\ \A i, j \in 1..Chain : \A k \in DOMAIN Kids[preorder[i]] : preorder[j] = Kids[preorder[i]][k] => i < j
    BY WalkEnds, ZenonT(60) DEF GInv, Chain, Built, Copied
  <2>2. \A q \in Ranks, k \in 1..Chain : q * Chain \in Nat /\ Position(q, k) \in Nat /\ Position(q, k) >= 2
    BY <2>1, RanksFrom0, SMTT(60) DEF Position
  <2>5. \A q \in Ranks : \A k, l \in 1..Chain :
            Position(q, k) - Position(q, l) = k - l /\ (k < l => Position(q, k) < Position(q, l))
    <3> TAKE q \in Ranks
    <3>1. PICK a \in Nat : a = q * Chain
      <4>1. q * Chain \in Nat
        BY <2>1, RanksFrom0
      <4> QED
        BY <4>1
    <3> QED
      BY <3>1, <2>1 DEF Position
  <2>3. ASSUME NEW v \in Pag
        PROVE  \E i \in DOMAIN mnode :
                  /\ Copies(p, v) = {i}
                  /\ mdata[i] = [r \in Ranks |-> IF r = p THEN samples[v][p] ELSE 0]
                  /\ Cardinality(Reached(i)) <= 1
                  /\ \A j \in Reached(i) : mnode[j][1] = p /\ j > i
                  /\ \A k \in DOMAIN Kids[v] : \A j \in Copies(p, Kids[v][k]) : j > i
    <3>1. PICK n \in 1..Chain : preorder[n] = v
      BY <2>1
    <3> DEFINE i == Position(p, n)
    <3>2. /\ i \in DOMAIN mnode /\ Copies(p, v) = {i}
          /\ mdata[i] = [r \in Ranks |-> IF r = p THEN samples[v][p] ELSE 0]
      <4>1. /\ i \in DOMAIN mnode /\ mdata[i] = DataOf(preorder[n], p)
            /\ Copies(p, preorder[n]) = {i}
        BY CopiesAre, OneCopy
      <4> QED
        BY <3>1, <4>1 DEF DataOf
    <3>3. \A j \in Reached(i) : mnode[j][1] = p /\ j = i + 1
      <4> TAKE j \in Reached(i)
      <4>1. PICK q \in Ranks, k \in 1..Chain : j = Position(q, k) /\ i = IF k = 1 THEN 1 ELSE j - 1
        BY <2>2, ReachedFrom
      <4>2. k # 1 /\ j = i + 1
        BY <4>1, <2>2
      <4>3. k \in 2..Chain /\ k - 1 \in 1..Chain
        BY <4>1, <4>2, <2>1
      <4>4. Position(q, k - 1) = Position(q, k) - 1
        <5>1. (k - 1) - k = -1 /\ Position(q, k - 1) \in Nat /\ Position(q, k) \in Nat
          BY <4>3, <2>2, <2>1, SMTT(20)
        <5> QED
          BY <5>1, <4>3, <2>5
      <4>5. q = p
        BY <4>1, <4>2, <4>3, <4>4, PositionsDiffer
      <4> QED
        BY <4>1, <4>2, <4>5, CopiesAre
    <3>4. Cardinality(Reached(i)) <= 1
      BY <3>3, AtMostOne
    <3>5. ASSUME NEW k \in DOMAIN Kids[v], NEW j \in Copies(p, Kids[v][k]) PROVE j > i
      <4>1. Kids[v][k] \in Pag
        BY GraphAssumption
      <4>2. PICK m \in 1..Chain : preorder[m] = Kids[v][k]
        BY <4>1, <2>1
      <4>3. n < m
        BY <4>2, <3>1, <2>1
      <4>4. j = Position(p, m)
        BY <4>2, OneCopy
      <4> QED
        BY <4>3, <4>4, <2>5
    <3> QED
      BY <3>2, <3>3, <3>4, <3>5, <2>2
  <2>4. Cardinality({i \in Reached(1) : mnode[i][1] = p}) = 1
    <3>1. {i \in Reached(1) : mnode[i][1] = p} = {Position(p, 1)}
      <4>1. 1 \in 1..Chain /\ 1 \in Nat
        BY <2>1
      <4>2. Position(p, 1) \in Reached(1) /\ mnode[Position(p, 1)][1] = p
        BY <4>1, ReachedFrom, CopiesAre
      <4>3. ASSUME NEW j \in Reached(1), mnode[j][1] = p PROVE j = Position(p, 1)
        <5>1. PICK q \in Ranks, k \in 1..Chain : j = Position(q, k) /\ 1 = IF k = 1 THEN 1 ELSE j - 1
          BY <4>1, ReachedFrom
        <5>2. q = p
          BY <5>1, <4>3, CopiesAre
        <5>3. CASE k # 1
          <6>1. Position(q, k) = 2 /\ k \in 2..Chain
            BY <5>1, <5>3, <2>2, <2>1
          <6>2. q * Chain \in Nat /\ Position(q, k) = q * Chain + k + 1
            BY <2>2 DEF Position
          <6> HIDE DEF Position
          <6>3. k \in Nat /\ k >= 2
            BY <6>1, <2>1
          <6> QED
            BY <6>1, <6>2, <6>3
        <5> QED
          BY <5>1, <5>2, <5>3
      <4> QED
        BY <4>2, <4>3
    <3> QED
      BY <3>1, FS_Singleton
  <2> QED
    BY <2>3, <2>4
<1> QED
  BY <1>1, GInvIsInvariant, PTL

-------------------------------------------------------------------------------
(* What the logs say of the messages                                           *)

\* Log s has an entry of call c; the calls cs have call c, to be recorded in it.
Logged(s, c) == \E k \in 1..Len(s) : s[k].call = c
HasMade(cs, c) == \E k \in 1..Len(cs) : cs[k].book = "p2p" /\ cs[k].call = c
LogsAreCalls == \A r \in Ranks : \A c : Logged(Entries(r, "p2p"), c) <=> HasMade(calls[r], c)

\* Nothing is left in memory at the end, if all files opened.
WrittenAtEnd ==
    failures = 0 => \A r \in Ranks : r \in finalized => \A b \in Books : mem[r][b] = <<>>

\* A counted call is in the log, and nothing else came in.
LEMMA LoggedCounted ==
    ASSUME NEW s, NEW c, NEW i, NEW t, IsLog(s), i = Entry(s, c), t = Counted(s, i, c)
    PROVE  \A d : Logged(t, d) <=> Logged(s, d) \/ d = c
<1>1. Len(s) \in Nat /\ DOMAIN s = 1..Len(s) /\ IsSequence(s)
  BY LenIsNat DEF IsLog
<1>2. /\ Len(t) \in {Len(s), Len(s) + 1} /\ i \in 1..Len(t) /\ t[i].call = c
      /\ \A k \in 1..Len(s) : t[k].call = s[k].call
  BY CountedIs
<1>3. ASSUME NEW k \in 1..Len(t), k \notin 1..Len(s) PROVE t[k].call = c
  <2>1. CASE i \in 1..Len(s)
    <3>1. t = [s EXCEPT ![i].count = @ + 1]
      BY <1>1, <2>1 DEF Counted
    <3>2. PICK T : s \in Seq(T)
      BY <1>1 DEF IsSequence
    <3>3. DOMAIN t = 1..Len(s)
      BY <3>1, <1>1
    <3> DEFINE e == [s[i] EXCEPT !.count = @ + 1]
    <3>4. t = [s EXCEPT ![i] = e] /\ s \in Seq(T \cup {e})
      BY <3>1, <3>2
    <3> HIDE DEF e
    <3>5. Len(t) = Len(s)
      BY <2>1, <3>4
    <3> QED
      BY <1>3, <3>5
  <2>2. CASE i \notin 1..Len(s)
    <3>1. k = i
      BY <1>1, <1>2, <1>3, <2>2
    <3> QED
      BY <1>2, <3>1
  <2> QED
    BY <2>1, <2>2
<1> QED
  BY <1>1, <1>2, <1>3 DEF Logged

\* The calls of a log that another one is written after.
LEMMA LoggedConcat ==
    ASSUME NEW s, NEW t, IsSequence(s), IsSequence(t)
    PROVE  \A d : Logged(s \o t, d) <=> Logged(s, d) \/ Logged(t, d)
<1>1. /\ Len(s) \in Nat /\ Len(t) \in Nat /\ Len(s \o t) = Len(s) + Len(t)
      /\ \A i \in 1..(Len(s) + Len(t)) : (s \o t)[i] = IF i <= Len(s) THEN s[i] ELSE t[i - Len(s)]
  BY ConcatIs, LenIsNat
<1>2. ASSUME NEW d, NEW k \in 1..Len(s \o t), (s \o t)[k].call = d
      PROVE  Logged(s, d) \/ Logged(t, d)
  <2>1. CASE k <= Len(s)
    BY <1>1, <1>2, <2>1 DEF Logged
  <2>2. CASE ~ (k <= Len(s))
    <3>1. k - Len(s) \in 1..Len(t)
      BY <1>1, <2>2
    <3> QED
      BY <1>1, <1>2, <2>2, <3>1 DEF Logged
  <2> QED
    BY <2>1, <2>2
<1>3. ASSUME NEW d, NEW k \in 1..Len(s), s[k].call = d PROVE Logged(s \o t, d)
  <2>1. k \in 1..(Len(s) + Len(t)) /\ k <= Len(s)
    BY <1>1
  <2> QED
    BY <1>1, <1>3, <2>1 DEF Logged
<1>4. ASSUME NEW d, NEW k \in 1..Len(t), t[k].call = d PROVE Logged(s \o t, d)
  <2>1. k + Len(s) \in 1..(Len(s) + Len(t)) /\ ~ (k + Len(s) <= Len(s)) /\ k + Len(s) - Len(s) = k
    BY <1>1
  <2> QED
    BY <1>1, <1>4, <2>1 DEF Logged
<1> QED
  BY <1>2, <1>3, <1>4 DEF Logged

\* One call more of process r.
LEMMA HasMadeMore ==
    ASSUME Shape, NEW r \in Ranks, NEW b, NEW c, calls' = [calls EXCEPT ![r] = Append(@, [book |-> b, call |-> c])]
    PROVE  \A q \in Ranks : \A d : HasMade(calls'[q], d) <=> HasMade(calls[q], d) \/ (q = r /\ b = "p2p" /\ d = c)
<1> DEFINE e == [book |-> b, call |-> c]
<1>1. e.book = b /\ e.call = c
  OBVIOUS
<1> HIDE DEF e
<1>2. calls'[r] = Append(calls[r], e) /\ \A q \in Ranks \ {r} : calls'[q] = calls[q]
  BY DEF Shape, e
<1>3. /\ Len(calls[r]) \in Nat /\ Len(calls'[r]) = Len(calls[r]) + 1
      /\ \A k \in 1..Len(calls[r]) : calls'[r][k] = calls[r][k]
      /\ calls'[r][Len(calls[r]) + 1] = e
  BY <1>2, AppendIs, LenIsNat DEF Shape
<1>4. ASSUME NEW d PROVE HasMade(calls'[r], d) <=> HasMade(calls[r], d) \/ (b = "p2p" /\ d = c)
  <2>1. ASSUME HasMade(calls'[r], d) PROVE HasMade(calls[r], d) \/ (b = "p2p" /\ d = c)
    <3>1. PICK k \in 1..Len(calls'[r]) : calls'[r][k].book = "p2p" /\ calls'[r][k].call = d
      BY <2>1 DEF HasMade
    <3>2. k \in 1..Len(calls[r]) \/ k = Len(calls[r]) + 1
      BY <1>3, <3>1
    <3> QED
      BY <1>1, <1>3, <3>1, <3>2 DEF HasMade
  <2>2. ASSUME HasMade(calls[r], d) PROVE HasMade(calls'[r], d)
    <3>1. PICK k \in 1..Len(calls[r]) : calls[r][k].book = "p2p" /\ calls[r][k].call = d
      BY <2>2 DEF HasMade
    <3>2. k \in 1..Len(calls'[r])
      BY <1>3
    <3> QED
      BY <1>3, <3>1, <3>2 DEF HasMade
  <2>3. ASSUME b = "p2p", d = c PROVE HasMade(calls'[r], d)
    <3>1. Len(calls[r]) + 1 \in 1..Len(calls'[r])
      BY <1>3
    <3> QED
      BY <1>1, <1>3, <2>3, <3>1 DEF HasMade
  <2> QED
    BY <2>1, <2>2, <2>3
<1>5. ASSUME NEW q \in Ranks \ {r}, NEW d PROVE HasMade(calls'[q], d) <=> HasMade(calls[q], d)
  BY <1>2 DEF HasMade
<1> QED
  BY <1>4, <1>5

\* A call that the tracer books: LogsAreCalls.
LEMMA LogsTraceStep ==
    ASSUME IInv, LogsAreCalls, NEW r \in Ranks, NEW b \in Logs, NEW c, Trace(r, b, c)
    PROVE  LogsAreCalls'
<1> DEFINE books == Noted(mem[r], b, c)
           i == Entry(mem[r][b], c)
           bs == Due(books, b)
<1>1. Shape /\ bs \in SUBSET Books /\ "p2p" \in Books /\ "p2p" \in Logs
  BY DEF IInv, Due, Books, Logs
<1>2. calls' = [calls EXCEPT ![r] = Append(@, [book |-> b, call |-> c])] /\ Write(r, books, bs)
  BY DEF Trace
<1>3. HasNoted(books, r, b, c, i)
  BY <1>1, NotedIs
<1>4. PICK written \in SUBSET bs : HasWritten(r, books, bs, written)
  BY <1>1, <1>2, WriteIs
<1> HIDE DEF books, i, bs
<1>5. Entries(r, "p2p")' = file[r]["p2p"] \o books["p2p"]
  <2>1. /\ mem'[r]["p2p"] = IF "p2p" \in written THEN <<>> ELSE books["p2p"]
        /\ file'[r]["p2p"] = IF "p2p" \in written THEN file[r]["p2p"] \o books["p2p"] ELSE file[r]["p2p"]
    BY <1>1, <1>4 DEF HasWritten
  <2>2. IsSequence(file[r]["p2p"]) /\ IsSequence(books["p2p"])
    BY <1>1, <1>3 DEF Shape, HasNoted
  <2>3. IsSequence(file[r]["p2p"] \o books["p2p"])
    BY <2>2, ConcatIs
  <2>4. (file[r]["p2p"] \o books["p2p"]) \o <<>> = file[r]["p2p"] \o books["p2p"]
    BY <2>3, ConcatEmpty
  <2> QED
    BY <2>1, <2>4 DEF Entries
<1>6. /\ IsSequence(file[r]["p2p"]) /\ IsSequence(mem[r]["p2p"]) /\ IsSequence(books["p2p"])
      /\ IsLog(mem[r]["p2p"])
  BY <1>1, <1>3 DEF Shape, HasNoted
<1>7. \A d : Logged(books["p2p"], d) <=> Logged(mem[r]["p2p"], d) \/ (b = "p2p" /\ d = c)
  <2>1. CASE b = "p2p"
    <3>1. i = Entry(mem[r]["p2p"], c) /\ books["p2p"] = Counted(mem[r]["p2p"], i, c)
      BY <2>1, <1>3 DEF HasNoted, i
    <3> QED
      BY <2>1, <3>1, <1>6, LoggedCounted
  <2>2. CASE b # "p2p"
    <3>1. books["p2p"] = mem[r]["p2p"]
      BY <2>2, <1>1, <1>3 DEF HasNoted
    <3> QED
      BY <2>2, <3>1
  <2> QED
    BY <2>1, <2>2
<1>8. \A d : Logged(Entries(r, "p2p")', d) <=> Logged(Entries(r, "p2p"), d) \/ (b = "p2p" /\ d = c)
  BY <1>5, <1>6, <1>7, LoggedConcat DEF Entries
<1>9. ASSUME NEW q \in Ranks, q # r PROVE Entries(q, "p2p")' = Entries(q, "p2p")
  BY <1>4, <1>9 DEF Entries, HasWritten
<1>10. \A q \in Ranks : \A d : HasMade(calls'[q], d) <=> HasMade(calls[q], d) \/ (q = r /\ b = "p2p" /\ d = c)
  BY <1>1, <1>2, HasMadeMore
<1>11. ASSUME NEW q \in Ranks, NEW d
       PROVE  Logged(Entries(q, "p2p")', d) <=> HasMade(calls'[q], d)
  BY <1>8, <1>9, <1>10 DEF LogsAreCalls
<1>12. \A q \in Ranks : \A d : Logged(Entries(q, "p2p"), d)' <=> Logged(Entries(q, "p2p")', d)
  BY DEF Logged
<1> QED
  BY <1>11, <1>12 DEF LogsAreCalls

-------------------------------------------------------------------------------
(* The order of the messages                                                   *)

PartnersOf(c) == Partners(c[1], c[2], c[3])
SendCall(c, m) == P2P(m.type, m.site, <<PartnersOf(c)>>)

\* Different channels have different partners.
LEMMA OneChannel ==
    ASSUME NEW b \in Channels, NEW c \in Channels, PartnersOf(b) = PartnersOf(c)
    PROVE  b = c
<1>1. b[1] = c[1] /\ b[2] = c[2] /\ b[3] = c[3]
  BY DEF PartnersOf, Partners
<1>2. b = <<b[1], b[2], b[3]>> /\ c = <<c[1], c[2], c[3]>>
  BY DEF Channels
<1> QED
  BY <1>1, <1>2

\* The i-th message of channel c is sent by the f[i]-th call of its source, in order, and
\* by no other calls.
SendOrder(f, c, cs, ms) ==
    /\ \A i \in 1..Len(ms) : /\ f[i] \in 1..Len(cs) /\ cs[f[i]].book = "p2p"
                             /\ cs[f[i]].call = SendCall(c, ms[i])
    /\ \A i, j \in 1..Len(ms) : i < j => f[i] < f[j]
    /\ \A k \in 1..Len(cs) : cs[k].book = "p2p" /\ Answers(cs[k].call, PartnersOf(c)) =>
          \E i \in 1..Len(ms) : f[i] = k
SendsInOrder == \A c \in Channels : \E f : SendOrder(f, c, calls[c[1]], sent[c])

\* The i-th receive of channel c to complete is the h[i]-th request of the g[i]-th call of
\* its destination, in order, and there are no other requests to receive from it.
IsRequest(cs, k, j, p) == /\ cs[k].book = "p2p" /\ IsReceive(cs[k].call)
                          /\ j \in 1..Len(cs[k].call.partners) /\ cs[k].call.partners[j] = p
Before(k, j, l, m) == k < l \/ (k = l /\ j < m)
ReceiveOrder(g, h, c, cs, rs) ==
    /\ \A i \in 1..Len(rs) : /\ g[i] \in 1..Len(cs) /\ IsRequest(cs, g[i], h[i], PartnersOf(c))
                             /\ cs[g[i]].call.type = rs[i].type /\ cs[g[i]].call.site = rs[i].site
    /\ \A i, j \in 1..Len(rs) : i < j => Before(g[i], h[i], g[j], h[j])
    /\ \A k \in 1..Len(cs) : \A j : IsRequest(cs, k, j, PartnersOf(c)) =>
          \E i \in 1..Len(rs) : g[i] = k /\ h[i] = j
ReceivesInOrder ==
    \A c \in Channels : c[1] # c[2] =>
        \E g, h : ReceiveOrder(g, h, c, calls[c[2]], received[c])

\* The indices of a concatenation.
Parts(s, t, u) ==
    /\ IsSequence(u) /\ Len(u) = Len(s) + Len(t) /\ Len(s) \in Nat /\ Len(t) \in Nat
    /\ \A i \in 1..Len(s) : i \in 1..Len(u) /\ u[i] = s[i]
    /\ \A i \in 1..Len(t) : Len(s) + i \in 1..Len(u) /\ u[Len(s) + i] = t[i]
    /\ \A i \in 1..Len(u) : i \in 1..Len(s) \/ \E k \in 1..Len(t) : i = Len(s) + k

\* The two parts of a concatenation.
LEMMA ConcatParts ==
    ASSUME NEW s, NEW t, NEW u, IsSequence(s), IsSequence(t), u = s \o t
    PROVE  Parts(s, t, u)
<1> DEFINE m == Len(s)
           n == Len(t)
<1>1. /\ m \in Nat /\ n \in Nat /\ IsSequence(u) /\ Len(u) = m + n
      /\ \A i \in 1..(m + n) : u[i] = IF i <= m THEN s[i] ELSE t[i - m]
  BY ConcatIs, LenIsNat
<1> HIDE DEF m, n
<1>2. \A i \in 1..m : i \in 1..(m + n) /\ u[i] = s[i]
  BY <1>1
<1>3. ASSUME NEW i \in 1..n PROVE m + i \in 1..(m + n) /\ u[m + i] = t[i]
  <2>1. m + i \in 1..(m + n) /\ ~ (m + i <= m) /\ m + i - m = i
    BY <1>1
  <2> QED
    BY <1>1, <2>1
<1>4. ASSUME NEW i \in 1..(m + n) PROVE i \in 1..m \/ \E k \in 1..n : i = m + k
  <2>1. CASE ~ (i <= m)
    <3>1. i - m \in 1..n /\ i = m + (i - m)
      BY <1>1, <2>1
    <3> QED
      BY <3>1
  <2>2. CASE i <= m
    BY <1>1, <2>2
  <2> QED
    BY <2>1, <2>2
<1> QED
  BY <1>1, <1>2, <1>3, <1>4 DEF m, n, Parts

\* One element more, at the end of a sequence.
IsMore(s, t, e) ==
    /\ Len(s) \in Nat /\ Len(t) = Len(s) + 1 /\ t[Len(s) + 1] = e
    /\ \A i \in 1..Len(s) : i \in 1..Len(t) /\ t[i] = s[i]
    /\ \A i \in 1..Len(t) : i \in 1..Len(s) \/ i = Len(s) + 1
    /\ Len(s) + 1 \in 1..Len(t)
\* What Append does.
LEMMA AppendIsMore ==
    ASSUME NEW s, NEW t, NEW e, IsSequence(s), t = Append(s, e)
    PROVE  IsMore(s, t, e)
<1>1. Len(s) \in Nat
  BY LenIsNat
<1>2. Len(t) = Len(s) + 1 /\ t[Len(s) + 1] = e /\ \A i \in 1..Len(s) : t[i] = s[i]
  BY AppendIs
<1> QED
  BY <1>1, <1>2 DEF IsMore

\* A call that sends no message of the channel, and one that does.
LEMMA OtherSend ==
    ASSUME NEW c, NEW f, NEW cs, NEW ds, NEW e, NEW ms, IsMore(cs, ds, e), SendOrder(f, c, cs, ms),
           ~ (e.book = "p2p" /\ Answers(e.call, PartnersOf(c)))
    PROVE  SendOrder(f, c, ds, ms)
<1>1. \A i \in 1..Len(ms) : /\ f[i] \in 1..Len(ds) /\ ds[f[i]].book = "p2p"
                            /\ ds[f[i]].call = SendCall(c, ms[i])
  BY DEF SendOrder, IsMore
<1>2. \A k \in 1..Len(ds) : ds[k].book = "p2p" /\ Answers(ds[k].call, PartnersOf(c)) =>
         \E i \in 1..Len(ms) : f[i] = k
  BY DEF SendOrder, IsMore
<1> QED
  BY <1>1, <1>2 DEF SendOrder

\* A call that sends one more message of the channel.
LEMMA OneSend ==
    ASSUME NEW c, NEW f, NEW cs, NEW ds, NEW e, NEW ms, NEW ns, NEW m,
           IsMore(cs, ds, e), SendOrder(f, c, cs, ms), IsMore(ms, ns, m),
           e.book = "p2p", e.call = SendCall(c, m)
    PROVE  \E g : SendOrder(g, c, ds, ns)
<1> DEFINE n == Len(ms) + 1
           g == [i \in 1..n |-> IF i = n THEN Len(cs) + 1 ELSE f[i]]
<1>1. Len(ms) \in Nat /\ Len(cs) \in Nat /\ Len(ns) = n
  BY DEF IsMore
<1>2. g[n] = Len(cs) + 1 /\ \A i \in 1..Len(ms) : g[i] = f[i]
  BY <1>1
<1>3. \A i \in 1..Len(ns) : i \in 1..Len(ms) \/ i = n
  BY <1>1
<1> HIDE DEF g, n
<1>4. \A i \in 1..Len(ms) : /\ g[i] \in 1..Len(cs) /\ cs[g[i]].book = "p2p"
                            /\ cs[g[i]].call = SendCall(c, ms[i]) /\ ns[i] = ms[i]
                            /\ ds[g[i]] = cs[g[i]] /\ g[i] \in 1..Len(ds)
  BY <1>2 DEF SendOrder, IsMore
<1>5. g[n] \in 1..Len(ds) /\ ds[g[n]] = e /\ ns[n] = m /\ n \in 1..Len(ns)
  BY <1>2 DEF IsMore, n
<1>6. \A i \in 1..Len(ns) : /\ g[i] \in 1..Len(ds) /\ ds[g[i]].book = "p2p"
                            /\ ds[g[i]].call = SendCall(c, ns[i])
  BY <1>3, <1>4, <1>5
<1>7. ASSUME NEW i \in 1..Len(ns), NEW j \in 1..Len(ns), i < j PROVE g[i] < g[j]
  <2>1. CASE j = n
    <3>1. i \in 1..Len(ms)
      BY <1>1, <1>3, <1>7, <2>1 DEF n
    <3>2. g[i] \in 1..Len(cs) /\ g[j] = Len(cs) + 1
      BY <1>2, <1>4, <2>1, <3>1
    <3> QED
      BY <1>1, <3>2
  <2>2. CASE j # n
    <3>1. i \in 1..Len(ms) /\ j \in 1..Len(ms)
      BY <1>1, <1>3, <1>7, <2>2 DEF n
    <3> QED
      BY <1>2, <1>7, <3>1 DEF SendOrder
  <2> QED
    BY <2>1, <2>2
<1>8. ASSUME NEW k \in 1..Len(ds), ds[k].book = "p2p" /\ Answers(ds[k].call, PartnersOf(c))
      PROVE  \E i \in 1..Len(ns) : g[i] = k
  <2>1. CASE k \in 1..Len(cs)
    <3>1. cs[k] = ds[k]
      BY <2>1 DEF IsMore
    <3>2. PICK i \in 1..Len(ms) : f[i] = k
      BY <1>8, <2>1, <3>1 DEF SendOrder
    <3>3. i \in 1..Len(ns)
      BY DEF IsMore
    <3> QED
      BY <1>2, <3>2, <3>3
  <2>2. CASE k \notin 1..Len(cs)
    <3>1. k = Len(cs) + 1
      BY <2>2 DEF IsMore
    <3> QED
      BY <1>2, <1>5, <3>1
  <2> QED
    BY <2>1, <2>2
<1> QED
  BY <1>6, <1>7, <1>8 DEF SendOrder

\* A call that asks for no message of the channel.
LEMMA OtherReceive ==
    ASSUME NEW c, NEW g, NEW h, NEW cs, NEW ds, NEW e, NEW rs, IsMore(cs, ds, e),
           ReceiveOrder(g, h, c, cs, rs),
           \A j : ~ IsRequest(ds, Len(cs) + 1, j, PartnersOf(c))
    PROVE  ReceiveOrder(g, h, c, ds, rs)
<1>1. \A k \in 1..Len(cs) : \A j : IsRequest(ds, k, j, PartnersOf(c)) <=> IsRequest(cs, k, j, PartnersOf(c))
  BY DEF IsRequest, IsMore
<1>2. \A i \in 1..Len(rs) : /\ g[i] \in 1..Len(ds) /\ IsRequest(ds, g[i], h[i], PartnersOf(c))
                            /\ ds[g[i]].call.type = rs[i].type /\ ds[g[i]].call.site = rs[i].site
  BY <1>1 DEF ReceiveOrder, IsMore
<1>3. \A k \in 1..Len(ds) : \A j : IsRequest(ds, k, j, PartnersOf(c)) =>
         \E i \in 1..Len(rs) : g[i] = k /\ h[i] = j
  BY <1>1 DEF ReceiveOrder, IsMore
<1> QED
  BY <1>2, <1>3 DEF ReceiveOrder

\* A call whose requests, in their order, got the messages ts.
Gets(d, p, ts, o) ==
    /\ \A i \in 1..Len(ts) : /\ o[i] \in 1..Len(d.partners) /\ d.partners[o[i]] = p
                             /\ ts[i].type = d.type /\ ts[i].site = d.site
    /\ \A i, j \in 1..Len(ts) : i < j => o[i] < o[j]
    /\ \A j \in 1..Len(d.partners) : d.partners[j] = p => \E i \in 1..Len(ts) : o[i] = j

\* A call that completes receives, those of a channel in the order in which it names them.
Orders(r, d, got) ==
    \A c \in Channels : c[1] # c[2] =>
        IF c[2] = r THEN \E o : Gets(d, PartnersOf(c), got[c], o) ELSE got[c] = <<>>

\* A call that completes more receives of the channel.
LEMMA OneReceive ==
    ASSUME NEW c, NEW g, NEW h, NEW o, NEW cs, NEW ds, NEW e, NEW rs, NEW ts, NEW us,
           IsMore(cs, ds, e), ReceiveOrder(g, h, c, cs, rs), Parts(rs, ts, us),
           e.book = "p2p", IsReceive(e.call), Gets(e.call, PartnersOf(c), ts, o)
    PROVE  \E a, b : ReceiveOrder(a, b, c, ds, us)
<1> DEFINE n == Len(rs)
           p == PartnersOf(c)
<1>1. /\ n \in Nat /\ Len(cs) \in Nat /\ Len(ts) \in Nat
      /\ \A i \in 1..n : i \in 1..Len(us) /\ us[i] = rs[i]
      /\ \A i \in 1..Len(ts) : n + i \in 1..Len(us) /\ us[n + i] = ts[i]
      /\ \A i \in 1..Len(us) : i \in 1..n \/ \E k \in 1..Len(ts) : i = n + k
  BY DEF Parts, IsMore
<1> HIDE DEF n, p
<1>a. PICK a : a = [i \in 1..Len(us) |-> IF i <= n THEN g[i] ELSE Len(cs) + 1]
  OBVIOUS
<1>b. PICK b : b = [i \in 1..Len(us) |-> IF i <= n THEN h[i] ELSE o[i - n]]
  OBVIOUS
<1>2. \A i \in 1..n : a[i] = g[i] /\ b[i] = h[i]
  BY <1>1, <1>a, <1>b
<1>3. ASSUME NEW i \in 1..Len(ts) PROVE a[n + i] = Len(cs) + 1 /\ b[n + i] = o[i]
  <2>1. n + i \in 1..Len(us) /\ ~ (n + i <= n) /\ n + i - n = i
    BY <1>1
  <2>2. a[n + i] = Len(cs) + 1
    BY <2>1, <1>a
  <2>3. PICK x \in 1..Len(us) : x = n + i /\ ~ (x <= n) /\ x - n = i
    BY <1>1, <2>1
  <2>4. b[x] = o[x - n]
    BY <2>3, <1>b
  <2> QED
    BY <2>2, <2>3, <2>4
<1>4. \A k \in 1..Len(cs) : \A j : IsRequest(ds, k, j, p) <=> IsRequest(cs, k, j, p)
  BY DEF IsRequest, IsMore
<1>5. \A j : IsRequest(ds, Len(cs) + 1, j, p) <=> j \in 1..Len(e.call.partners) /\ e.call.partners[j] = p
  BY DEF IsRequest, IsMore
<1>6. ASSUME NEW i \in 1..Len(us)
      PROVE  /\ a[i] \in 1..Len(ds) /\ IsRequest(ds, a[i], b[i], p)
             /\ ds[a[i]].call.type = us[i].type /\ ds[a[i]].call.site = us[i].site
  <2>1. CASE i \in 1..n
    <3>1. /\ g[i] \in 1..Len(cs) /\ IsRequest(cs, g[i], h[i], p)
          /\ cs[g[i]].call.type = rs[i].type /\ cs[g[i]].call.site = rs[i].site
      BY <2>1 DEF ReceiveOrder, n, p
    <3>2. g[i] \in 1..Len(ds) /\ ds[g[i]] = cs[g[i]]
      BY <3>1 DEF IsMore
    <3> QED
      BY <1>1, <1>2, <1>4, <2>1, <3>1, <3>2
  <2>2. CASE i \notin 1..n
    <3>1. PICK k \in 1..Len(ts) : i = n + k
      BY <1>1, <2>2
    <3>2. a[i] = Len(cs) + 1 /\ b[i] = o[k] /\ us[i] = ts[k]
      BY <1>1, <1>3, <3>1
    <3>3. Len(cs) + 1 \in 1..Len(ds) /\ ds[Len(cs) + 1] = e
      BY DEF IsMore
    <3>4. /\ o[k] \in 1..Len(e.call.partners) /\ e.call.partners[o[k]] = p
          /\ ts[k].type = e.call.type /\ ts[k].site = e.call.site
      BY DEF Gets, p
    <3> QED
      BY <1>5, <3>2, <3>3, <3>4
  <2> QED
    BY <2>1, <2>2
<1>7. ASSUME NEW i \in 1..Len(us), NEW j \in 1..Len(us), i < j
      PROVE  Before(a[i], b[i], a[j], b[j])
  <2>1. CASE j \in 1..n
    <3>1. i \in 1..n
      BY <1>1, <1>7, <2>1
    <3> QED
      BY <1>2, <1>7, <2>1, <3>1 DEF ReceiveOrder, n
  <2>2. CASE i \in 1..n /\ j \notin 1..n
    <3>0. \A x \in 1..n : g[x] \in 1..Len(cs)
      BY DEF ReceiveOrder, n
    <3>2. a[i] \in 1..Len(cs)
      BY <1>2, <2>2, <3>0
    <3>3. PICK k \in 1..Len(ts) : j = n + k
      BY <1>1, <2>2
    <3>1. a[i] \in 1..Len(cs) /\ a[j] = Len(cs) + 1
      BY <1>3, <3>2, <3>3
    <3> QED
      BY <1>1, <3>1 DEF Before
  <2>3. CASE i \notin 1..n /\ j \notin 1..n
    <3>1. PICK k \in 1..Len(ts) : i = n + k
      BY <1>1, <2>3
    <3>2. PICK l \in 1..Len(ts) : j = n + l
      BY <1>1, <2>3
    <3>3. k < l
      BY <1>1, <1>7, <3>1, <3>2
    <3>4. o[k] < o[l]
      BY <3>3 DEF Gets
    <3> QED
      BY <1>3, <3>1, <3>2, <3>4 DEF Before
  <2> QED
    BY <1>1, <1>7, <2>1, <2>2, <2>3
<1>8. ASSUME NEW k \in 1..Len(ds), NEW j, IsRequest(ds, k, j, p)
      PROVE  \E i \in 1..Len(us) : a[i] = k /\ b[i] = j
  <2>1. CASE k \in 1..Len(cs)
    <3>1. PICK i \in 1..n : g[i] = k /\ h[i] = j
      BY <1>4, <1>8, <2>1 DEF ReceiveOrder, n, p
    <3> QED
      BY <1>1, <1>2, <3>1
  <2>2. CASE k \notin 1..Len(cs)
    <3>1. k = Len(cs) + 1
      BY <2>2 DEF IsMore
    <3>2. PICK i \in 1..Len(ts) : o[i] = j
      BY <1>5, <1>8, <3>1 DEF Gets, p
    <3> QED
      BY <1>1, <1>3, <3>1, <3>2
  <2> QED
    BY <2>1, <2>2
<1>9. ReceiveOrder(a, b, c, ds, us)
  BY <1>6, <1>7, <1>8 DEF ReceiveOrder, p
<1> QED
  BY <1>9

-------------------------------------------------------------------------------
(* What the calls say of the messages                                          *)

\* The state of the program and of MPI.
World ==
    /\ program \in [Ranks -> Seq(Op)] /\ at \in [Ranks -> Nat]
    /\ sent \in [Channels -> Seq([type : {"s", "S"}, site : Sites])] /\ posted \in [Channels -> Nat]
    /\ DOMAIN received = Channels /\ \A c \in Channels : IsSequence(received[c])
    /\ DOMAIN active = Ranks /\ DOMAIN requests = Ranks
    /\ \A r \in Ranks : DOMAIN active[r] = DOMAIN requests[r]

\* A request to receive is for the channel that its entry names; that of a request to send
\* names the process itself.
RequestsNameChannels ==
    \A r \in Ranks : \A q \in DOMAIN active[r] :
        IF active[r][q].recv
        THEN /\ active[r][q].channel \in Channels /\ active[r][q].nth \in Nat \ {0}
             /\ active[r][q].channel = <<requests[r][q].source, r, requests[r][q].tag>>
        ELSE requests[r][q].source = r

IsSend(c) == c.type \in {"s", "S"}

\* The messages sent are the calls made to send.
SendsAreMade == \A c \in Channels : \A i \in 1..Len(sent[c]) : HasMade(calls[c[1]], SendCall(c, sent[c][i]))
MadeAreSends ==
    \A r \in Ranks : \A d : HasMade(calls[r], d) /\ IsSend(d) =>
        \E c \in Channels : c[1] = r /\ \E i \in 1..Len(sent[c]) : d = SendCall(c, sent[c][i])

\* The receives that completed are the messages the calls to receive name.
Names(d, p) == \E j \in 1..Len(d.partners) : d.partners[j] = p
ReceivesAreMade ==
    \A c \in Channels : \A i \in 1..Len(received[c]) :
        /\ received[c][i].nth \in 1..Len(sent[c])
        /\ \E d : /\ HasMade(calls[c[2]], d) /\ Names(d, PartnersOf(c)) /\ IsReceive(d)
                  /\ d.type = received[c][i].type /\ d.site = received[c][i].site
MadeAreReceives ==
    \A r \in Ranks : \A d : HasMade(calls[r], d) /\ IsReceive(d) =>
        /\ d.site \in Sites
        /\ \A p : Names(d, p) /\ IsMessage(p) =>
              \E c \in Channels : /\ c[2] = r /\ p = PartnersOf(c)
                                  /\ \E i \in 1..Len(received[c]) : /\ received[c][i].type = d.type
                                                                    /\ received[c][i].site = d.site

MsgInv == /\ World /\ RequestsNameChannels
          /\ SendsAreMade /\ MadeAreSends /\ ReceivesAreMade /\ MadeAreReceives

\* The call that a process is in.
LEMMA CurrentIs ==
    ASSUME World, NEW r \in Ranks, NEW kind, Calling(r, kind)
    PROVE  Current(r) \in Op /\ To(r) \in Channels /\ From(r) \in Channels
<1>1. at[r] + 1 \in 1..Len(program[r]) /\ program[r] \in Seq(Op)
  BY DEF World, Calling
<1>2. Current(r) \in Op
  BY <1>1 DEF Current
<1> QED
  BY <1>2 DEF Op, To, From, Channels

\* A call to send.
LEMMA SendMsg ==
    ASSUME Shape, World, MsgInv, NEW r \in Ranks, NEW type \in {"s", "S"}, NEW kind, Calling(r, kind),
           Sends(r, type), RecordP2P(r, type, To(r)), UNCHANGED received
    PROVE  /\ sent' \in [Channels -> Seq([type : {"s", "S"}, site : Sites])] /\ posted' \in [Channels -> Nat]
           /\ SendsAreMade' /\ MadeAreSends' /\ ReceivesAreMade' /\ MadeAreReceives'
<1> DEFINE to == To(r)
           m == [type |-> type, site |-> Current(r).site]
           d == SendCall(to, m)
<1>1. Current(r) \in Op /\ to \in Channels /\ to[1] = r
  BY CurrentIs DEF To
<1>2. m \in [type : {"s", "S"}, site : Sites]
  BY <1>1 DEF Op
<1>3. calls' = [calls EXCEPT ![r] = Append(@, [book |-> "p2p", call |-> d])]
  BY DEF RecordP2P, Trace, SendCall, PartnersOf
<1>4. \A q \in Ranks : \A e : HasMade(calls'[q], e) <=> HasMade(calls[q], e) \/ (q = r /\ e = d)
  <2> HIDE DEF d
  <2> QED
    BY <1>3, HasMadeMore, ZenonT(60)
<1>5. sent' = [sent EXCEPT ![to] = Append(sent[to], m)] /\ posted' = posted
  BY DEF Sends
<1>6. IsSend(d) /\ ~ IsReceive(d)
  BY DEF IsSend, IsReceive, SendCall, P2P
<1>61. d = SendCall(to, m)
  OBVIOUS
<1> HIDE DEF to, m, d
<1>7. /\ \A c \in Channels : c # to => sent'[c] = sent[c]
      /\ Len(sent[to]) \in Nat /\ Len(sent'[to]) = Len(sent[to]) + 1
      /\ \A i \in 1..Len(sent[to]) : sent'[to][i] = sent[to][i]
      /\ sent'[to][Len(sent[to]) + 1] = m
      /\ sent' \in [Channels -> Seq([type : {"s", "S"}, site : Sites])]
  <2>1. sent \in [Channels -> Seq([type : {"s", "S"}, site : Sites])]
    BY DEF World
  <2>2. sent[to] \in Seq([type : {"s", "S"}, site : Sites])
    BY <1>1, <2>1
  <2> DEFINE M == [type : {"s", "S"}, site : Sites]
  <2> HIDE DEF M
  <2>3. sent \in [Channels -> Seq(M)] /\ sent[to] \in Seq(M) /\ m \in M
    BY <1>2, <2>1, <2>2 DEF M
  <2>4. Append(sent[to], m) \in Seq(M)
    BY <2>3
  <2>5. sent' \in [Channels -> Seq(M)] /\ sent'[to] = Append(sent[to], m)
    BY <1>1, <1>5, <2>3, <2>4
  <2>6. /\ Len(sent[to]) \in Nat /\ Len(sent'[to]) = Len(sent[to]) + 1
        /\ \A i \in 1..Len(sent[to]) : sent'[to][i] = sent[to][i]
        /\ sent'[to][Len(sent[to]) + 1] = m
    BY <2>3, <2>5
  <2>7. \A c \in Channels : c # to => sent'[c] = sent[c]
    BY <1>5, <2>3
  <2> QED
    BY <2>5, <2>6, <2>7 DEF M
<1>8. \A c \in Channels : \A i \in 1..Len(sent[c]) : i \in 1..Len(sent'[c]) /\ sent'[c][i] = sent[c][i]
  <2> TAKE c \in Channels
  <2> TAKE i \in 1..Len(sent[c])
  <2>1. CASE c # to
    BY <1>7, <2>1
  <2>2. CASE c = to
    BY <1>7, <2>2
  <2> QED
    BY <2>1, <2>2
<1>9. SendsAreMade'
  <2> SUFFICES ASSUME NEW c \in Channels, NEW i \in 1..Len(sent'[c])
               PROVE  HasMade(calls'[c[1]], SendCall(c, sent'[c][i]))
    BY DEF SendsAreMade
  <2>0. c[1] \in Ranks
    BY DEF Channels
  <2>1. CASE i \in 1..Len(sent[c])
    <3>1. HasMade(calls[c[1]], SendCall(c, sent[c][i]))
      BY <2>1 DEF MsgInv, SendsAreMade
    <3> QED
      BY <1>4, <1>8, <2>0, <2>1, <3>1
  <2>2. CASE i \notin 1..Len(sent[c])
    <3>1. c = to /\ sent'[c][i] = m
      BY <1>7, <2>2
    <3> QED
      BY <1>1, <1>4, <1>61, <3>1
  <2> QED
    BY <2>1, <2>2
<1>10. MadeAreSends'
  <2> SUFFICES ASSUME NEW q \in Ranks, NEW e, HasMade(calls'[q], e), IsSend(e)
               PROVE  \E c \in Channels : c[1] = q /\ \E i \in 1..Len(sent'[c]) : e = SendCall(c, sent'[c][i])
    BY DEF MadeAreSends
  <2>1. CASE HasMade(calls[q], e)
    <3>1. PICK c \in Channels : c[1] = q /\ \E i \in 1..Len(sent[c]) : e = SendCall(c, sent[c][i])
      BY <2>1 DEF MsgInv, MadeAreSends
    <3> QED
      BY <1>8, <3>1
  <2>2. CASE q = r /\ e = d
    <3>1. Len(sent[to]) + 1 \in 1..Len(sent'[to])
      BY <1>7
    <3> QED
      BY <1>1, <1>7, <1>61, <2>2, <3>1
  <2> QED
    BY <1>4, <2>1, <2>2
<1>11. ReceivesAreMade'
  <2> SUFFICES ASSUME NEW c \in Channels, NEW i \in 1..Len(received[c])
               PROVE  /\ received[c][i].nth \in 1..Len(sent'[c])
                      /\ \E e : /\ HasMade(calls'[c[2]], e) /\ Names(e, PartnersOf(c)) /\ IsReceive(e)
                                /\ e.type = received[c][i].type /\ e.site = received[c][i].site
    BY DEF ReceivesAreMade
  <2>0. c[2] \in Ranks
    BY DEF Channels
  <2> QED
    BY <1>4, <1>8, <2>0, ZenonT(60) DEF MsgInv, ReceivesAreMade
<1>12. MadeAreReceives'
  <2> SUFFICES ASSUME NEW q \in Ranks, NEW e, HasMade(calls'[q], e), IsReceive(e)
               PROVE  /\ e.site \in Sites
                      /\ \A p : Names(e, p) /\ IsMessage(p) =>
                            \E c \in Channels : /\ c[2] = q /\ p = PartnersOf(c)
                                                /\ \E i \in 1..Len(received[c]) : /\ received[c][i].type = e.type
                                                                                  /\ received[c][i].site = e.site
    BY DEF MadeAreReceives
  <2>1. HasMade(calls[q], e)
    BY <1>4, <1>6
  <2> QED
    BY <2>1 DEF MsgInv, MadeAreReceives
<1>13. posted' \in [Channels -> Nat]
  BY <1>5 DEF World
<1> QED
  BY <1>7, <1>9, <1>10, <1>11, <1>12, <1>13

\* A call of process r that is none to send, after which the receives got[c] of each
\* channel c completed.
Appends(got) == \A c \in Channels : IsSequence(got[c]) /\ received'[c] = received[c] \o got[c]
Completes(r, d, got) ==
    /\ ~ IsSend(d) /\ (IsReceive(d) => d.site \in Sites)
    /\ \A c \in Channels : \A i \in 1..Len(got[c]) :
          /\ IsReceive(d) /\ c[2] = r /\ Names(d, PartnersOf(c))
          /\ got[c][i].nth \in 1..Len(sent[c])
          /\ got[c][i].type = d.type /\ got[c][i].site = d.site
    /\ IsReceive(d) => \A p : Names(d, p) /\ IsMessage(p) =>
          \E c \in Channels : c[2] = r /\ p = PartnersOf(c) /\ Len(got[c]) >= 1

Makes(r, d) == calls' = [calls EXCEPT ![r] = Append(@, [book |-> "p2p", call |-> d])]

\* A call to receive keeps MsgInv if the messages it got are those it names.
LEMMA ReceiveMsg ==
    ASSUME Shape, MsgInv, NEW r \in Ranks, NEW d, NEW got, Makes(r, d),
           sent' = sent, Appends(got), Completes(r, d, got)
    PROVE  /\ \A c \in Channels : IsSequence(received'[c])
           /\ SendsAreMade' /\ MadeAreSends' /\ ReceivesAreMade' /\ MadeAreReceives'
<1>1. \A q \in Ranks : \A e : HasMade(calls'[q], e) <=> HasMade(calls[q], e) \/ (q = r /\ e = d)
  BY HasMadeMore DEF Makes
<1>2. \A c \in Channels : IsSequence(received[c]) /\ c[1] \in Ranks /\ c[2] \in Ranks
  BY DEF MsgInv, World, Channels
<1>3. ASSUME NEW c \in Channels
      PROVE  /\ IsSequence(received'[c])
             /\ \A i \in 1..Len(received[c]) :
                   i \in 1..Len(received'[c]) /\ received'[c][i] = received[c][i]
             /\ \A i \in 1..Len(got[c]) :
                   /\ Len(received[c]) + i \in 1..Len(received'[c])
                   /\ received'[c][Len(received[c]) + i] = got[c][i]
             /\ \A i \in 1..Len(received'[c]) :
                   i \in 1..Len(received[c]) \/ \E k \in 1..Len(got[c]) : i = Len(received[c]) + k
             /\ Len(got[c]) \in Nat
  <2>1. IsSequence(received[c]) /\ IsSequence(got[c]) /\ received'[c] = received[c] \o got[c]
    BY <1>2 DEF Appends
  <2>2. Parts(received[c], got[c], received'[c])
    BY <2>1, ConcatParts
  <2> QED
    BY <2>1, <2>2 DEF Parts
<1>4. SendsAreMade'
  BY <1>1, <1>2 DEF MsgInv, SendsAreMade
<1>5. MadeAreSends'
  BY <1>1 DEF MsgInv, MadeAreSends, Completes
<1>6. ReceivesAreMade'
  <2> SUFFICES ASSUME NEW c \in Channels, NEW i \in 1..Len(received'[c])
               PROVE  /\ received'[c][i].nth \in 1..Len(sent[c])
                      /\ \E e : /\ HasMade(calls'[c[2]], e) /\ Names(e, PartnersOf(c)) /\ IsReceive(e)
                                /\ e.type = received'[c][i].type /\ e.site = received'[c][i].site
    BY DEF ReceivesAreMade
  <2>1. CASE i \in 1..Len(received[c])
    <3>1. received'[c][i] = received[c][i] /\ c[2] \in Ranks
      BY <1>2, <1>3, <2>1
    <3>2. /\ received[c][i].nth \in 1..Len(sent[c])
          /\ \E e : /\ HasMade(calls[c[2]], e) /\ Names(e, PartnersOf(c)) /\ IsReceive(e)
                    /\ e.type = received[c][i].type /\ e.site = received[c][i].site
      BY <2>1 DEF MsgInv, ReceivesAreMade
    <3> QED
      BY <1>1, <3>1, <3>2
  <2>2. CASE i \notin 1..Len(received[c])
    <3>1. PICK k \in 1..Len(got[c]) : i = Len(received[c]) + k
      BY <1>3, <2>2
    <3>2. received'[c][i] = got[c][k]
      BY <1>3, <3>1
    <3> QED
      BY <1>1, <3>2 DEF Completes
  <2> QED
    BY <2>1, <2>2
<1>7. MadeAreReceives'
  <2> SUFFICES ASSUME NEW q \in Ranks, NEW e, HasMade(calls'[q], e), IsReceive(e)
               PROVE  /\ e.site \in Sites
                      /\ \A p : Names(e, p) /\ IsMessage(p) =>
                            \E c \in Channels : /\ c[2] = q /\ p = PartnersOf(c)
                                                /\ \E i \in 1..Len(received'[c]) :
                                                      /\ received'[c][i].type = e.type
                                                      /\ received'[c][i].site = e.site
    BY DEF MadeAreReceives
  <2>1. CASE HasMade(calls[q], e)
    <3>1. e.site \in Sites
      BY <2>1 DEF MsgInv, MadeAreReceives
    <3>2. ASSUME NEW p, Names(e, p), IsMessage(p)
          PROVE  \E c \in Channels : /\ c[2] = q /\ p = PartnersOf(c)
                                     /\ \E i \in 1..Len(received'[c]) : /\ received'[c][i].type = e.type
                                                                        /\ received'[c][i].site = e.site
      <4>1. PICK c \in Channels : /\ c[2] = q /\ p = PartnersOf(c)
                                  /\ \E i \in 1..Len(received[c]) : /\ received[c][i].type = e.type
                                                                    /\ received[c][i].site = e.site
        BY <2>1, <3>2 DEF MsgInv, MadeAreReceives
      <4>2. PICK i \in 1..Len(received[c]) : received[c][i].type = e.type /\ received[c][i].site = e.site
        BY <4>1
      <4>3. i \in 1..Len(received'[c]) /\ received'[c][i] = received[c][i]
        BY <1>3
      <4> QED
        BY <4>1, <4>2, <4>3
    <3> QED
      BY <3>1, <3>2
  <2>2. CASE q = r /\ e = d
    <3>1. ASSUME NEW p, Names(e, p), IsMessage(p)
          PROVE  \E c \in Channels : /\ c[2] = q /\ p = PartnersOf(c)
                                     /\ \E i \in 1..Len(received'[c]) : /\ received'[c][i].type = e.type
                                                                        /\ received'[c][i].site = e.site
      <4>1. PICK c \in Channels : c[2] = r /\ p = PartnersOf(c) /\ Len(got[c]) >= 1
        BY <2>2, <3>1 DEF Completes
      <4>2. 1 \in 1..Len(got[c])
        BY <1>3, <4>1
      <4>3. Len(received[c]) + 1 \in 1..Len(received'[c]) /\ received'[c][Len(received[c]) + 1] = got[c][1]
        BY <1>3, <4>2
      <4>4. got[c][1].type = d.type /\ got[c][1].site = d.site
        BY <4>2 DEF Completes
      <4> QED
        BY <2>2, <4>1, <4>2, <4>3, <4>4
    <3> QED
      BY <2>2, <3>1 DEF Completes
  <2> QED
    BY <1>1, <2>1, <2>2
<1> QED
  BY <1>3, <1>4, <1>5, <1>6, <1>7

\* A step without a call to send or to receive.
SameCalls == \A q \in Ranks : \A e : HasMade(calls'[q], e) <=> HasMade(calls[q], e)
\* A step without such a call keeps MsgInv.
LEMMA SameMsg ==
    ASSUME MsgInv, sent' = sent, received' = received,
           SameCalls
    PROVE  SendsAreMade' /\ MadeAreSends' /\ ReceivesAreMade' /\ MadeAreReceives'
<1>1. \A c \in Channels : c[1] \in Ranks /\ c[2] \in Ranks
  BY DEF Channels
<1>2. SendsAreMade'
  <2> SUFFICES ASSUME NEW c \in Channels, NEW i \in 1..Len(sent[c])
               PROVE  HasMade(calls'[c[1]], SendCall(c, sent[c][i]))
    BY DEF SendsAreMade
  <2>1. HasMade(calls[c[1]], SendCall(c, sent[c][i]))
    BY DEF MsgInv, SendsAreMade
  <2> QED
    BY <1>1, <2>1 DEF SameCalls
<1>3. MadeAreSends'
  <2> SUFFICES ASSUME NEW r \in Ranks, NEW d, HasMade(calls'[r], d), IsSend(d)
               PROVE  \E c \in Channels : c[1] = r /\ \E i \in 1..Len(sent[c]) : d = SendCall(c, sent[c][i])
    BY DEF MadeAreSends
  <2>1. HasMade(calls[r], d)
    BY DEF SameCalls
  <2> QED
    BY <2>1 DEF MsgInv, MadeAreSends
<1>4. ReceivesAreMade'
  <2> SUFFICES ASSUME NEW c \in Channels, NEW i \in 1..Len(received[c])
               PROVE  /\ received[c][i].nth \in 1..Len(sent[c])
                      /\ \E d : /\ HasMade(calls'[c[2]], d) /\ Names(d, PartnersOf(c)) /\ IsReceive(d)
                                /\ d.type = received[c][i].type /\ d.site = received[c][i].site
    BY DEF ReceivesAreMade
  <2>1. /\ received[c][i].nth \in 1..Len(sent[c])
        /\ \E d : /\ HasMade(calls[c[2]], d) /\ Names(d, PartnersOf(c)) /\ IsReceive(d)
                  /\ d.type = received[c][i].type /\ d.site = received[c][i].site
    BY DEF MsgInv, ReceivesAreMade
  <2> QED
    BY <1>1, <2>1 DEF SameCalls
<1>5. MadeAreReceives'
  <2> SUFFICES ASSUME NEW r \in Ranks, NEW d, HasMade(calls'[r], d), IsReceive(d)
               PROVE  /\ d.site \in Sites
                      /\ \A p : Names(d, p) /\ IsMessage(p) =>
                            \E c \in Channels : /\ c[2] = r /\ p = PartnersOf(c)
                                                /\ \E i \in 1..Len(received[c]) : /\ received[c][i].type = d.type
                                                                                  /\ received[c][i].site = d.site
    BY DEF MadeAreReceives
  <2>1. HasMade(calls[r], d)
    BY DEF SameCalls
  <2> QED
    BY <2>1 DEF MsgInv, MadeAreReceives
<1> QED
  BY <1>2, <1>3, <1>4, <1>5

\* The requests that a call sets or erases.
SetsRequest(r, q, a, n) ==
    active' = [active EXCEPT ![r] = Set(@, q, a)] /\ requests' = [requests EXCEPT ![r] = Set(@, q, n)]
Erases(r, ks) ==
    active' = [active EXCEPT ![r] = Without(@, ks)] /\ requests' = [requests EXCEPT ![r] = Without(@, ks)]

\* A request that is set for the channel it receives from keeps RequestsNameChannels.
LEMMA RequestSet ==
    ASSUME MsgInv, NEW r \in Ranks, NEW q, NEW a, NEW n, SetsRequest(r, q, a, n),
           IF a.recv THEN a.channel \in Channels /\ a.nth \in Nat \ {0} /\ a.channel = <<n.source, r, n.tag>>
           ELSE n.source = r
    PROVE  /\ DOMAIN active' = Ranks /\ DOMAIN requests' = Ranks
           /\ \A p \in Ranks : DOMAIN active'[p] = DOMAIN requests'[p]
           /\ RequestsNameChannels'
<1>1. /\ DOMAIN active = Ranks /\ DOMAIN requests = Ranks
      /\ \A p \in Ranks : DOMAIN active[p] = DOMAIN requests[p]
  BY DEF MsgInv, World
<1>2. /\ DOMAIN active' = Ranks /\ active'[r] = Set(active[r], q, a)
      /\ \A p \in Ranks : p # r => active'[p] = active[p]
  BY <1>1 DEF SetsRequest
<1>3. /\ DOMAIN requests' = Ranks /\ requests'[r] = Set(requests[r], q, n)
      /\ \A p \in Ranks : p # r => requests'[p] = requests[p]
  BY <1>1 DEF SetsRequest
<1>4. /\ DOMAIN active'[r] = DOMAIN active[r] \cup {q} /\ active'[r][q] = a
      /\ \A x \in DOMAIN active[r] : x # q => active'[r][x] = active[r][x]
  BY <1>2 DEF Set
<1>5. /\ DOMAIN requests'[r] = DOMAIN requests[r] \cup {q} /\ requests'[r][q] = n
      /\ \A x \in DOMAIN requests[r] : x # q => requests'[r][x] = requests[r][x]
  BY <1>3 DEF Set
<1>6. \A p \in Ranks : DOMAIN active'[p] = DOMAIN requests'[p]
  BY <1>1, <1>2, <1>3, <1>4, <1>5
<1>7. ASSUME NEW p \in Ranks, NEW x \in DOMAIN active'[p]
      PROVE  IF active'[p][x].recv
             THEN /\ active'[p][x].channel \in Channels /\ active'[p][x].nth \in Nat \ {0}
                  /\ active'[p][x].channel = <<requests'[p][x].source, p, requests'[p][x].tag>>
             ELSE requests'[p][x].source = p
  <2>1. CASE p = r /\ x = q
    BY <1>4, <1>5, <2>1
  <2>2. CASE ~ (p = r /\ x = q)
    <3>1. x \in DOMAIN active[p] /\ active'[p][x] = active[p][x] /\ requests'[p][x] = requests[p][x]
      BY <1>1, <1>2, <1>3, <1>4, <1>5, <2>2
    <3> QED
      BY <3>1 DEF MsgInv, RequestsNameChannels
  <2> QED
    BY <2>1, <2>2
<1> QED
  BY <1>2, <1>3, <1>6, <1>7 DEF RequestsNameChannels

\* Requests that are erased do, too.
LEMMA RequestsErased ==
    ASSUME MsgInv, NEW r \in Ranks, NEW ks, Erases(r, ks)
    PROVE  /\ DOMAIN active' = Ranks /\ DOMAIN requests' = Ranks
           /\ \A p \in Ranks : DOMAIN active'[p] = DOMAIN requests'[p]
           /\ RequestsNameChannels'
<1>1. /\ DOMAIN active = Ranks /\ DOMAIN requests = Ranks
      /\ \A p \in Ranks : DOMAIN active[p] = DOMAIN requests[p]
  BY DEF MsgInv, World
<1>2. /\ DOMAIN active' = Ranks /\ active'[r] = Without(active[r], ks)
      /\ \A p \in Ranks : p # r => active'[p] = active[p]
  BY <1>1 DEF Erases
<1>3. /\ DOMAIN requests' = Ranks /\ requests'[r] = Without(requests[r], ks)
      /\ \A p \in Ranks : p # r => requests'[p] = requests[p]
  BY <1>1 DEF Erases
<1>4. /\ DOMAIN active'[r] = DOMAIN active[r] \ ks
      /\ \A x \in DOMAIN active[r] \ ks : active'[r][x] = active[r][x]
  BY <1>2 DEF Without
<1>5. /\ DOMAIN requests'[r] = DOMAIN requests[r] \ ks
      /\ \A x \in DOMAIN requests[r] \ ks : requests'[r][x] = requests[r][x]
  BY <1>3 DEF Without
<1>6. \A p \in Ranks : DOMAIN active'[p] = DOMAIN requests'[p]
  BY <1>1, <1>2, <1>3, <1>4, <1>5
<1>7. ASSUME NEW p \in Ranks, NEW x \in DOMAIN active'[p]
      PROVE  IF active'[p][x].recv
             THEN /\ active'[p][x].channel \in Channels /\ active'[p][x].nth \in Nat \ {0}
                  /\ active'[p][x].channel = <<requests'[p][x].source, p, requests'[p][x].tag>>
             ELSE requests'[p][x].source = p
  <2>1. x \in DOMAIN active[p] /\ active'[p][x] = active[p][x] /\ requests'[p][x] = requests[p][x]
    BY <1>1, <1>2, <1>3, <1>4, <1>5
  <2> QED
    BY <2>1 DEF MsgInv, RequestsNameChannels
<1> QED
  BY <1>2, <1>3, <1>6, <1>7 DEF RequestsNameChannels

-------------------------------------------------------------------------------
(* The calls, one by one                                                       *)

\* A function on the first numbers is a sequence.
LEMMA IsSequenceOf ==
    ASSUME NEW n \in Nat, NEW s, s = [i \in 1..n |-> s[i]]
    PROVE  IsSequence(s) /\ Len(s) = n /\ DOMAIN s = 1..n
<1> DEFINE S == {s[i] : i \in 1..n}
<1>1. s \in [1..n -> S]
  OBVIOUS
<1> HIDE DEF S
<1>2. s \in Seq(S)
  BY <1>1, SeqDef
<1>3. Len(s) = n
  BY <1>1, <1>2, LenProperties
<1> QED
  BY <1>1, <1>2, <1>3 DEF IsSequence

WaitCall(r, qs) == P2P("w", Current(r).site, [i \in DOMAIN qs |-> Waited(r, qs[i])])
Mine(r, qs, c) == {i \in DOMAIN qs : Pending(r, qs[i]) /\ active[r][qs[i]].channel = c}

\* The i-th receive that a wait completes for the channel is its o[i]-th request, in their
\* order, and there is no other one.
Takes(r, qs, c, got, o) ==
    /\ \A i \in 1..Len(got) :
          /\ o[i] \in Mine(r, qs, c)
          /\ got[i] = Completed(c, active[r][qs[o[i]]].nth, "w", Current(r).site)
    /\ \A i, j \in 1..Len(got) : i < j => o[i] < o[j]
    /\ \A k \in Mine(r, qs, c) : \E i \in 1..Len(got) : o[i] = k

\* What a wait gets.
LEMMA GotIs ==
    ASSUME MsgInv, NEW r \in Ranks, NEW qs, IsSequence(qs), NEW c
    PROVE  IsSequence(Got(r, qs, c)) /\ \E o : Takes(r, qs, c, Got(r, qs, c), o)
<1> DEFINE S == Mine(r, qs, c)
           mine == Selected(qs, S)
           g == Got(r, qs, c)
           size == Cardinality(S)
           site == Current(r).site
<1>1. DOMAIN qs = 1..Len(qs)
  BY LenIsNat
<1>2. S \in SUBSET (1..Len(qs))
  BY <1>1 DEF Mine
<1>20. S = Mine(r, qs, c)
  OBVIOUS
<1> HIDE DEF S
<1>3. /\ size \in Nat /\ DOMAIN mine = 1..size
      /\ \A n \in 1..size : Nth(S, n) \in S /\ mine[n] = qs[Nth(S, n)]
      /\ \A i \in S : \E n \in 1..size : Nth(S, n) = i
      /\ \A m, n \in 1..size : m < n => Nth(S, m) < Nth(S, n)
  BY <1>2, SelectedIs
<1>4. g = [i \in DOMAIN mine |-> Completed(c, active[r][mine[i]].nth, "w", site)]
  BY <1>20 DEF Got, Mine
<1> HIDE DEF mine, g, size, site
<1>5. IsSequence(g) /\ Len(g) = size
  <2>1. g = [i \in 1..size |-> g[i]]
    BY <1>3, <1>4
  <2> QED
    BY <1>3, <2>1, IsSequenceOf
<1>6. PICK o : o = [n \in 1..size |-> Nth(S, n)]
  OBVIOUS
<1>7. \A i \in 1..size : o[i] = Nth(S, i)
  BY <1>6
<1>8. \A i \in 1..size : g[i] = Completed(c, active[r][qs[o[i]]].nth, "w", site)
  BY <1>3, <1>4, <1>7
<1>9. Takes(r, qs, c, g, o)
  BY <1>3, <1>5, <1>7, <1>8, <1>20 DEF Takes, site
<1> QED
  BY <1>5, <1>9 DEF g

\* The partners of MPI_Wait.
LEMMA WaitCallIs ==
    ASSUME NEW r \in Ranks, NEW qs, IsSequence(qs)
    PROVE  /\ WaitCall(r, qs).type = "w" /\ WaitCall(r, qs).site = Current(r).site
           /\ Len(WaitCall(r, qs).partners) = Len(qs)
           /\ \A j \in 1..Len(qs) : WaitCall(r, qs).partners[j] = Waited(r, qs[j])
<1> DEFINE ps == [i \in DOMAIN qs |-> Waited(r, qs[i])]
<1>1. Len(qs) \in Nat /\ DOMAIN qs = 1..Len(qs)
  BY LenIsNat
<1>2. \A j \in 1..Len(qs) : ps[j] = Waited(r, qs[j])
  BY <1>1
<1>3. ps = [i \in 1..Len(qs) |-> ps[i]]
  BY <1>1
<1>4. WaitCall(r, qs) = P2P("w", Current(r).site, ps)
  BY DEF WaitCall
<1> HIDE DEF ps
<1>5. Len(ps) = Len(qs)
  BY <1>1, <1>3, IsSequenceOf
<1>6. WaitCall(r, qs).type = "w" /\ WaitCall(r, qs).site = Current(r).site /\ WaitCall(r, qs).partners = ps
  BY <1>4 DEF P2P
<1> QED
  BY <1>2, <1>5, <1>6

\* A request that is waited for names the channel it receives from, if it receives.
LEMMA WaitedIs ==
    ASSUME MsgInv, NEW r \in Ranks, NEW q
    PROVE  /\ Pending(r, q) => /\ active[r][q].channel \in Channels /\ active[r][q].nth \in Nat \ {0}
                               /\ active[r][q].channel[2] = r
                               /\ Waited(r, q) = PartnersOf(active[r][q].channel)
           /\ ~ Pending(r, q) => ~ IsMessage(Waited(r, q))
<1>1. DOMAIN active[r] = DOMAIN requests[r]
  BY DEF MsgInv, World
<1>2. ASSUME Pending(r, q)
      PROVE  /\ active[r][q].channel \in Channels /\ active[r][q].nth \in Nat \ {0}
             /\ active[r][q].channel[2] = r
             /\ Waited(r, q) = PartnersOf(active[r][q].channel)
  <2>1. /\ active[r][q].channel \in Channels /\ active[r][q].nth \in Nat \ {0}
        /\ active[r][q].channel = <<requests[r][q].source, r, requests[r][q].tag>>
        /\ q \in DOMAIN requests[r]
    BY <1>1, <1>2 DEF MsgInv, RequestsNameChannels, Pending
  <2> QED
    BY <2>1 DEF Waited, PartnersOf
<1>3. ASSUME ~ Pending(r, q) PROVE ~ IsMessage(Waited(r, q))
  <2>1. CASE q \in DOMAIN requests[r]
    <3>1. requests[r][q].source = r
      BY <1>1, <1>3, <2>1 DEF MsgInv, RequestsNameChannels, Pending
    <3> QED
      BY <2>1, <3>1 DEF Waited, Partners, IsMessage
  <2>2. CASE q \notin DOMAIN requests[r]
    <3>1. -1 \notin Ranks
      BY TracerAssumption
    <3> QED
      BY <2>2, <3>1 DEF Waited, Partners, IsMessage, AnySource
  <2> QED
    BY <2>1, <2>2
<1> QED
  BY <1>2, <1>3

\* MPI_Wait names the channels of the receives that it completes.
LEMMA WaitCompletes ==
    ASSUME MsgInv, NEW r \in Ranks, NEW qs, IsSequence(qs), Current(r).site \in Sites,
           \A q \in {qs[i] : i \in DOMAIN qs} : Ready(r, q)
    PROVE  Completes(r, WaitCall(r, qs), [c \in Channels |-> Got(r, qs, c)])
<1> DEFINE d == WaitCall(r, qs)
           got == [c \in Channels |-> Got(r, qs, c)]
<1>1. /\ d.type = "w" /\ d.site = Current(r).site /\ Len(d.partners) = Len(qs)
      /\ \A j \in 1..Len(qs) : d.partners[j] = Waited(r, qs[j])
      /\ DOMAIN qs = 1..Len(qs)
  BY WaitCallIs, LenIsNat
<1>2. \A c \in Channels : got[c] = Got(r, qs, c)
  OBVIOUS
<1> HIDE DEF d, got
<1>3. ~ IsSend(d) /\ IsReceive(d)
  BY <1>1 DEF IsSend, IsReceive
<1>4. ASSUME NEW c \in Channels, NEW i \in 1..Len(got[c])
      PROVE  /\ c[2] = r /\ Names(d, PartnersOf(c))
             /\ got[c][i].nth \in 1..Len(sent[c])
             /\ got[c][i].type = d.type /\ got[c][i].site = d.site
  <2>1. PICK k \in Mine(r, qs, c) :
           got[c][i] = Completed(c, active[r][qs[k]].nth, "w", Current(r).site)
    BY <1>2, GotIs DEF Takes
  <2>2. k \in 1..Len(qs) /\ Pending(r, qs[k]) /\ active[r][qs[k]].channel = c /\ Ready(r, qs[k])
    BY <1>1 DEF Mine
  <2>3. active[r][qs[k]].nth \in Nat \ {0} /\ c[2] = r /\ Waited(r, qs[k]) = PartnersOf(c)
    BY <2>2, WaitedIs
  <2>4. Names(d, PartnersOf(c))
    BY <1>1, <2>2, <2>3 DEF Names
  <2>5. Len(sent[c]) \in Nat /\ Len(sent[c]) >= active[r][qs[k]].nth
    <3>1. sent[c] \in Seq([type : {"s", "S"}, site : Sites])
      BY DEF MsgInv, World
    <3>2. Len(sent[c]) \in Nat
      BY <3>1
    <3> QED
      BY <2>2, <3>2 DEF Ready, Arrived
  <2>6. /\ got[c][i].nth = active[r][qs[k]].nth /\ got[c][i].type = "w"
        /\ got[c][i].site = Current(r).site
    BY <2>1 DEF Completed
  <2> QED
    BY <1>1, <2>3, <2>4, <2>5, <2>6
<1>5. ASSUME NEW p, Names(d, p), IsMessage(p)
      PROVE  \E c \in Channels : c[2] = r /\ p = PartnersOf(c) /\ Len(got[c]) >= 1
  <2>1. PICK j \in 1..Len(qs) : p = Waited(r, qs[j])
    BY <1>1, <1>5 DEF Names
  <2>2. Pending(r, qs[j])
    BY <1>5, <2>1, WaitedIs
  <2> DEFINE c == active[r][qs[j]].channel
  <2>3. c \in Channels /\ c[2] = r /\ p = PartnersOf(c)
    BY <2>1, <2>2, WaitedIs
  <2>4. j \in Mine(r, qs, c)
    BY <1>1, <2>2 DEF Mine
  <2> HIDE DEF c
  <2>5. Len(got[c]) >= 1
    BY <1>2, <2>3, <2>4, GotIs DEF Takes
  <2> QED
    BY <2>3, <2>5
<1> QED
  BY <1>1, <1>3, <1>4, <1>5 DEF Completes, d, got

\* MPI_Wait completes the receives of a channel in the order of its requests.
LEMMA WaitOrders ==
    ASSUME MsgInv, NEW r \in Ranks, NEW qs, IsSequence(qs)
    PROVE  Orders(r, WaitCall(r, qs), [c \in Channels |-> Got(r, qs, c)])
<1> DEFINE d == WaitCall(r, qs)
           got == [c \in Channels |-> Got(r, qs, c)]
<1>1. /\ d.type = "w" /\ d.site = Current(r).site /\ Len(d.partners) = Len(qs)
      /\ \A j \in 1..Len(qs) : d.partners[j] = Waited(r, qs[j])
      /\ DOMAIN qs = 1..Len(qs)
  BY WaitCallIs, LenIsNat
<1>2. \A c \in Channels : got[c] = Got(r, qs, c)
  OBVIOUS
<1> HIDE DEF d, got
<1> SUFFICES ASSUME NEW c \in Channels, c[1] # c[2]
             PROVE  IF c[2] = r THEN \E o : Gets(d, PartnersOf(c), got[c], o) ELSE got[c] = <<>>
  BY DEF Orders, d, got
<1>3. PICK o : Takes(r, qs, c, got[c], o)
  BY <1>2, GotIs
<1>4. \A k \in Mine(r, qs, c) : /\ k \in 1..Len(qs) /\ d.partners[k] = PartnersOf(c) /\ c[2] = r
  BY <1>1, WaitedIs DEF Mine
<1>5. CASE c[2] = r
  <2>1. ASSUME NEW j \in 1..Len(qs), d.partners[j] = PartnersOf(c) PROVE j \in Mine(r, qs, c)
    <3>1. IsMessage(Waited(r, qs[j]))
      BY <1>1, <2>1 DEF PartnersOf, Partners, IsMessage, Channels
    <3>2. Pending(r, qs[j])
      BY <3>1, WaitedIs
    <3>3. active[r][qs[j]].channel = c
      BY <1>1, <2>1, <3>2, WaitedIs, OneChannel
    <3> QED
      BY <1>1, <3>2, <3>3 DEF Mine
  <2>2. \A i \in 1..Len(got[c]) : got[c][i].type = d.type /\ got[c][i].site = d.site
    <3> SUFFICES ASSUME NEW i \in 1..Len(got[c])
                 PROVE  got[c][i].type = d.type /\ got[c][i].site = d.site
      OBVIOUS
    <3>1. PICK n : got[c][i] = Completed(c, n, "w", Current(r).site)
      BY <1>3 DEF Takes
    <3> QED
      BY <1>1, <3>1 DEF Completed
  <2>3. Gets(d, PartnersOf(c), got[c], o)
    BY <1>1, <1>3, <1>4, <2>1, <2>2 DEF Takes, Gets
  <2> QED
    BY <1>5, <2>3
<1>6. CASE c[2] # r
  <2>1. \A i \in 1..Len(got[c]) : FALSE
    BY <1>3, <1>4, <1>6 DEF Takes
  <2>2. IsSequence(got[c])
    BY <1>2, GotIs
  <2>3. Len(got[c]) \in Nat
    BY <2>2, LenIsNat
  <2>4. Len(got[c]) = 0
    BY <2>1, <2>3
  <2>5. got[c] = <<>>
    BY <2>2, <2>4 DEF IsSequence
  <2> QED
    BY <1>6, <2>5
<1> QED
  BY <1>5, <1>6

\* What a step leaves alone.
LEMMA SameRequests ==
    ASSUME MsgInv, active' = active, requests' = requests
    PROVE  /\ DOMAIN active' = Ranks /\ DOMAIN requests' = Ranks
           /\ \A p \in Ranks : DOMAIN active'[p] = DOMAIN requests'[p]
           /\ RequestsNameChannels'
  BY DEF MsgInv, World, RequestsNameChannels

\* A call that returns leaves a program and a place in it.
LEMMA ReturnsIs ==
    ASSUME World, NEW r \in Ranks, Returns(r)
    PROVE  program' \in [Ranks -> Seq(Op)] /\ at' \in [Ranks -> Nat]
  BY DEF World, Returns

\* MPI_Send keeps MsgInv.
LEMMA SendStep ==
    ASSUME Shape, MsgInv, NEW r \in Ranks, Send(r)
    PROVE  MsgInv'
<1>1. /\ Calling(r, "send") /\ Returns(r) /\ Sends(r, "s") /\ RecordP2P(r, "s", To(r))
      /\ active' = active /\ requests' = requests /\ received' = received
  BY DEF Send
<1>2. World
  BY DEF MsgInv
<1>3. /\ sent' \in [Channels -> Seq([type : {"s", "S"}, site : Sites])] /\ posted' \in [Channels -> Nat]
      /\ SendsAreMade' /\ MadeAreSends' /\ ReceivesAreMade' /\ MadeAreReceives'
  BY <1>1, <1>2, SendMsg
<1>4. program' \in [Ranks -> Seq(Op)] /\ at' \in [Ranks -> Nat]
  BY <1>1, <1>2, ReturnsIs
<1>5. DOMAIN received' = Channels /\ \A c \in Channels : IsSequence(received'[c])
  BY <1>1, <1>2 DEF World
<1> QED
  BY <1>1, <1>3, <1>4, <1>5, SameRequests DEF MsgInv, World

\* MPI_Isend keeps MsgInv.
LEMMA IsendStep ==
    ASSUME Shape, MsgInv, NEW r \in Ranks, Isend(r)
    PROVE  MsgInv'
<1> DEFINE q == Current(r).reqs[1]
           a == [recv |-> FALSE, channel |-> To(r), nth |-> 0]
           n == [source |-> r, tag |-> Current(r).tag]
<1>1. /\ Calling(r, "isend") /\ Returns(r) /\ Sends(r, "S") /\ RecordP2P(r, "S", To(r))
      /\ received' = received /\ SetsRequest(r, q, a, n)
  BY DEF Isend, SetsRequest
<1>2. World
  BY DEF MsgInv
<1>3. /\ sent' \in [Channels -> Seq([type : {"s", "S"}, site : Sites])] /\ posted' \in [Channels -> Nat]
      /\ SendsAreMade' /\ MadeAreSends' /\ ReceivesAreMade' /\ MadeAreReceives'
  BY <1>1, <1>2, SendMsg
<1>4. program' \in [Ranks -> Seq(Op)] /\ at' \in [Ranks -> Nat]
  BY <1>1, <1>2, ReturnsIs
<1>5. DOMAIN received' = Channels /\ \A c \in Channels : IsSequence(received'[c])
  BY <1>1, <1>2 DEF World
<1>6. ~ a.recv /\ n.source = r
  OBVIOUS
<1> HIDE DEF q, a, n
<1>7. /\ DOMAIN active' = Ranks /\ DOMAIN requests' = Ranks
      /\ \A p \in Ranks : DOMAIN active'[p] = DOMAIN requests'[p]
      /\ RequestsNameChannels'
  BY <1>1, <1>6, RequestSet
<1> QED
  BY <1>3, <1>4, <1>5, <1>7 DEF MsgInv, World

\* MPI_Recv gets the next message of its channel.
RecvCall(r) == P2P("r", Current(r).site, <<PartnersOf(From(r))>>)

\* What it gets is the message that its call names.
LEMMA RecvGets ==
    ASSUME MsgInv, NEW r \in Ranks, Recv(r)
    PROVE  \E got : Appends(got) /\ Completes(r, RecvCall(r), got) /\ Orders(r, RecvCall(r), got)
<1> DEFINE from == From(r)
           nr == posted[from] + 1
           e == Completed(from, nr, "r", Current(r).site)
           d == RecvCall(r)
<1>1. /\ Calling(r, "recv") /\ Returns(r) /\ Arrived(from, nr) /\ Posts(r)
      /\ received' = [received EXCEPT ![from] = Append(received[from], e)]
  BY DEF Recv
<1>2. World
  BY DEF MsgInv
<1>3. Current(r) \in Op /\ from \in Channels /\ from[2] = r
  BY <1>1, <1>2, CurrentIs DEF From
<1>4. posted[from] \in Nat
  BY <1>1, <1>2, <1>3 DEF World
<1>5. nr \in 1..Len(sent[from])
  <2>1. sent[from] \in Seq([type : {"s", "S"}, site : Sites])
    BY <1>2, <1>3 DEF World
  <2>2. Len(sent[from]) \in Nat
    BY <2>1
  <2> QED
    BY <1>1, <1>4, <2>2 DEF Arrived
<1>6. /\ d.type = "r" /\ d.site = Current(r).site /\ Len(d.partners) = 1 /\ d.partners[1] = PartnersOf(from)
      /\ e.nth = nr /\ e.type = "r" /\ e.site = Current(r).site
  BY DEF RecvCall, P2P, Completed
<1>7. Current(r).site \in Sites
  BY <1>3 DEF Op
<1> DEFINE got == [c \in Channels |-> IF c = from THEN <<e>> ELSE <<>>]
<1>8. /\ \A c \in Channels : c # from => got[c] = <<>>
      /\ got[from] = <<e>>
  BY <1>3
<1> HIDE DEF from, nr, e, d, got
<1>9. /\ Len(<<e>>) = 1 /\ <<e>>[1] = e /\ IsSequence(<<e>>) /\ Len(<<>>) = 0
  <2>1. <<e>> \in Seq({e})
    OBVIOUS
  <2> QED
    BY <2>1 DEF IsSequence
<1>10. Appends(got)
  <2>1. /\ received'[from] = Append(received[from], e) /\ DOMAIN received' = Channels
        /\ \A c \in Channels : c # from => received'[c] = received[c]
    BY <1>1, <1>2, <1>3 DEF World
  <2>2. \A c \in Channels : IsSequence(received[c])
    BY <1>2 DEF World
  <2>3. received[from] \o <<e>> = Append(received[from], e)
    <3>1. PICK T : received[from] \in Seq(T)
      BY <1>3, <2>2 DEF IsSequence
    <3>2. received[from] \in Seq(T \cup {e})
      BY <3>1
    <3> QED
      BY <3>2
  <2>4. ASSUME NEW c \in Channels PROVE IsSequence(got[c]) /\ received'[c] = received[c] \o got[c]
    <3>1. CASE c = from
      BY <1>8, <1>9, <2>1, <2>3, <3>1
    <3>2. CASE c # from
      BY <1>8, <2>1, <2>2, <3>2, ConcatEmpty, EmptyIsSequence
    <3> QED
      BY <3>1, <3>2
  <2> QED
    BY <2>1, <2>4 DEF Appends
<1>11. Completes(r, d, got)
  <2>1. ~ IsSend(d) /\ IsReceive(d)
    BY <1>6 DEF IsSend, IsReceive
  <2>2. Names(d, PartnersOf(from)) /\ \A p : Names(d, p) => p = PartnersOf(from)
    BY <1>6 DEF Names
  <2>3. ASSUME NEW c \in Channels, NEW i \in 1..Len(got[c])
        PROVE  c = from /\ got[c][i] = e
    BY <1>8, <1>9
  <2> QED
    BY <1>3, <1>5, <1>6, <1>7, <1>8, <1>9, <2>1, <2>2, <2>3 DEF Completes
<1>12. Orders(r, d, got)
  <2> SUFFICES ASSUME NEW c \in Channels
               PROVE  IF c[2] = r THEN \E o : Gets(d, PartnersOf(c), got[c], o) ELSE got[c] = <<>>
    BY DEF Orders
  <2>1. CASE c = from
    <3>1. PICK o : o = [i \in 1..1 |-> 1]
      OBVIOUS
    <3>2. o[1] = 1 /\ \A i \in 1..1 : i = 1
      BY <3>1
    <3>3. Gets(d, PartnersOf(c), got[c], o)
      BY <1>6, <1>8, <1>9, <2>1, <3>2 DEF Gets
    <3> QED
      BY <1>3, <2>1, <3>3
  <2>2. CASE c # from
    <3>1. got[c] = <<>> /\ PartnersOf(c) # PartnersOf(from)
      BY <1>3, <1>8, <2>2, OneChannel
    <3>2. Gets(d, PartnersOf(c), got[c], 0)
      BY <1>6, <1>9, <3>1 DEF Gets
    <3> QED
      BY <3>1, <3>2
  <2> QED
    BY <2>1, <2>2
<1> QED
  BY <1>10, <1>11, <1>12 DEF d

\* MPI_Recv keeps MsgInv.
LEMMA RecvStep ==
    ASSUME Shape, MsgInv, NEW r \in Ranks, Recv(r)
    PROVE  MsgInv'
<1> DEFINE d == RecvCall(r)
<1>1. /\ Calling(r, "recv") /\ Returns(r) /\ Posts(r) /\ Makes(r, d)
      /\ received' = [received EXCEPT ![From(r)] = Append(@, Completed(From(r), posted[From(r)] + 1, "r", Current(r).site))]
      /\ active' = active /\ requests' = requests
  BY DEF Recv, RecvCall, RecordP2P, Trace, PartnersOf, Makes
<1>2. World
  BY DEF MsgInv
<1>3. PICK got : Appends(got) /\ Completes(r, d, got)
  BY RecvGets
<1> HIDE DEF d
<1>4. posted' \in [Channels -> Nat] /\ sent' = sent
  <2>1. From(r) \in Channels /\ posted[From(r)] \in Nat
    BY <1>1, <1>2, CurrentIs DEF World
  <2>2. posted' = [posted EXCEPT ![From(r)] = posted[From(r)] + 1] /\ sent' = sent
    BY <1>1 DEF Posts
  <2> QED
    BY <1>2, <2>1, <2>2 DEF World
<1>5. /\ \A c \in Channels : IsSequence(received'[c])
      /\ SendsAreMade' /\ MadeAreSends' /\ ReceivesAreMade' /\ MadeAreReceives'
  BY <1>1, <1>3, <1>4, ReceiveMsg
<1>6. program' \in [Ranks -> Seq(Op)] /\ at' \in [Ranks -> Nat]
  BY <1>1, <1>2, ReturnsIs
<1>7. sent' \in [Channels -> Seq([type : {"s", "S"}, site : Sites])] /\ DOMAIN received' = Channels
  BY <1>1, <1>2, <1>4 DEF World
<1> QED
  BY <1>1, <1>4, <1>5, <1>6, <1>7, SameRequests DEF MsgInv, World

\* MPI_Irecv keeps MsgInv.
LEMMA IrecvStep ==
    ASSUME Shape, MsgInv, NEW r \in Ranks, Irecv(r)
    PROVE  MsgInv'
<1> DEFINE from == From(r)
           d == P2P("R", Current(r).site, <<PartnersOf(from)>>)
           q == Current(r).reqs[1]
           a == [recv |-> TRUE, channel |-> from, nth |-> posted[from] + 1]
           n == [source |-> Current(r).peer, tag |-> Current(r).tag]
           got == [c \in Channels |-> <<>>]
<1>1. /\ Calling(r, "irecv") /\ Returns(r) /\ Posts(r) /\ Makes(r, d)
      /\ SetsRequest(r, q, a, n) /\ received' = received
  BY DEF Irecv, RecordP2P, Trace, PartnersOf, Makes, SetsRequest
<1>2. World
  BY DEF MsgInv
<1>3. Current(r) \in Op /\ from \in Channels /\ from = <<Current(r).peer, r, Current(r).tag>>
  BY <1>1, <1>2, CurrentIs DEF From
<1>4. posted[from] \in Nat /\ posted' \in [Channels -> Nat] /\ sent' = sent
  BY <1>1, <1>2, <1>3 DEF World, Posts
<1>5. a.recv /\ a.channel \in Channels /\ a.nth \in Nat \ {0} /\ a.channel = <<n.source, r, n.tag>>
  BY <1>3, <1>4
<1>6. d.type = "R"
  BY DEF P2P
<1>7. \A c \in Channels : got[c] = <<>>
  OBVIOUS
<1> HIDE DEF from, q, a, n, d, got
<1>8. /\ DOMAIN active' = Ranks /\ DOMAIN requests' = Ranks
      /\ \A p \in Ranks : DOMAIN active'[p] = DOMAIN requests'[p]
      /\ RequestsNameChannels'
  BY <1>1, <1>5, RequestSet
<1>9. Appends(got)
  <2>1. \A c \in Channels : IsSequence(received[c])
    BY <1>2 DEF World
  <2> QED
    BY <1>1, <1>7, <2>1, ConcatEmpty, EmptyIsSequence DEF Appends
<1>10. Completes(r, d, got)
  <2>1. ~ IsSend(d) /\ ~ IsReceive(d)
    BY <1>6 DEF IsSend, IsReceive
  <2>2. \A c \in Channels : \A i \in 1..Len(got[c]) : FALSE
    BY <1>7, EmptyIsSequence
  <2> QED
    BY <2>1, <2>2 DEF Completes
<1>11. /\ \A c \in Channels : IsSequence(received'[c])
       /\ SendsAreMade' /\ MadeAreSends' /\ ReceivesAreMade' /\ MadeAreReceives'
  BY <1>1, <1>4, <1>9, <1>10, ReceiveMsg
<1>12. program' \in [Ranks -> Seq(Op)] /\ at' \in [Ranks -> Nat]
  BY <1>1, <1>2, ReturnsIs
<1>13. sent' \in [Channels -> Seq([type : {"s", "S"}, site : Sites])] /\ DOMAIN received' = Channels
  BY <1>1, <1>2, <1>4 DEF World
<1> QED
  BY <1>4, <1>8, <1>11, <1>12, <1>13 DEF MsgInv, World

\* MPI_Wait, MPI_Waitall and MPI_Waitany keep MsgInv.
LEMMA WaitStep ==
    ASSUME Shape, MsgInv, NEW r \in Ranks, Wait(r)
    PROVE  MsgInv'
<1> DEFINE qs == Current(r).reqs
           ks == {qs[i] : i \in DOMAIN qs}
           d == WaitCall(r, qs)
           g == [c \in Channels |-> Got(r, qs, c)]
<1>1. /\ Calling(r, "wait") /\ Returns(r) /\ (\A q \in ks : Ready(r, q)) /\ Erases(r, ks)
      /\ received' = [c \in Channels |-> received[c] \o Got(r, qs, c)]
      /\ Makes(r, d) /\ sent' = sent /\ posted' = posted
  BY DEF Wait, Trace, Makes, Erases, WaitCall
<1>2. World
  BY DEF MsgInv
<1>3. Current(r) \in Op
  BY <1>1, <1>2, CurrentIs
<1>4. qs \in Seq(Requests) /\ Current(r).site \in Sites
  BY <1>3 DEF Op
<1>5. IsSequence(qs)
  BY <1>4 DEF IsSequence
<1>6. ks = {qs[i] : i \in DOMAIN qs}
  OBVIOUS
<1> HIDE DEF qs
<1>7. Completes(r, d, g)
  BY <1>1, <1>4, <1>5, WaitCompletes
<1>8. PICK got : got = g
  OBVIOUS
<1> HIDE DEF d, ks
<1>9. Appends(got) /\ DOMAIN received' = Channels
  <2>1. \A c \in Channels : received'[c] = received[c] \o got[c] /\ got[c] = Got(r, qs, c)
    BY <1>1, <1>8
  <2>2. \A c \in Channels : IsSequence(Got(r, qs, c))
    BY <1>5, GotIs
  <2> QED
    BY <1>1, <2>1, <2>2 DEF Appends
<1>10. Completes(r, d, got)
  BY <1>7, <1>8
<1> HIDE DEF g
<1>11. /\ \A c \in Channels : IsSequence(received'[c])
       /\ SendsAreMade' /\ MadeAreSends' /\ ReceivesAreMade' /\ MadeAreReceives'
  BY <1>1, <1>9, <1>10, ReceiveMsg
<1>12. /\ DOMAIN active' = Ranks /\ DOMAIN requests' = Ranks
       /\ \A p \in Ranks : DOMAIN active'[p] = DOMAIN requests'[p]
       /\ RequestsNameChannels'
  BY <1>1, RequestsErased
<1>13. program' \in [Ranks -> Seq(Op)] /\ at' \in [Ranks -> Nat]
  BY <1>1, <1>2, ReturnsIs
<1>14. /\ sent' \in [Channels -> Seq([type : {"s", "S"}, site : Sites])] /\ posted' \in [Channels -> Nat]
  BY <1>1, <1>2 DEF World
<1> QED
  BY <1>9, <1>11, <1>12, <1>13, <1>14 DEF MsgInv, World

\* Collective calls keep MsgInv.
LEMMA CollStep ==
    ASSUME Shape, MsgInv, NEW r \in Ranks, RecordColl(r)
    PROVE  MsgInv'
<1> DEFINE d == P2P("c", Current(r).site, <<>>)
<1>1. /\ Returns(r) /\ sent' = sent /\ posted' = posted /\ active' = active /\ requests' = requests
      /\ received' = received
      /\ calls' = [calls EXCEPT ![r] = Append(@, [book |-> "coll", call |-> d])]
  BY DEF RecordColl, CollCall, Trace
<1> HIDE DEF d
<1>2. SameCalls
  <2>1. \A q \in Ranks : \A e : HasMade(calls'[q], e)
                                    <=> HasMade(calls[q], e) \/ (q = r /\ "coll" = "p2p" /\ e = d)
    BY <1>1, HasMadeMore
  <2> QED
    BY <2>1 DEF SameCalls
<1>3. SendsAreMade' /\ MadeAreSends' /\ ReceivesAreMade' /\ MadeAreReceives'
  BY <1>1, <1>2, SameMsg
<1>4. World
  BY DEF MsgInv
<1>5. program' \in [Ranks -> Seq(Op)] /\ at' \in [Ranks -> Nat]
  BY <1>1, <1>4, ReturnsIs
<1>6. /\ sent' \in [Channels -> Seq([type : {"s", "S"}, site : Sites])] /\ posted' \in [Channels -> Nat]
      /\ DOMAIN received' = Channels /\ \A c \in Channels : IsSequence(received'[c])
  BY <1>1, <1>4 DEF World
<1> QED
  BY <1>1, <1>3, <1>5, <1>6, SameRequests DEF MsgInv, World

\* A step that makes no call keeps MsgInv.
LEMMA StillMsg ==
    ASSUME MsgInv, UNCHANGED <<mpi, requests, calls, received>>
    PROVE  MsgInv'
<1>1. /\ program' = program /\ at' = at /\ sent' = sent /\ posted' = posted /\ active' = active
      /\ requests' = requests /\ calls' = calls /\ received' = received
  BY DEF mpi
<1>2. SameCalls
  BY <1>1 DEF SameCalls
<1>3. SendsAreMade' /\ MadeAreSends' /\ ReceivesAreMade' /\ MadeAreReceives'
  BY <1>1, <1>2, SameMsg
<1> QED
  BY <1>1, <1>3, SameRequests DEF MsgInv, World

\* Every step of the tracer keeps MsgInv.
LEMMA MsgStep == Shape /\ MsgInv /\ [Next]_vars => MsgInv'
<1> SUFFICES ASSUME Shape, MsgInv, [Next]_vars PROVE MsgInv'
  OBVIOUS
<1>1. ASSUME NEW r \in Ranks,
             \/ Send(r) \/ Isend(r) \/ Recv(r) \/ Irecv(r) \/ Wait(r)
             \/ FromRoot(r) \/ ToRoot(r) \/ AllToAll(r)
             \/ Finalize(r)
      PROVE  MsgInv'
  <2>1. CASE FromRoot(r) \/ ToRoot(r) \/ AllToAll(r)
    BY <2>1, CollStep DEF FromRoot, ToRoot, AllToAll
  <2>2. CASE Finalize(r)
    BY <2>2, StillMsg DEF Finalize
  <2> QED
    BY <1>1, <2>1, <2>2, SendStep, IsendStep, RecvStep, IrecvStep, WaitStep
<1>2. CASE UNCHANGED vars
  BY <1>2, StillMsg DEF vars, history
<1> QED
  BY <1>1, <1>2 DEF Next

\* Before the first call there is no message.
LEMMA MsgInit == Init => MsgInv
<1> SUFFICES ASSUME Init PROVE MsgInv
  OBVIOUS
<1>1. World
  BY TracerAssumption, EmptyIsSequence DEF Init, World
<1>2. \A c \in Channels : sent[c] = <<>> /\ received[c] = <<>>
  BY DEF Init
<1>3. \A r \in Ranks : active[r] = None /\ DOMAIN None = {}
  BY DEF Init, None
<1>4. \A r \in Ranks : \A d : ~ HasMade(calls[r], d)
  BY EmptyIsSequence DEF Init, HasMade
<1>5. RequestsNameChannels
  BY <1>3 DEF RequestsNameChannels
<1>6. \A c \in Channels : 1..Len(sent[c]) = {} /\ 1..Len(received[c]) = {}
  BY <1>2, EmptyIsSequence
<1>7. SendsAreMade /\ ReceivesAreMade
  BY <1>6 DEF SendsAreMade, ReceivesAreMade
<1>8. MadeAreSends /\ MadeAreReceives
  BY <1>4 DEF MadeAreSends, MadeAreReceives
<1> QED
  BY <1>1, <1>5, <1>7, <1>8 DEF MsgInv

-------------------------------------------------------------------------------
(* The order of the messages is that of the calls                              *)

OrderInv == SendsInOrder /\ ReceivesInOrder
Booked(r, e) == calls' = [calls EXCEPT ![r] = Append(@, e)]

\* A call is behind all others of its process.
LEMMA BookedIs ==
    ASSUME Shape, NEW r \in Ranks, NEW e, Booked(r, e)
    PROVE  IsMore(calls[r], calls'[r], e) /\ \A q \in Ranks : q # r => calls'[q] = calls[q]
<1>1. IsSequence(calls[r]) /\ DOMAIN calls = Ranks
  BY DEF Shape
<1>2. calls'[r] = Append(calls[r], e)
  BY <1>1 DEF Booked
<1>3. \A q \in Ranks : q # r => calls'[q] = calls[q]
  BY <1>1 DEF Booked
<1> QED
  BY <1>1, <1>2, <1>3, AppendIsMore

\* The order of the sends is kept by a call that sends nothing, that of the receives by one
\* that receives nothing.
LEMMA SendsKept ==
    ASSUME Shape, SendsInOrder, NEW r \in Ranks, NEW e, Booked(r, e), sent' = sent,
           ~ (e.book = "p2p" /\ IsSend(e.call))
    PROVE  SendsInOrder'
<1> SUFFICES ASSUME NEW c \in Channels PROVE \E f : SendOrder(f, c, calls'[c[1]], sent[c])
  BY DEF SendsInOrder
<1>1. PICK f : SendOrder(f, c, calls[c[1]], sent[c])
  BY DEF SendsInOrder
<1>2. c[1] \in Ranks
  BY DEF Channels
<1>3. ~ (e.book = "p2p" /\ Answers(e.call, PartnersOf(c)))
  BY DEF Answers, IsSend
<1>4. CASE c[1] = r
  BY <1>1, <1>3, <1>4, BookedIs, OtherSend
<1>5. CASE c[1] # r
  BY <1>1, <1>2, <1>5, BookedIs
<1> QED
  BY <1>4, <1>5

\* Nor do the receives change places.
LEMMA ReceivesKept ==
    ASSUME Shape, ReceivesInOrder, NEW r \in Ranks, NEW e, Booked(r, e), received' = received,
           ~ (e.book = "p2p" /\ IsReceive(e.call))
    PROVE  ReceivesInOrder'
<1> SUFFICES ASSUME NEW c \in Channels, c[1] # c[2]
             PROVE  \E g, h : ReceiveOrder(g, h, c, calls'[c[2]], received[c])
  BY DEF ReceivesInOrder
<1>1. PICK g, h : ReceiveOrder(g, h, c, calls[c[2]], received[c])
  BY DEF ReceivesInOrder
<1>2. c[2] \in Ranks
  BY DEF Channels
<1>3. CASE c[2] = r
  <2>1. IsMore(calls[r], calls'[r], e)
    BY BookedIs
  <2>2. \A j : ~ IsRequest(calls'[r], Len(calls[r]) + 1, j, PartnersOf(c))
    BY <2>1 DEF IsMore, IsRequest
  <2>3. PICK cs, ds, rs : cs = calls[r] /\ ds = calls'[r] /\ rs = received[c]
    OBVIOUS
  <2>4. ReceiveOrder(g, h, c, ds, rs)
    BY <1>1, <1>3, <2>1, <2>2, <2>3, OtherReceive
  <2> QED
    BY <1>3, <2>3, <2>4
<1>4. CASE c[2] # r
  BY <1>1, <1>2, <1>4, BookedIs
<1> QED
  BY <1>3, <1>4

\* A call that sends.
LEMMA SendsMore ==
    ASSUME Shape, World, SendsInOrder, NEW r \in Ranks, NEW to \in Channels, to[1] = r, NEW m,
           Booked(r, [book |-> "p2p", call |-> SendCall(to, m)]),
           sent' = [sent EXCEPT ![to] = Append(@, m)]
    PROVE  SendsInOrder'
<1> SUFFICES ASSUME NEW c \in Channels PROVE \E f : SendOrder(f, c, calls'[c[1]], sent'[c])
  BY DEF SendsInOrder
<1>1. PICK f : SendOrder(f, c, calls[c[1]], sent[c])
  BY DEF SendsInOrder
<1>2. c[1] \in Ranks /\ DOMAIN sent = Channels
  BY DEF Channels, World
<1>3. PICK e : e = [book |-> "p2p", call |-> SendCall(to, m)]
  OBVIOUS
<1>4. e.book = "p2p" /\ e.call = SendCall(to, m) /\ (Answers(e.call, PartnersOf(c)) => c = to)
  <2>1. SendCall(to, m).partners[1] = PartnersOf(to)
    BY DEF SendCall, P2P
  <2>2. PartnersOf(to) = PartnersOf(c) => c = to
    BY OneChannel
  <2> QED
    BY <1>3, <2>1, <2>2 DEF Answers
<1>5. /\ c[1] = r => IsMore(calls[r], calls'[r], e)
      /\ c[1] # r => calls'[c[1]] = calls[c[1]]
  BY <1>2, <1>3, BookedIs
<1>6. CASE c = to
  <2>1. IsSequence(sent[c])
    BY DEF World, IsSequence
  <2>2. IsMore(sent[c], sent'[c], m)
    BY <1>2, <1>6, <2>1, AppendIsMore
  <2>3. PICK cs, ds, ms, ns : cs = calls[r] /\ ds = calls'[r] /\ ms = sent[c] /\ ns = sent'[c]
    OBVIOUS
  <2>4. \E g : SendOrder(g, c, ds, ns)
    BY <1>1, <1>4, <1>5, <1>6, <2>2, <2>3, OneSend
  <2> QED
    BY <1>6, <2>3, <2>4
<1>7. CASE c # to
  <2>1. sent'[c] = sent[c] /\ ~ (e.book = "p2p" /\ Answers(e.call, PartnersOf(c)))
    BY <1>2, <1>4, <1>7
  <2>2. CASE c[1] = r
    BY <1>1, <1>5, <2>1, <2>2, OtherSend
  <2>3. CASE c[1] # r
    BY <1>1, <1>5, <2>1, <2>3
  <2> QED
    BY <2>2, <2>3
<1> QED
  BY <1>6, <1>7

\* A call that receives.
LEMMA ReceivesMore ==
    ASSUME Shape, World, ReceivesInOrder, NEW r \in Ranks, NEW d, NEW got, Makes(r, d), IsReceive(d),
           Appends(got), Orders(r, d, got)
    PROVE  ReceivesInOrder'
<1> SUFFICES ASSUME NEW c \in Channels, c[1] # c[2]
             PROVE  \E g, h : ReceiveOrder(g, h, c, calls'[c[2]], received'[c])
  BY DEF ReceivesInOrder
<1>1. PICK g, h : ReceiveOrder(g, h, c, calls[c[2]], received[c])
  BY DEF ReceivesInOrder
<1>2. /\ c[2] \in Ranks /\ IsSequence(received[c]) /\ IsSequence(got[c])
      /\ received'[c] = received[c] \o got[c]
  BY DEF Channels, World, Appends
<1>3. PICK e : e = [book |-> "p2p", call |-> d]
  OBVIOUS
<1>4. Booked(r, e) /\ e.book = "p2p" /\ e.call = d
  BY <1>3 DEF Makes, Booked
<1>5. CASE c[2] = r
  <2>1. PICK o : Gets(d, PartnersOf(c), got[c], o)
    BY <1>5 DEF Orders
  <2>2. IsMore(calls[r], calls'[r], e)
    BY <1>4, BookedIs
  <2>3. Parts(received[c], got[c], received'[c])
    BY <1>2, ConcatParts
  <2>4. PICK cs, ds, rs, ts, us :
           /\ cs = calls[r] /\ ds = calls'[r] /\ rs = received[c] /\ ts = got[c]
           /\ us = received'[c]
    OBVIOUS
  <2>5. \E a, b : ReceiveOrder(a, b, c, ds, us)
    BY <1>1, <1>4, <1>5, <2>1, <2>2, <2>3, <2>4, OneReceive
  <2> QED
    BY <1>5, <2>4, <2>5
<1>6. CASE c[2] # r
  <2>1. got[c] = <<>>
    BY <1>6 DEF Orders
  <2>2. received'[c] = received[c] /\ calls'[c[2]] = calls[c[2]]
    BY <1>2, <1>4, <1>6, <2>1, ConcatEmpty, BookedIs
  <2> QED
    BY <1>1, <2>2
<1> QED
  BY <1>5, <1>6

\* A wait makes calls that receive, and a receive.
LEMMA OrderWait ==
    ASSUME Shape, MsgInv, OrderInv, NEW r \in Ranks, Wait(r)
    PROVE  OrderInv'
<1> DEFINE qs == Current(r).reqs
           d == WaitCall(r, qs)
           g == [c \in Channels |-> Got(r, qs, c)]
<1>1. /\ Calling(r, "wait") /\ Makes(r, d) /\ sent' = sent
      /\ received' = [c \in Channels |-> received[c] \o Got(r, qs, c)]
  BY DEF Wait, Trace, Makes, WaitCall
<1>2. World
  BY DEF MsgInv
<1>3. IsSequence(qs)
  <2>1. Current(r) \in Op
    BY <1>1, <1>2, CurrentIs
  <2>2. qs \in Seq(Requests)
    BY <2>1 DEF Op
  <2> QED
    BY <2>2 DEF IsSequence
<1> HIDE DEF qs
<1>4. Orders(r, d, g) /\ d.type = "w"
  BY <1>3, WaitOrders, WaitCallIs
<1>5. PICK got : got = g
  OBVIOUS
<1>6. Appends(got) /\ Orders(r, d, got)
  <2>1. \A c \in Channels : received'[c] = received[c] \o got[c] /\ got[c] = Got(r, qs, c)
    BY <1>1, <1>5
  <2>2. \A c \in Channels : IsSequence(Got(r, qs, c))
    BY <1>3, GotIs
  <2> QED
    BY <1>4, <1>5, <2>1, <2>2 DEF Appends
<1> HIDE DEF d, g
<1>7. ReceivesInOrder'
  BY <1>1, <1>2, <1>4, <1>6, ReceivesMore DEF OrderInv, IsReceive
<1>8. SendsInOrder'
  <2>1. PICK e : e = [book |-> "p2p", call |-> d]
    OBVIOUS
  <2>2. Booked(r, e) /\ ~ IsSend(e.call)
    BY <1>1, <1>4, <2>1 DEF Makes, Booked, IsSend
  <2> QED
    BY <1>1, <2>2, SendsKept DEF OrderInv
<1> QED
  BY <1>7, <1>8 DEF OrderInv

\* A receive makes a call that receives, and completes at once.
LEMMA OrderRecv ==
    ASSUME Shape, MsgInv, OrderInv, NEW r \in Ranks, Recv(r)
    PROVE  OrderInv'
<1>1. PICK d : d = RecvCall(r)
  OBVIOUS
<1>2. Makes(r, d) /\ sent' = sent /\ d.type = "r"
  BY <1>1 DEF Recv, Posts, RecvCall, RecordP2P, Trace, PartnersOf, Makes, P2P
<1>3. PICK got : Appends(got) /\ Orders(r, d, got)
  BY <1>1, RecvGets
<1>4. ReceivesInOrder'
  BY <1>2, <1>3, ReceivesMore DEF OrderInv, IsReceive, MsgInv
<1>5. SendsInOrder'
  <2>1. PICK e : e = [book |-> "p2p", call |-> d]
    OBVIOUS
  <2>2. Booked(r, e) /\ ~ IsSend(e.call)
    BY <1>2, <2>1 DEF Makes, Booked, IsSend
  <2> QED
    BY <1>2, <2>2, SendsKept DEF OrderInv
<1> QED
  BY <1>4, <1>5 DEF OrderInv

\* The calls that send.
LEMMA OrderSend ==
    ASSUME Shape, MsgInv, OrderInv, NEW r \in Ranks, NEW type \in {"s", "S"}, NEW kind,
           Calling(r, kind), Sends(r, type), RecordP2P(r, type, To(r)), received' = received
    PROVE  OrderInv'
<1>1. PICK to, m : to = To(r) /\ m = [type |-> type, site |-> Current(r).site]
  OBVIOUS
<1>2. World
  BY DEF MsgInv
<1>3. to \in Channels /\ to[1] = r
  BY <1>1, <1>2, CurrentIs DEF To
<1>4. PICK e : e = [book |-> "p2p", call |-> SendCall(to, m)]
  OBVIOUS
<1>5. Booked(r, e)
  BY <1>1, <1>4 DEF RecordP2P, Trace, SendCall, PartnersOf, Booked
<1>6. sent' = [sent EXCEPT ![to] = Append(@, m)]
  BY <1>1 DEF Sends
<1>7. SendsInOrder'
  BY <1>2, <1>3, <1>4, <1>5, <1>6, SendsMore DEF OrderInv
<1>8. ~ IsReceive(e.call)
  BY <1>1, <1>4 DEF IsReceive, SendCall, P2P
<1>9. ReceivesInOrder'
  BY <1>5, <1>8, ReceivesKept DEF OrderInv
<1> QED
  BY <1>7, <1>9 DEF OrderInv

\* The calls that do neither.
LEMMA OrderOther ==
    ASSUME Shape, OrderInv, NEW r \in Ranks, NEW e, Booked(r, e), sent' = sent,
           received' = received, e.book = "p2p" => ~ IsSend(e.call) /\ ~ IsReceive(e.call)
    PROVE  OrderInv'
  BY SendsKept, ReceivesKept DEF OrderInv

\* Every step of the tracer keeps the order.
LEMMA OrderStep == Shape /\ MsgInv /\ OrderInv /\ [Next]_vars => OrderInv'
<1> SUFFICES ASSUME Shape, MsgInv, OrderInv, [Next]_vars PROVE OrderInv'
  OBVIOUS
<1>1. ASSUME NEW r \in Ranks, Send(r) \/ Isend(r) PROVE OrderInv'
  BY <1>1, OrderSend DEF Send, Isend
<1>2. ASSUME NEW r \in Ranks, Irecv(r) PROVE OrderInv'
  <2>1. PICK e : e = [book |-> "p2p", call |-> P2P("R", Current(r).site, <<PartnersOf(From(r))>>)]
    OBVIOUS
  <2>2. /\ Booked(r, e) /\ sent' = sent /\ received' = received
        /\ ~ IsSend(e.call) /\ ~ IsReceive(e.call)
    BY <1>2, <2>1 DEF Irecv, Posts, RecordP2P, Trace, PartnersOf, Booked, IsSend, IsReceive, P2P
  <2> QED
    BY <2>2, OrderOther
<1>3. ASSUME NEW r \in Ranks, FromRoot(r) \/ ToRoot(r) \/ AllToAll(r) PROVE OrderInv'
  <2>1. PICK e : e = [book |-> "coll", call |-> P2P("c", Current(r).site, <<>>)]
    OBVIOUS
  <2>2. Booked(r, e) /\ sent' = sent /\ received' = received /\ e.book # "p2p"
    BY <1>3, <2>1 DEF FromRoot, ToRoot, AllToAll, RecordColl, CollCall, Trace, Booked
  <2> QED
    BY <2>2, OrderOther
<1>4. ASSUME UNCHANGED <<mpi, calls, received>> PROVE OrderInv'
  BY <1>4 DEF mpi, OrderInv, SendsInOrder, ReceivesInOrder
<1>5. CASE UNCHANGED vars
  BY <1>4, <1>5 DEF vars, history
<1>6. ASSUME NEW r \in Ranks, Finalize(r) PROVE OrderInv'
  BY <1>4, <1>6 DEF Finalize
<1> QED
  BY <1>1, <1>2, <1>3, <1>5, <1>6, OrderWait, OrderRecv DEF Next

\* Nothing is ordered at first.
LEMMA OrderInit == Init => OrderInv
<1> SUFFICES ASSUME Init PROVE OrderInv
  OBVIOUS
<1>1. \A c \in Channels : /\ sent[c] = <<>> /\ received[c] = <<>>
                          /\ calls[c[1]] = <<>> /\ calls[c[2]] = <<>>
  BY DEF Init, Channels
<1>2. \A c : SendOrder(0, c, <<>>, <<>>) /\ ReceiveOrder(0, 0, c, <<>>, <<>>)
  BY EmptyIsSequence DEF SendOrder, ReceiveOrder
<1> QED
  BY <1>1, <1>2 DEF OrderInv, SendsInOrder, ReceivesInOrder

-------------------------------------------------------------------------------
(* What the files say of the messages                                          *)

LogInv == LogsAreCalls /\ WrittenAtEnd

\* A call that the tracer books keeps LogInv.
LEMMA LogTraceStep ==
    ASSUME IInv, LogInv, NEW r \in Ranks \ finalized, NEW b \in Logs, NEW c, Trace(r, b, c)
    PROVE  LogInv'
<1> DEFINE books == Noted(mem[r], b, c)
           bs == Due(books, b)
<1>1. Shape /\ bs \in SUBSET Books /\ Write(r, books, bs) /\ finalized' = finalized
  BY DEF IInv, Due, Books, Logs, Trace
<1> HIDE DEF books, bs
<1>2. PICK written \in SUBSET bs : HasWritten(r, books, bs, written)
  BY <1>1, WriteIs
<1>3. failures \in Nat /\ failures' \in Nat /\ failures <= failures'
  BY <1>1, <1>2, TracerAssumption DEF Shape, HasWritten
<1>4. \A q \in Ranks : q # r => mem'[q] = mem[q]
  BY <1>2 DEF HasWritten
<1>5. WrittenAtEnd'
  BY <1>1, <1>3, <1>4 DEF LogInv, WrittenAtEnd
<1> QED
  BY <1>5, LogsTraceStep DEF LogInv

\* MPI_Finalize keeps LogInv: it writes what is left.
LEMMA LogFinalizeStep ==
    ASSUME Shape, LogInv, NEW r \in Ranks, Finalize(r)
    PROVE  LogInv'
<1>1. /\ finalized' = finalized \cup {r} /\ calls' = calls
      /\ \A q \in Ranks : Entries(q, "p2p")' = Entries(q, "p2p")
  BY FinalizeIs DEF Books
<1>2. Write(r, mem[r], Books) /\ Books \in SUBSET Books /\ "p2p" \in Books
  BY DEF Finalize, Books
<1>3. PICK written \in SUBSET Books : HasWritten(r, mem[r], Books, written)
  BY <1>2, WriteIs
<1>4. failures \in Nat /\ failures' \in Nat /\ failures <= failures'
  BY <1>3, TracerAssumption DEF Shape, HasWritten
<1>5. \A q \in Ranks : q # r => mem'[q] = mem[q]
  BY <1>3 DEF HasWritten
<1>6. failures' = 0 => \A b \in Books : mem'[r][b] = <<>>
  <2>1. \A b \in Books : mem'[r][b] = IF b \in written THEN <<>> ELSE mem[r][b]
    BY <1>2, <1>3 DEF HasWritten
  <2>2. written = Books \/ failures' > failures
    BY <1>3 DEF HasWritten
  <2> QED
    BY <1>2, <1>4, <2>1, <2>2
<1>7. WrittenAtEnd'
  BY <1>1, <1>4, <1>5, <1>6 DEF LogInv, WrittenAtEnd
<1>8. LogsAreCalls'
  <2> SUFFICES ASSUME NEW q \in Ranks, NEW d
               PROVE  Logged(Entries(q, "p2p")', d) <=> HasMade(calls'[q], d)
    BY DEF LogsAreCalls, Logged
  <2> QED
    BY <1>1 DEF LogInv, LogsAreCalls
<1> QED
  BY <1>7, <1>8 DEF LogInv

\* A step that books nothing keeps LogInv.
LEMMA LogStillStep ==
    ASSUME LogInv, UNCHANGED vars
    PROVE  LogInv'
<1>1. mem' = mem /\ file' = file /\ failures' = failures /\ finalized' = finalized /\ calls' = calls
  BY DEF vars, history
<1>2. LogsAreCalls'
  <2> SUFFICES ASSUME NEW q \in Ranks, NEW d
               PROVE  Logged(Entries(q, "p2p")', d) <=> HasMade(calls'[q], d)
    BY DEF LogsAreCalls, Logged
  <2>1. Entries(q, "p2p")' = Entries(q, "p2p")
    BY <1>1 DEF Entries
  <2> QED
    BY <1>1, <2>1 DEF LogInv, LogsAreCalls
<1>3. WrittenAtEnd'
  BY <1>1 DEF LogInv, WrittenAtEnd
<1> QED
  BY <1>2, <1>3 DEF LogInv

\* Before the first call the logs are empty.
LEMMA LogInit == Init => LogInv
<1> SUFFICES ASSUME Init PROVE LogInv
  OBVIOUS
<1>1. ASSUME NEW r \in Ranks PROVE Entries(r, "p2p") = <<>> /\ calls[r] = <<>> /\ r \notin finalized
  <2>1. file[r]["p2p"] = <<>> /\ mem[r]["p2p"] = <<>>
    BY DEF Init, Books
  <2> QED
    BY <2>1, ConcatEmpty, EmptyIsSequence DEF Init, Entries
<1>2. 1..Len(<<>>) = {}
  BY EmptyIsSequence
<1> QED
  BY <1>1, <1>2 DEF LogInv, LogsAreCalls, WrittenAtEnd, Logged, HasMade

\* All of the tracer.
TracerInv == IInv /\ MsgInv /\ LogInv

\* Every step of the tracer keeps its invariant.
LEMMA TracerStep == TracerInv /\ [Next]_vars => TracerInv'
<1> SUFFICES ASSUME TracerInv, [Next]_vars PROVE TracerInv'
  OBVIOUS
<1>1. IInv /\ MsgInv /\ LogInv /\ Shape
  BY DEF TracerInv, IInv
<1>2. IInv' /\ MsgInv'
  BY <1>1, StepIInv, MsgStep
<1>3. LogInv'
  <2>1. CASE UNCHANGED vars
    BY <1>1, <2>1, LogStillStep
  <2>2. CASE Next
    BY <1>1, <2>2, Steps, LogTraceStep, LogFinalizeStep
  <2> QED
    BY <2>1, <2>2
<1> QED
  BY <1>2, <1>3 DEF TracerInv

\* The invariant of the tracer holds at first.
LEMMA TracerInit == Init => TracerInv
  BY InitIInv, MsgInit, LogInit DEF TracerInv

\* What a file names was called, and in the end, if all files opened, the converse.
LEMMA FilesAre ==
    ASSUME TracerInv, NEW r \in Ranks
    PROVE  /\ IsSequence(file[r]["p2p"])
           /\ \A d : Logged(file[r]["p2p"], d) => HasMade(calls[r], d)
           /\ AllFinalized /\ failures = 0 =>
                 /\ file[r]["p2p"] = Entries(r, "p2p")
                 /\ \A d : HasMade(calls[r], d) => Logged(file[r]["p2p"], d)
<1>1. IsSequence(file[r]["p2p"]) /\ IsSequence(mem[r]["p2p"])
  BY DEF TracerInv, IInv, Shape, Books
<1>2. \A d : Logged(Entries(r, "p2p"), d) <=> HasMade(calls[r], d)
  BY DEF TracerInv, LogInv, LogsAreCalls
<1>3. \A d : Logged(file[r]["p2p"], d) => Logged(Entries(r, "p2p"), d)
  BY <1>1, LoggedConcat DEF Entries
<1>4. AllFinalized /\ failures = 0 => file[r]["p2p"] = Entries(r, "p2p")
  BY <1>1, ConcatEmpty DEF TracerInv, LogInv, WrittenAtEnd, AllFinalized, Entries, Books
<1> QED
  BY <1>1, <1>2, <1>3, <1>4

\* When all have called MPI_Finalize, the files and calls stay as they are.
LEMMA Frozen == ASSUME AllFinalized, [Next]_vars PROVE UNCHANGED vars
<1>1. \A r \in Ranks : r \in finalized
  BY DEF AllFinalized
<1>2. ASSUME Next PROVE FALSE
  <2>1. PICK r \in Ranks : \/ Send(r) \/ Isend(r) \/ Recv(r) \/ Irecv(r) \/ Wait(r)
                           \/ FromRoot(r) \/ ToRoot(r) \/ AllToAll(r)
                           \/ Finalize(r)
    BY <1>2 DEF Next
  <2> QED
    BY <1>1, <2>1 DEF Send, Isend, Recv, Irecv, Wait, FromRoot, ToRoot, AllToAll,
                         FromRootOver, ToRootOver, AllToAllOver, Finalize, Calling
<1> QED
  BY <1>2

-------------------------------------------------------------------------------
(* The matching of the calls                                                   *)

\* What RemoveAt does.
LEMMA RemoveIs ==
    ASSUME NEW s, IsSequence(s), NEW i \in 1..Len(s)
    PROVE  /\ IsSequence(RemoveAt(s, i)) /\ Len(s) \in Nat /\ Len(RemoveAt(s, i)) = Len(s) - 1
           /\ \A k \in 1..(Len(s) - 1) : RemoveAt(s, i)[k] = IF k < i THEN s[k] ELSE s[k + 1]
<1>1. PICK T : s \in Seq(T)
  BY DEF IsSequence
<1> DEFINE n == Len(s)
           a == SubSeq(s, 1, i - 1)
           b == SubSeq(s, i + 1, n)
<1>2. n \in Nat /\ i \in 1..n
  BY <1>1
<1>3. a \in Seq(T) /\ Len(a) = i - 1 /\ \A k \in 1..(i - 1) : a[k] = s[k]
  BY <1>1, <1>2
<1>4. b \in Seq(T) /\ Len(b) = n - i /\ \A k \in 1..(n - i) : b[k] = s[i + k]
  BY <1>1, <1>2
<1>5. RemoveAt(s, i) = a \o b
  BY DEF RemoveAt
<1> HIDE DEF n, a, b
<1>6. /\ IsSequence(a \o b) /\ Len(a \o b) = n - 1
      /\ \A k \in 1..(n - 1) : (a \o b)[k] = IF k <= i - 1 THEN a[k] ELSE b[k - (i - 1)]
  <2>1. IsSequence(a) /\ IsSequence(b) /\ Len(a) + Len(b) = n - 1
    BY <1>2, <1>3, <1>4 DEF IsSequence
  <2> QED
    BY <1>3, <2>1, ConcatIs
<1>7. ASSUME NEW k \in 1..(n - 1) PROVE (a \o b)[k] = IF k < i THEN s[k] ELSE s[k + 1]
  <2>1. CASE k < i
    <3>1. k \in 1..(i - 1) /\ k <= i - 1
      BY <1>2, <2>1
    <3> QED
      BY <1>3, <1>6, <2>1, <3>1
  <2>2. CASE ~ (k < i)
    <3>1. k - (i - 1) \in 1..(n - i) /\ ~ (k <= i - 1) /\ i + (k - (i - 1)) = k + 1
      BY <1>2, <2>2
    <3> QED
      BY <1>4, <1>6, <2>2, <3>1
  <2> QED
    BY <2>1, <2>2
<1> QED
  BY <1>2, <1>5, <1>6, <1>7 DEF n

\* Of a sequence one element is taken away: the others stay, and there are no new ones.
Has(s, d) == \E k \in 1..Len(s) : s[k] = d

\* RemoveAt takes one element away, and no other.
LEMMA RemoveHas ==
    ASSUME NEW s, IsSequence(s), NEW i \in 1..Len(s), NEW d
    PROVE  /\ Has(RemoveAt(s, i), d) => Has(s, d)
           /\ Has(s, d) => Has(RemoveAt(s, i), d) \/ d = s[i]
<1> DEFINE n == Len(s)
           t == RemoveAt(s, i)
<1>1. /\ n \in Nat /\ Len(t) = n - 1 /\ i \in 1..n
      /\ \A k \in 1..(n - 1) : t[k] = IF k < i THEN s[k] ELSE s[k + 1]
  BY RemoveIs
<1> HIDE DEF t
<1>2. ASSUME NEW k \in 1..(n - 1) PROVE \E l \in 1..n : t[k] = s[l]
  <2>1. k \in 1..n /\ k + 1 \in 1..n
    BY <1>1
  <2> QED
    BY <1>1, <2>1
<1>3. ASSUME NEW k \in 1..n, k # i PROVE \E l \in 1..(n - 1) : t[l] = s[k]
  <2>1. CASE k < i
    <3>1. k \in 1..(n - 1)
      BY <1>1, <2>1
    <3> QED
      BY <1>1, <2>1, <3>1
  <2>2. CASE ~ (k < i)
    <3>1. k - 1 \in 1..(n - 1) /\ ~ (k - 1 < i) /\ (k - 1) + 1 = k
      BY <1>1, <1>3, <2>2
    <3> QED
      BY <1>1, <3>1
  <2> QED
    BY <2>1, <2>2
<1> QED
  BY <1>1, <1>2, <1>3 DEF Has, t

\* An edge between a call to send that a file names and one to receive, of the channel p.
EdgeOf(p, s, d) == [src |-> p.source, dest |-> p.dest, srcType |-> s.type, destType |-> d.type,
                    srcPath |-> s.site, destPath |-> d.site]
\* The calls in the files that send, and that receive, a message of the channel p.
SendOf(p, s) == Logged(file[p.source]["p2p"], s) /\ Answers(s, p)
ReceiveOf(p, d) == Logged(file[p.dest]["p2p"], d) /\ IsReceive(d) /\ Names(d, p)
Found(e, p) ==
    /\ IsMessage(p) /\ p.dest \in Ranks
    /\ \E s, d : SendOf(p, s) /\ ReceiveOf(p, d) /\ e = EdgeOf(p, s, d)
Joined(p) == \E e \in edges : Found(e, p)

\* A receive need not be looked at any more.
Settled(p) == Joined(p) \/ \A s : ~ SendOf(p, s)
Behind(r, d, j) == \/ r > pid /\ Has(ops[r], d)
                   \/ r = pid /\ \E k \in 1..Len(ops[r]) : ops[r][k] = d /\ (k > nth \/ (k = nth /\ j >= req))

Started == analysis \in {"exact", "approximate"}
OpsAreLogged == \A r \in Ranks : /\ IsSequence(ops[r])
                                 /\ \A d : Has(ops[r], d) => Logged(file[r]["p2p"], d)
EdgesAreFound == \A e \in edges : \E p : Found(e, p)
Place == /\ pid \in Nat /\ nth \in Nat \ {0} /\ req \in Nat \ {0}
         /\ req = 1 \/ (pid \in Ranks /\ nth <= Len(ops[pid]))
SendsAreLeft ==
    \A r \in Ranks : \A s : Logged(file[r]["p2p"], s) /\ IsSend(s) => Has(ops[r], s) \/ Joined(s.partners[1])
ReceivesAreLeft ==
    \A r \in Ranks : \A d : Logged(file[r]["p2p"], d) /\ IsReceive(d) =>
        \A j \in 1..Len(d.partners) : IsMessage(d.partners[j]) => Behind(r, d, j) \/ Settled(d.partners[j])

MatchInv ==
    /\ analysis = "none" => pid = 0 /\ nth = 1 /\ req = 1 /\ edges = {}
    /\ analysis # "none" => AllFinalized
    /\ analysis \in {"crashed", "overrun"} => edges = {}
    /\ DOMAIN ops = Ranks
    /\ Started => Place /\ OpsAreLogged /\ EdgesAreFound
    /\ analysis = "approximate" => SendsAreLeft /\ ReceivesAreLeft

\* Both ends of a message are processes, and its receiver is the one that names it.
LEMMA PartnerIs ==
    ASSUME TracerInv, NEW r \in Ranks, NEW d, Logged(file[r]["p2p"], d), IsReceive(d),
           NEW p, Names(d, p), IsMessage(p)
    PROVE  p.dest = r /\ p.source \in Ranks /\ p.source # r
<1>1. HasMade(calls[r], d)
  BY FilesAre
<1>2. PICK c \in Channels : c[2] = r /\ p = PartnersOf(c)
  BY <1>1 DEF TracerInv, MsgInv, MadeAreReceives
<1> QED
  BY <1>2 DEF PartnersOf, Partners, IsMessage

\* The exact analysis begins with calls that the files name.
LEMMA StartTraces ==
    ASSUME TracerInv, MatchInv, StartMatch, ReadTraces, vars' = vars
    PROVE  MatchInv'
<1>1. file' = file /\ finalized' = finalized
  BY DEF vars
<1>2. analysis = "none" /\ AllFinalized /\ UNCHANGED <<pid, nth, req, edges>>
  BY DEF StartMatch
<1>3. pid = 0 /\ nth = 1 /\ req = 1 /\ edges = {} /\ DOMAIN ops = Ranks
  BY <1>2 DEF MatchInv
<1>4. CASE ~ Readable
  BY <1>1, <1>2, <1>3, <1>4 DEF MatchInv, ReadTraces, AllFinalized, Started
<1>5. CASE Readable
  <2>1. /\ analysis' = "exact"
        /\ ops' = [r \in Ranks |-> [i \in DOMAIN P2PTrace(r) |-> file[r].p2p[P2PTrace(r)[i][2]].call]]
    BY <1>5 DEF ReadTraces
  <2>2. ASSUME NEW r \in Ranks
        PROVE  /\ IsSequence(ops'[r])
               /\ \A d : Has(ops'[r], d) => Logged(file[r]["p2p"], d)
    <3> DEFINE trace == file[r]["trace"]
               log == file[r]["p2p"]
               S == {i \in DOMAIN trace : trace[i][1] = "p2p"}
               t == Selected(trace, S)
               n == Cardinality(S)
    <3>1. IsSequence(trace) /\ IsSequence(log)
      BY DEF TracerInv, IInv, Shape, Books
    <3>2. DOMAIN trace = 1..Len(trace) /\ DOMAIN log = 1..Len(log)
      BY <3>1, LenIsNat
    <3>3. P2PTrace(r) = t
      BY DEF P2PTrace
    <3>4. \A i \in DOMAIN t : t[i][2] \in 1..Len(log)
      BY <1>5, <3>2, <3>3 DEF Readable
    <3>5. ops'[r] = [i \in DOMAIN t |-> log[t[i][2]].call]
      BY <2>1, <3>3
    <3>6. S \in SUBSET (1..Len(trace))
      BY <3>2
    <3> HIDE DEF S, trace, log
    <3>7. n \in Nat /\ DOMAIN t = 1..n
      BY <3>1, <3>6, SelectedIs
    <3> HIDE DEF t, n
    <3>8. ops'[r] = [i \in 1..n |-> ops'[r][i]] /\ \A i \in 1..n : ops'[r][i] = log[t[i][2]].call
      BY <3>5, <3>7
    <3>9. IsSequence(ops'[r]) /\ Len(ops'[r]) = n
      BY <3>7, <3>8, IsSequenceOf
    <3> QED
      BY <3>4, <3>7, <3>8, <3>9 DEF Has, Logged, log
  <2>3. OpsAreLogged'
    BY <1>1, <2>2 DEF OpsAreLogged
  <2>4. Place' /\ EdgesAreFound' /\ DOMAIN ops' = Ranks
    BY <1>2, <1>3, <2>1 DEF Place, EdgesAreFound
  <2>5. AllFinalized'
    BY <1>1, <1>2 DEF AllFinalized
  <2> QED
    BY <2>1, <2>3, <2>4, <2>5 DEF MatchInv
<1> QED
  BY <1>4, <1>5

\* An entry that is too long ends the analysis before it has found anything.
LEMMA StartOverrun ==
    ASSUME MatchInv, StartMatch, Overrun, vars' = vars
    PROVE  MatchInv'
<1>1. finalized' = finalized
  BY DEF vars
<1>2. analysis = "none" /\ AllFinalized /\ UNCHANGED <<pid, nth, req, edges>>
  BY DEF StartMatch
<1>3. edges = {} /\ DOMAIN ops = Ranks
  BY <1>2 DEF MatchInv
<1>4. analysis' = "overrun" /\ ops' = ops
  BY DEF Overrun
<1>5. AllFinalized'
  BY <1>1, <1>2 DEF AllFinalized
<1> QED
  BY <1>2, <1>3, <1>4, <1>5 DEF MatchInv, Started

\* The approximate analysis begins with all calls that the files name, none matched.
LEMMA StartLogs ==
    ASSUME TracerInv, MatchInv, StartMatch, ReadLogs, vars' = vars
    PROVE  MatchInv'
<1>1. file' = file /\ finalized' = finalized
  BY DEF vars
<1>2. analysis = "none" /\ AllFinalized /\ UNCHANGED <<pid, nth, req, edges>>
  BY DEF StartMatch
<1>3. pid' = 0 /\ nth' = 1 /\ req' = 1 /\ edges' = {}
  BY <1>2 DEF MatchInv
<1>4. analysis' = "approximate" /\ ops' = [r \in Ranks |-> [i \in DOMAIN file[r].p2p |-> file[r].p2p[i].call]]
  BY DEF ReadLogs
<1>5. ASSUME NEW r \in Ranks
      PROVE  /\ IsSequence(ops'[r])
             /\ \A d : Has(ops'[r], d) <=> Logged(file[r]["p2p"], d)
  <2> DEFINE log == file[r]["p2p"]
             n == Len(log)
  <2>1. IsSequence(log)
    BY DEF TracerInv, IInv, Shape, Books
  <2>2. DOMAIN log = 1..n /\ n \in Nat
    BY <2>1, LenIsNat
  <2>3. ops'[r] = [i \in DOMAIN log |-> log[i].call]
    BY <1>4
  <2> HIDE DEF log, n
  <2>4. ops'[r] = [i \in 1..n |-> ops'[r][i]] /\ \A i \in 1..n : ops'[r][i] = log[i].call
    BY <2>2, <2>3
  <2>5. IsSequence(ops'[r]) /\ Len(ops'[r]) = n
    BY <2>2, <2>4, IsSequenceOf
  <2> QED
    BY <2>4, <2>5 DEF Has, Logged, log, n
<1>6. OpsAreLogged'
  BY <1>1, <1>5 DEF OpsAreLogged
<1>7. Place' /\ EdgesAreFound' /\ DOMAIN ops' = Ranks
  BY <1>3, <1>4 DEF Place, EdgesAreFound
<1>8. SendsAreLeft'
  BY <1>1, <1>5 DEF SendsAreLeft
<1>9. ReceivesAreLeft'
  <2> SUFFICES ASSUME NEW r \in Ranks, NEW d, Logged(file[r]["p2p"], d), NEW j \in 1..Len(d.partners)
               PROVE  Behind(r, d, j)'
    BY <1>1 DEF ReceivesAreLeft
  <2>1. Has(ops'[r], d)
    BY <1>5
  <2>2. PICK k \in 1..Len(ops'[r]) : ops'[r][k] = d
    BY <2>1 DEF Has
  <2>3. r \in Nat /\ (r = 0 \/ r > 0)
    BY TracerAssumption
  <2>4. k > 1 \/ (k = 1 /\ j >= 1)
    OBVIOUS
  <2> QED
    BY <1>3, <2>1, <2>2, <2>3, <2>4 DEF Behind
<1>10. AllFinalized'
  BY <1>1, <1>2 DEF AllFinalized
<1> QED
  BY <1>4, <1>6, <1>7, <1>8, <1>9, <1>10 DEF MatchInv

\* What is joined stays joined.
LEMMA StillJoined ==
    ASSUME file' = file, edges \subseteq edges', NEW p
    PROVE  /\ \A e : Found(e, p)' <=> Found(e, p)
           /\ Joined(p) => Joined(p)'
           /\ Settled(p) => Settled(p)'
<1>1. \A s, d : (SendOf(p, s)' <=> SendOf(p, s)) /\ (ReceiveOf(p, d)' <=> ReceiveOf(p, d))
  BY DEF SendOf, ReceiveOf
<1>2. \A e : Found(e, p)' <=> Found(e, p)
  BY <1>1 DEF Found
<1>3. Joined(p) => Joined(p)'
  BY <1>2 DEF Joined
<1> QED
  BY <1>1, <1>2, <1>3 DEF Settled

\* The i-th call left of the sender is taken, and joined to the receiver.
Matches(p, i) ==
    /\ i \in 1..Len(ops[p.source]) /\ Answers(ops[p.source][i], p)
    /\ \A k \in 1..Len(ops[p.source]) : Answers(ops[p.source][k], p) => i <= k
    /\ ops' = [ops EXCEPT ![p.source] = RemoveAt(@, i)]
    /\ edges' = edges \cup {Edge(p, ops[p.source][i])}
\* What Match does: there is no send, or the first one is taken and joined.
LEMMA MatchIs ==
    ASSUME NEW p, p.source \in Ranks, DOMAIN ops = Ranks, OpsAreLogged, Match(p)
    PROVE  \/ /\ \A i \in 1..Len(ops[p.source]) : ~ Answers(ops[p.source][i], p)
              /\ ops' = ops /\ edges' = edges
           \/ \E i : Matches(p, i)
<1> DEFINE s == ops[p.source]
           found == {i \in DOMAIN s : Answers(s[i], p)}
<1>1. IsSequence(s)
  BY DEF OpsAreLogged
<1>2. DOMAIN s = 1..Len(s) /\ Len(s) \in Nat
  BY <1>1, LenIsNat
<1>3. MatchingSend(p) = IF found = {} THEN 0 ELSE Min(found)
  BY DEF MatchingSend
<1>4. CASE found = {}
  BY <1>2, <1>3, <1>4 DEF Match
<1>5. CASE found # {}
  <2>1. PICK m \in found : \A k \in found : m <= k
    <3>1. found \in SUBSET Nat
      BY <1>2
    <3> HIDE DEF found
    <3> QED
      BY <1>5, <3>1, LeastNumber
  <2>2. Min(found) \in found /\ \A k \in found : Min(found) <= k
    BY <2>1 DEF Min
  <2>3. /\ MatchingSend(p) \in found /\ MatchingSend(p) # 0
        /\ \A k \in found : MatchingSend(p) <= k
    BY <1>2, <1>3, <1>5, <2>2
  <2> QED
    BY <1>2, <2>3 DEF Match, Matches
<1> QED
  BY <1>4, <1>5

\* What the entries are behind the process that is matched.
LEMMA BehindNext ==
    ASSUME MatchInv, Started, pid \in Ranks, nth <= Len(ops[pid]), NextRequest, pid' = pid,
           ops'[pid] = ops[pid], NEW r \in Ranks, NEW d, NEW j \in 1..Len(d.partners),
           \A q \in Ranks : q > pid => (Has(ops[q], d) => Has(ops'[q], d)), Behind(r, d, j)
    PROVE  Behind(r, d, j)' \/ (r = pid /\ d = Receiver /\ j = req)
<1>1. /\ pid \in Nat /\ nth \in Nat \ {0} /\ req \in Nat \ {0} /\ r \in Nat
  BY TracerAssumption DEF MatchInv, Place
<1>2. CASE r > pid /\ Has(ops[r], d)
  BY <1>2 DEF Behind
<1>3. CASE r = pid /\ \E k \in 1..Len(ops[r]) : ops[r][k] = d /\ (k > nth \/ (k = nth /\ j >= req))
  <2>1. PICK k \in 1..Len(ops[pid]) : ops[pid][k] = d /\ (k > nth \/ (k = nth /\ j >= req))
    BY <1>3
  <2>2. CASE k = nth /\ j = req
    BY <1>3, <2>1, <2>2 DEF Receiver
  <2>3. CASE k > nth \/ (k = nth /\ j > req)
    <3>1. k > nth' \/ (k = nth' /\ j >= req')
      <4>1. CASE req < Len(Receiver.partners)
        BY <1>1, <2>3, <4>1 DEF NextRequest
      <4>2. CASE ~ (req < Len(Receiver.partners))
        <5>1. req' = 1 /\ nth' = nth + 1
          BY <4>2 DEF NextRequest
        <5>2. ~ (k = nth /\ j > req)
          BY <1>1, <2>1, <4>2 DEF Receiver
        <5> QED
          BY <1>1, <2>3, <5>1, <5>2
      <4> QED
        BY <4>1, <4>2
    <3> QED
      BY <1>3, <2>1, <3>1 DEF Behind
  <2> QED
    BY <1>1, <2>1, <2>2, <2>3
<1> QED
  BY <1>2, <1>3 DEF Behind

\* The next request is a place in the calls again.
LEMMA PlaceNext ==
    ASSUME MatchInv, Started, pid \in Ranks, nth <= Len(ops[pid]), NextRequest, pid' = pid,
           ops'[pid] = ops[pid]
    PROVE  Place'
<1>1. /\ pid \in Nat /\ nth \in Nat \ {0} /\ req \in Nat \ {0}
  BY DEF MatchInv, Place
<1>2. CASE req < Len(Receiver.partners)
  <2>1. req' = req + 1 /\ nth' = nth
    BY <1>2 DEF NextRequest
  <2> QED
    BY <1>1, <2>1 DEF Place
<1>3. CASE ~ (req < Len(Receiver.partners))
  <2>1. req' = 1 /\ nth' = nth + 1
    BY <1>3 DEF NextRequest
  <2> QED
    BY <1>1, <2>1 DEF Place
<1> QED
  BY <1>2, <1>3

\* A request that is not matched.
LEMMA SkipRequest ==
    ASSUME TracerInv, MatchInv, MatchRequest, vars' = vars, ops' = ops, edges' = edges,
           \/ ~ (IsReceive(Receiver) /\ req <= Len(Receiver.partners) /\ IsMessage(Wanted))
           \/ analysis = "approximate" => Settled(Wanted)
    PROVE  MatchInv'
<1>1. /\ Started /\ pid \in Ranks /\ nth <= Len(ops[pid]) /\ NextRequest /\ pid' = pid
      /\ analysis' = analysis /\ file' = file /\ finalized' = finalized
  BY DEF MatchRequest, Started, vars
<1>2. Place'
  BY <1>1, PlaceNext
<1>3. OpsAreLogged' /\ EdgesAreFound'
  BY <1>1, StillJoined DEF MatchInv, OpsAreLogged, EdgesAreFound
<1>4. ASSUME analysis = "approximate" PROVE SendsAreLeft'
  BY <1>1, <1>4, StillJoined DEF MatchInv, SendsAreLeft
<1>5. ASSUME analysis = "approximate" PROVE ReceivesAreLeft'
  <2> SUFFICES ASSUME NEW r \in Ranks, NEW d, Logged(file[r]["p2p"], d), IsReceive(d),
                      NEW j \in 1..Len(d.partners), IsMessage(d.partners[j])
               PROVE  Behind(r, d, j)' \/ Settled(d.partners[j])'
    BY <1>1 DEF ReceivesAreLeft
  <2>1. Behind(r, d, j) \/ Settled(d.partners[j])
    BY <1>5 DEF MatchInv, ReceivesAreLeft
  <2>2. CASE Settled(d.partners[j])
    BY <1>1, <2>2, StillJoined
  <2>3. CASE Behind(r, d, j)
    <3>1. Behind(r, d, j)' \/ (r = pid /\ d = Receiver /\ j = req)
      BY <1>1, <2>3, BehindNext
    <3>2. CASE r = pid /\ d = Receiver /\ j = req
      <4>1. IsReceive(Receiver) /\ req <= Len(Receiver.partners) /\ Wanted = d.partners[j]
        BY <3>2 DEF Wanted
      <4>2. Settled(Wanted)
        BY <1>5, <4>1
      <4> QED
        BY <1>1, <4>1, <4>2, StillJoined
    <3> QED
      BY <3>1, <3>2
  <2> QED
    BY <2>1, <2>2, <2>3
<1>6. AllFinalized' /\ DOMAIN ops' = Ranks
  BY <1>1 DEF AllFinalized, MatchInv, Started
<1> QED
  BY <1>1, <1>2, <1>3, <1>4, <1>5, <1>6 DEF MatchInv, Started

\* The receiver that is matched is a call the file of its process names.
LEMMA ReceiverIs ==
    ASSUME TracerInv, MatchInv, Started, pid \in Ranks, nth <= Len(ops[pid]),
           IsReceive(Receiver), req <= Len(Receiver.partners), IsMessage(Wanted)
    PROVE  /\ Logged(file[pid]["p2p"], Receiver) /\ Names(Receiver, Wanted)
           /\ Wanted.dest = pid /\ Wanted.source \in Ranks /\ Wanted.source # pid
<1>1. nth \in Nat \ {0} /\ req \in Nat \ {0}
  BY DEF MatchInv, Place
<1>2. Len(ops[pid]) \in Nat
  BY LenIsNat DEF MatchInv, OpsAreLogged
<1>3. Has(ops[pid], Receiver)
  BY <1>1, <1>2 DEF Has, Receiver
<1>4. Logged(file[pid]["p2p"], Receiver)
  BY <1>3 DEF MatchInv, OpsAreLogged
<1>5. Names(Receiver, Wanted)
  <2>1. req \in 1..Len(Receiver.partners)
    BY <1>1
  <2> QED
    BY <2>1 DEF Names, Wanted
<1> QED
  BY <1>4, <1>5, PartnerIs

\* A request that gets a send.
LEMMA JoinRequest ==
    ASSUME TracerInv, MatchInv, MatchRequest, vars' = vars, NEW i, Matches(Wanted, i),
           IsReceive(Receiver) /\ req <= Len(Receiver.partners) /\ IsMessage(Wanted)
    PROVE  MatchInv'
<1>0. PICK p, s, t : p = Wanted /\ s = ops[p.source][i] /\ t = ops[p.source]
  OBVIOUS
<1>1. /\ Started /\ pid \in Ranks /\ nth <= Len(ops[pid]) /\ NextRequest /\ pid' = pid
      /\ analysis' = analysis /\ file' = file /\ finalized' = finalized
  BY DEF MatchRequest, Started, vars
<1>2. /\ Logged(file[pid]["p2p"], Receiver) /\ Names(Receiver, p)
      /\ p.dest = pid /\ p.source \in Ranks /\ p.source # pid
  BY <1>0, <1>1, ReceiverIs
<1>3. /\ i \in 1..Len(t) /\ Answers(s, p) /\ IsSequence(t) /\ DOMAIN ops = Ranks
      /\ ops' = [ops EXCEPT ![p.source] = RemoveAt(t, i)] /\ edges' = edges \cup {Edge(p, s)}
  BY <1>0, <1>1, <1>2 DEF Matches, MatchInv, OpsAreLogged
<1>4. /\ DOMAIN ops' = Ranks /\ ops'[p.source] = RemoveAt(t, i) /\ ops'[pid] = ops[pid]
      /\ \A r \in Ranks : r # p.source => ops'[r] = ops[r]
  BY <1>0, <1>1, <1>2, <1>3
<1>5. ASSUME NEW r \in Ranks, NEW d
      PROVE  /\ Has(ops'[r], d) => Has(ops[r], d)
             /\ Has(ops[r], d) => Has(ops'[r], d) \/ (r = p.source /\ d = s)
  BY <1>0, <1>3, <1>4, RemoveHas
<1>6. Found(Edge(p, s), p)
  <2>1. Has(t, s)
    BY <1>0, <1>3 DEF Has
  <2>2. Logged(file[p.source]["p2p"], s)
    BY <1>0, <1>1, <1>2, <2>1 DEF MatchInv, OpsAreLogged
  <2>3. SendOf(p, s) /\ ReceiveOf(p, Receiver)
    BY <1>2, <1>3, <2>2 DEF SendOf, ReceiveOf
  <2>4. Edge(p, s) = EdgeOf(p, s, Receiver)
    BY <1>2 DEF Edge, EdgeOf
  <2> QED
    BY <1>0, <1>1, <1>2, <2>3, <2>4 DEF Found
<1>7. Joined(p)'
  BY <1>1, <1>3, <1>6, StillJoined DEF Joined
<1>8. edges \subseteq edges'
  BY <1>3
<1>9. Place'
  BY <1>1, <1>4, PlaceNext
<1>10. EdgesAreFound'
  <2> SUFFICES ASSUME NEW e \in edges' PROVE \E q : Found(e, q)'
    BY DEF EdgesAreFound
  <2>1. \E q : Found(e, q)
    BY <1>1, <1>3, <1>6 DEF MatchInv, EdgesAreFound
  <2> QED
    BY <1>1, <1>8, <2>1, StillJoined
<1>11. OpsAreLogged'
  <2> SUFFICES ASSUME NEW r \in Ranks
               PROVE  IsSequence(ops'[r]) /\ \A d : Has(ops'[r], d) => Logged(file[r]["p2p"], d)
    BY <1>1 DEF OpsAreLogged
  <2>1. IsSequence(ops[r]) /\ \A d : Has(ops[r], d) => Logged(file[r]["p2p"], d)
    BY <1>1 DEF MatchInv, OpsAreLogged
  <2>2. IsSequence(ops'[r])
    BY <1>0, <1>3, <1>4, <2>1, RemoveIs
  <2> QED
    BY <1>5, <2>1, <2>2
<1>20. p = Wanted /\ IsSend(s) /\ s.partners[1] = p
  BY <1>0, <1>3 DEF Answers, IsSend
<1>12. ASSUME analysis = "approximate" PROVE SendsAreLeft'
  <2> SUFFICES ASSUME NEW r \in Ranks, NEW d, Logged(file[r]["p2p"], d), IsSend(d)
               PROVE  Has(ops'[r], d) \/ Joined(d.partners[1])'
    BY <1>1 DEF SendsAreLeft
  <2>1. Has(ops[r], d) \/ Joined(d.partners[1])
    BY <1>12 DEF MatchInv, SendsAreLeft
  <2>2. CASE Joined(d.partners[1])
    BY <1>1, <1>8, <2>2, StillJoined
  <2>3. CASE Has(ops[r], d)
    BY <1>5, <1>7, <1>20, <2>3
  <2> QED
    BY <2>1, <2>2, <2>3
<1>13. ASSUME analysis = "approximate" PROVE ReceivesAreLeft'
  <2> SUFFICES ASSUME NEW r \in Ranks, NEW d, Logged(file[r]["p2p"], d), IsReceive(d),
                      NEW j \in 1..Len(d.partners), IsMessage(d.partners[j])
               PROVE  Behind(r, d, j)' \/ Settled(d.partners[j])'
    BY <1>1 DEF ReceivesAreLeft
  <2>1. Behind(r, d, j) \/ Settled(d.partners[j])
    BY <1>13 DEF MatchInv, ReceivesAreLeft
  <2>2. CASE Settled(d.partners[j])
    BY <1>1, <1>8, <2>2, StillJoined
  <2>3. CASE Behind(r, d, j)
    <3>1. d # s
      BY <1>20 DEF IsSend, IsReceive
    <3>2. \A q \in Ranks : Has(ops[q], d) => Has(ops'[q], d)
      BY <1>5, <3>1
    <3>3. Behind(r, d, j)' \/ (r = pid /\ d = Receiver /\ j = req)
      BY <1>1, <1>4, <2>3, <3>2, BehindNext
    <3>4. CASE r = pid /\ d = Receiver /\ j = req
      BY <1>7, <1>20, <3>4 DEF Wanted, Settled
    <3> QED
      BY <3>3, <3>4
  <2> QED
    BY <2>1, <2>2, <2>3
<1>14. AllFinalized'
  BY <1>1 DEF AllFinalized, MatchInv, Started
<1> QED
  BY <1>1, <1>4, <1>9, <1>10, <1>11, <1>12, <1>13, <1>14 DEF MatchInv, Started

\* Every request that is looked at keeps MatchInv.
LEMMA RequestStep ==
    ASSUME TracerInv, MatchInv, MatchRequest, vars' = vars
    PROVE  MatchInv'
<1>1. /\ Started /\ pid \in Ranks /\ nth <= Len(ops[pid])
  BY DEF MatchRequest, Started
<1> DEFINE matched == IsReceive(Receiver) /\ req <= Len(Receiver.partners) /\ IsMessage(Wanted)
<1>2. CASE ~ matched
  <2>1. ops' = ops /\ edges' = edges
    BY <1>2 DEF MatchRequest
  <2> QED
    BY <1>2, <2>1, SkipRequest
<1>3. CASE matched
  <2>1. Match(Wanted)
    BY <1>3 DEF MatchRequest
  <2>2. Wanted.source \in Ranks
    BY <1>3 DEF IsMessage
  <2>3. DOMAIN ops = Ranks /\ OpsAreLogged
    BY <1>1 DEF MatchInv
  <2>4. CASE \E i : Matches(Wanted, i)
    BY <1>3, <2>4, JoinRequest
  <2>5. CASE /\ \A i \in 1..Len(ops[Wanted.source]) : ~ Answers(ops[Wanted.source][i], Wanted)
             /\ ops' = ops /\ edges' = edges
    <3>1. ASSUME analysis = "approximate" PROVE Settled(Wanted)
      <4> SUFFICES ASSUME NEW s, SendOf(Wanted, s) PROVE Joined(Wanted)
        BY DEF Settled
      <4>1. Logged(file[Wanted.source]["p2p"], s) /\ IsSend(s) /\ s.partners[1] = Wanted
        BY DEF SendOf, Answers, IsSend
      <4>2. Has(ops[Wanted.source], s) \/ Joined(Wanted)
        BY <2>2, <3>1, <4>1 DEF MatchInv, SendsAreLeft
      <4>3. ~ Has(ops[Wanted.source], s)
        BY <2>5 DEF Has, SendOf
      <4> QED
        BY <4>2, <4>3
    <3> QED
      BY <2>5, <3>1, SkipRequest
  <2> QED
    BY <2>1, <2>2, <2>3, <2>4, <2>5, MatchIs
<1> QED
  BY <1>2, <1>3

\* The step to the next process keeps MatchInv: nothing of the last one is left.
LEMMA ProcessStep ==
    ASSUME TracerInv, MatchInv, NextProcess
    PROVE  MatchInv'
<1>1. /\ Started /\ pid \in Ranks /\ nth > Len(ops[pid]) /\ pid' = pid + 1 /\ nth' = 1 /\ req' = req
      /\ analysis' = analysis /\ ops' = ops /\ edges' = edges /\ file' = file /\ finalized' = finalized
  BY DEF NextProcess, Started, vars
<1>2. pid \in Nat /\ nth \in Nat \ {0} /\ Len(ops[pid]) \in Nat
  BY <1>1, LenIsNat DEF MatchInv, Place, OpsAreLogged
<1>3. req = 1
  BY <1>1, <1>2 DEF MatchInv, Place
<1>4. Place'
  BY <1>1, <1>2, <1>3 DEF Place
<1>5. OpsAreLogged' /\ EdgesAreFound'
  BY <1>1, StillJoined DEF MatchInv, OpsAreLogged, EdgesAreFound
<1>6. ASSUME analysis = "approximate" PROVE SendsAreLeft'
  BY <1>1, <1>6, StillJoined DEF MatchInv, SendsAreLeft
<1>7. ASSUME analysis = "approximate" PROVE ReceivesAreLeft'
  <2> SUFFICES ASSUME NEW r \in Ranks, NEW d, Logged(file[r]["p2p"], d), IsReceive(d),
                      NEW j \in 1..Len(d.partners), IsMessage(d.partners[j])
               PROVE  Behind(r, d, j)' \/ Settled(d.partners[j])'
    BY <1>1 DEF ReceivesAreLeft
  <2>1. Behind(r, d, j) \/ Settled(d.partners[j])
    BY <1>7 DEF MatchInv, ReceivesAreLeft
  <2>2. CASE Settled(d.partners[j])
    BY <1>1, <2>2, StillJoined
  <2>3. CASE Behind(r, d, j)
    <3>1. r > pid /\ Has(ops[r], d)
      BY <1>1, <1>2, <2>3 DEF Behind
    <3>2. PICK k \in 1..Len(ops[r]) : ops[r][k] = d
      BY <3>1 DEF Has
    <3>3. r \in Nat /\ (r > pid + 1 \/ r = pid + 1)
      BY <1>2, <3>1, TracerAssumption
    <3>4. k > 1 \/ (k = 1 /\ j >= 1)
      OBVIOUS
    <3> QED
      BY <1>1, <1>3, <3>1, <3>2, <3>3, <3>4 DEF Behind
  <2> QED
    BY <2>1, <2>2, <2>3
<1>8. AllFinalized' /\ DOMAIN ops' = Ranks
  BY <1>1 DEF AllFinalized, MatchInv, Started
<1> QED
  BY <1>1, <1>4, <1>5, <1>6, <1>7, <1>8 DEF MatchInv, Started

\* A step of the processes comes before the analysis.
LEMMA StillMatch ==
    ASSUME TracerInv, MatchInv, UNCHANGED matching, [Next]_vars
    PROVE  MatchInv'
<1>1. UNCHANGED <<analysis, ops, pid, nth, req, edges>>
  BY DEF matching
<1>2. CASE analysis = "none"
  BY <1>1, <1>2 DEF MatchInv, Started
<1>3. CASE analysis # "none"
  <2>1. AllFinalized /\ UNCHANGED vars
    BY <1>3, Frozen DEF MatchInv
  <2>2. file' = file /\ finalized' = finalized
    BY <2>1 DEF vars
  <2>3. AllFinalized' /\ DOMAIN ops' = Ranks
    BY <1>1, <2>1, <2>2 DEF AllFinalized, MatchInv
  <2>4. Started => Place' /\ OpsAreLogged' /\ EdgesAreFound'
    BY <1>1, <2>2, StillJoined DEF MatchInv, Place, OpsAreLogged, EdgesAreFound
  <2>5. analysis = "approximate" => SendsAreLeft'
    BY <1>1, <2>2, StillJoined DEF MatchInv, SendsAreLeft
  <2>6. analysis = "approximate" => ReceivesAreLeft'
    <3> SUFFICES ASSUME analysis = "approximate",
                        NEW r \in Ranks, NEW d, Logged(file[r]["p2p"], d), IsReceive(d),
                        NEW j \in 1..Len(d.partners), IsMessage(d.partners[j])
                 PROVE  Behind(r, d, j)' \/ Settled(d.partners[j])'
      BY <2>2 DEF ReceivesAreLeft
    <3>1. Behind(r, d, j)' <=> Behind(r, d, j)
      BY <1>1 DEF Behind
    <3>2. Behind(r, d, j) \/ Settled(d.partners[j])
      BY DEF MatchInv, ReceivesAreLeft
    <3> QED
      BY <1>1, <2>2, <3>1, <3>2, StillJoined
  <2> QED
    BY <1>1, <2>3, <2>4, <2>5, <2>6 DEF MatchInv, Started
<1> QED
  BY <1>2, <1>3

AllInv == TracerInv /\ MatchInv /\ GInv

\* Every step keeps the invariants of the three parts.
LEMMA AllStep == AllInv /\ [MpiNext]_MpiVars => AllInv'
<1> SUFFICES ASSUME AllInv, [MpiNext]_MpiVars PROVE AllInv'
  OBVIOUS
<1>1. TracerInv /\ MatchInv /\ GInv
  BY DEF AllInv
<1>2. GInv'
  BY <1>1, MpiStep
<1>3. \/ Next /\ UNCHANGED matching
      \/ MatchNext
      \/ UNCHANGED vars /\ UNCHANGED matching
  BY DEF MpiNext, MpiVars
<1>4. MatchNext => UNCHANGED vars
  BY DEF MatchNext, StartMatch, MatchRequest, NextProcess
<1>5. TracerInv'
  BY <1>1, <1>3, <1>4, TracerStep
<1>6. ASSUME MatchNext PROVE MatchInv'
  <2>1. vars' = vars
    BY <1>4, <1>6
  <2>2. CASE StartMatch
    BY <1>1, <2>1, <2>2, StartOverrun, StartTraces, StartLogs DEF StartMatch
  <2>3. CASE MatchRequest
    BY <1>1, <2>1, <2>3, RequestStep
  <2>4. CASE NextProcess
    BY <1>1, <2>4, ProcessStep
  <2> QED
    BY <1>6, <2>2, <2>3, <2>4 DEF MatchNext
<1>7. MatchInv'
  BY <1>1, <1>3, <1>6, StillMatch
<1> QED
  BY <1>2, <1>5, <1>7 DEF AllInv

\* They hold at first,
LEMMA AllInit == MpiInit => AllInv
<1> SUFFICES ASSUME MpiInit PROVE AllInv
  OBVIOUS
<1>1. TracerInv /\ GInv
  BY TracerInit, InitGInv DEF MpiInit
<1>2. MatchInv
  BY DEF MpiInit, MatchInit, MatchInv, Started
<1> QED
  BY <1>1, <1>2 DEF AllInv

\* and so throughout.
LEMMA AllInvariant == MpiSpec => []AllInv
  BY AllInit, AllStep, PTL DEF MpiSpec

\* The messages of a channel.
LEMMA SentIs ==
    ASSUME TracerInv, NEW c \in Channels
    PROVE  /\ Len(sent[c]) \in Nat /\ DOMAIN sent[c] = 1..Len(sent[c])
           /\ \A k \in 1..Len(sent[c]) : sent[c][k].type \in {"s", "S"} /\ sent[c][k].site \in Sites
<1> DEFINE M == [type : {"s", "S"}, site : Sites]
<1>1. sent[c] \in Seq(M)
  BY DEF TracerInv, MsgInv, World
<1>2. \A m \in M : m.type \in {"s", "S"} /\ m.site \in Sites
  OBVIOUS
<1> HIDE DEF M
<1>3. /\ Len(sent[c]) \in Nat /\ DOMAIN sent[c] = 1..Len(sent[c])
      /\ \A k \in 1..Len(sent[c]) : sent[c][k] \in M
  BY <1>1
<1> QED
  BY <1>2, <1>3

\* A call to send or to receive that a file names is a message of the channel.
LEMMA FoundIs ==
    ASSUME TracerInv, NEW e, NEW p, Found(e, p)
    PROVE  \E c \in Channels :
              /\ p = PartnersOf(c) /\ e.src = c[1] /\ e.dest = c[2]
              /\ e.srcPath \in Sites /\ e.destPath \in Sites
              /\ \E k \in 1..Len(sent[c]) : e.srcType = sent[c][k].type /\ e.srcPath = sent[c][k].site
              /\ \E i \in 1..Len(received[c]) : /\ e.destType = received[c][i].type
                                                /\ e.destPath = received[c][i].site
              /\ e = [src |-> c[1], dest |-> c[2], srcType |-> e.srcType, destType |-> e.destType,
                      srcPath |-> e.srcPath, destPath |-> e.destPath]
<1>1. PICK s, d : SendOf(p, s) /\ ReceiveOf(p, d) /\ e = EdgeOf(p, s, d)
  BY DEF Found
<1>2. IsMessage(p) /\ p.source \in Ranks /\ p.dest \in Ranks
  BY DEF Found, IsMessage
<1>3. HasMade(calls[p.source], s) /\ IsSend(s) /\ s.partners[1] = p
  BY <1>1, <1>2, FilesAre DEF SendOf, Answers, IsSend
<1>4. HasMade(calls[p.dest], d) /\ IsReceive(d) /\ Names(d, p)
  BY <1>1, <1>2, FilesAre DEF ReceiveOf
<1>5. PICK c \in Channels : \E k \in 1..Len(sent[c]) : s = SendCall(c, sent[c][k])
  BY <1>2, <1>3 DEF TracerInv, MsgInv, MadeAreSends
<1>6. PICK k \in 1..Len(sent[c]) : s = SendCall(c, sent[c][k])
  BY <1>5
<1>7. s.partners[1] = PartnersOf(c) /\ s.type = sent[c][k].type /\ s.site = sent[c][k].site
  BY <1>6 DEF SendCall, P2P
<1>8. sent[c][k].site \in Sites
  BY SentIs
<1>9. PICK b \in Channels : /\ p = PartnersOf(b)
                            /\ \E i \in 1..Len(received[b]) : /\ received[b][i].type = d.type
                                                              /\ received[b][i].site = d.site
  BY <1>2, <1>4 DEF TracerInv, MsgInv, MadeAreReceives
<1>10. d.site \in Sites
  BY <1>2, <1>4 DEF TracerInv, MsgInv, MadeAreReceives
<1>11. b = c /\ p = PartnersOf(c)
  BY <1>3, <1>7, <1>9, OneChannel
<1>12. p.source = c[1] /\ p.dest = c[2]
  BY <1>11 DEF PartnersOf, Partners
<1>13. /\ e.src = c[1] /\ e.dest = c[2] /\ e.srcType = s.type /\ e.destType = d.type
       /\ e.srcPath = s.site /\ e.destPath = d.site
       /\ e = [src |-> c[1], dest |-> c[2], srcType |-> s.type, destType |-> d.type,
               srcPath |-> s.site, destPath |-> d.site]
  BY <1>1, <1>12 DEF EdgeOf
<1> QED
  BY <1>7, <1>8, <1>9, <1>10, <1>11, <1>13

\* Where a channel has one call path at each end, an edge is that of each of its messages.
LEMMA FoundIsTrue ==
    ASSUME TracerInv, NEW c \in Channels, OneSite(c), NEW e, Found(e, PartnersOf(c)),
           NEW i \in 1..Len(received[c])
    PROVE  e = TrueEdge(c, i)
<1>1. PICK b \in Channels :
              /\ PartnersOf(c) = PartnersOf(b)
              /\ \E k \in 1..Len(sent[b]) : e.srcType = sent[b][k].type /\ e.srcPath = sent[b][k].site
              /\ \E j \in 1..Len(received[b]) : /\ e.destType = received[b][j].type
                                                /\ e.destPath = received[b][j].site
              /\ e = [src |-> b[1], dest |-> b[2], srcType |-> e.srcType, destType |-> e.destType,
                      srcPath |-> e.srcPath, destPath |-> e.destPath]
  BY FoundIs
<1>2. b = c
  BY <1>1, OneChannel
<1>3. PICK k \in 1..Len(sent[c]) : e.srcType = sent[c][k].type /\ e.srcPath = sent[c][k].site
  BY <1>1, <1>2
<1>4. PICK j \in 1..Len(received[c]) : e.destType = received[c][j].type /\ e.destPath = received[c][j].site
  BY <1>1, <1>2
<1>5. received[c][i].nth \in 1..Len(sent[c])
  BY DEF TracerInv, MsgInv, ReceivesAreMade
<1>6. DOMAIN sent[c] = 1..Len(sent[c]) /\ DOMAIN received[c] = 1..Len(received[c])
  <2>1. IsSequence(received[c])
    BY DEF TracerInv, MsgInv, World
  <2> QED
    BY <2>1, LenIsNat, SentIs
<1>7. sent[c][k] = sent[c][received[c][i].nth]
  BY <1>3, <1>5, <1>6 DEF OneSite
<1>8. received[c][j].type = received[c][i].type /\ received[c][j].site = received[c][i].site
  BY <1>4, <1>6 DEF OneSite
<1> QED
  BY <1>1, <1>2, <1>3, <1>4, <1>7, <1>8 DEF TrueEdge

\* At the end a receive of a message has an edge, for the message was sent.
LEMMA ReceivedIsJoined ==
    ASSUME TracerInv, MatchInv, Matched, analysis = "approximate", failures = 0,
           NEW c \in Channels, c[1] # c[2], NEW i \in 1..Len(received[c])
    PROVE  Joined(PartnersOf(c))
<1> DEFINE p == PartnersOf(c)
<1>1. c[1] \in Ranks /\ c[2] \in Ranks /\ p.source = c[1] /\ p.dest = c[2] /\ IsMessage(p)
  BY DEF Channels, PartnersOf, Partners, IsMessage
<1>2. AllFinalized /\ pid \notin Ranks /\ pid \in Nat /\ ReceivesAreLeft
  BY DEF MatchInv, Matched, Started, Place
<1>3. PICK d : HasMade(calls[c[2]], d) /\ Names(d, p) /\ IsReceive(d)
  BY DEF TracerInv, MsgInv, ReceivesAreMade
<1>4. Logged(file[c[2]]["p2p"], d)
  BY <1>1, <1>2, <1>3, FilesAre
<1>5. PICK j \in 1..Len(d.partners) : d.partners[j] = p
  BY <1>3 DEF Names
<1>6. Behind(c[2], d, j) \/ Settled(p)
  BY <1>1, <1>2, <1>3, <1>4, <1>5 DEF ReceivesAreLeft
<1>7. ~ Behind(c[2], d, j)
  BY <1>1, <1>2, RanksFrom0 DEF Behind
<1>8. \E s : SendOf(p, s)
  <2> DEFINE m == sent[c][received[c][i].nth]
             s == SendCall(c, m)
  <2>1. received[c][i].nth \in 1..Len(sent[c])
    BY DEF TracerInv, MsgInv, ReceivesAreMade
  <2>2. HasMade(calls[c[1]], s)
    BY <2>1 DEF TracerInv, MsgInv, SendsAreMade
  <2>4. m.type \in {"s", "S"}
    BY <2>1, SentIs
  <2>5. Answers(s, p)
    BY <2>4 DEF Answers, SendCall, P2P
  <2> HIDE DEF s
  <2>6. Logged(file[c[1]]["p2p"], s)
    BY <1>1, <1>2, <2>2, FilesAre
  <2> QED
    BY <1>1, <2>5, <2>6 DEF SendOf
<1> QED
  BY <1>6, <1>7, <1>8 DEF Settled

\* For programs whose waits have no more requests than an entry of the analysis has room
\* for (ReadRequests, 50; with longer ones it ends undefined): where every channel between
\* two processes has one call path at each end, the approximate analysis finds the edges of
\* the messages that were received and no others.
THEOREM ApproximateEdgesAreTrue == MpiSpec => []ApproximateEdgesAreMessages
<1>1. AllInv => ApproximateEdgesAreMessages
  <2> SUFFICES ASSUME AllInv, Matched, analysis = "approximate", failures = 0,
                      NEW p \in Ranks, NEW q \in Ranks, p # q,
                      \A c \in {b \in Channels : b[1] = p /\ b[2] = q} : OneSite(c)
               PROVE  EdgesBetween(p, q) = UNION {{TrueEdge(c, i) : i \in DOMAIN received[c]} :
                                                     c \in {b \in Channels : b[1] = p /\ b[2] = q}}
    BY DEF ApproximateEdgesAreMessages
  <2> DEFINE between == {b \in Channels : b[1] = p /\ b[2] = q}
  <2>1. TracerInv /\ MatchInv /\ EdgesAreFound
    BY DEF AllInv, MatchInv, Started
  <2>2. \A c \in Channels : DOMAIN received[c] = 1..Len(received[c])
    BY <2>1, LenIsNat DEF TracerInv, MsgInv, World
  <2>3. ASSUME NEW e \in EdgesBetween(p, q)
        PROVE  \E c \in between : \E i \in DOMAIN received[c] : e = TrueEdge(c, i)
    <3>1. e \in edges /\ e.src = p /\ e.dest = q
      BY DEF EdgesBetween
    <3>2. PICK w : Found(e, w)
      BY <2>1, <3>1 DEF EdgesAreFound
    <3>3. PICK c \in Channels : /\ w = PartnersOf(c) /\ e.src = c[1] /\ e.dest = c[2]
                                /\ \E i \in 1..Len(received[c]) : /\ e.destType = received[c][i].type
                                                                  /\ e.destPath = received[c][i].site
      BY <2>1, <3>2, FoundIs
    <3>4. c \in between /\ OneSite(c)
      BY <3>1, <3>3
    <3>5. PICK i \in 1..Len(received[c]) : TRUE
      BY <3>3
    <3>6. e = TrueEdge(c, i)
      BY <2>1, <3>2, <3>3, <3>4, FoundIsTrue
    <3> QED
      BY <2>2, <3>4, <3>6
  <2>4. ASSUME NEW c \in between, NEW i \in DOMAIN received[c]
        PROVE  TrueEdge(c, i) \in EdgesBetween(p, q)
    <3>1. c \in Channels /\ c[1] = p /\ c[2] = q /\ OneSite(c) /\ i \in 1..Len(received[c])
      BY <2>2
    <3>2. PICK e \in edges : Found(e, PartnersOf(c))
      BY <2>1, <3>1, ReceivedIsJoined DEF Joined
    <3>3. e = TrueEdge(c, i)
      BY <2>1, <3>1, <3>2, FoundIsTrue
    <3>4. e.src = p /\ e.dest = q
      BY <3>1, <3>3 DEF TrueEdge
    <3> QED
      BY <3>2, <3>3, <3>4 DEF EdgesBetween
  <2> HIDE DEF between
  <2>5. EdgesBetween(p, q) = UNION {{TrueEdge(c, i) : i \in DOMAIN received[c]} : c \in between}
    BY <2>3, <2>4
  <2> QED
    BY <2>5 DEF between
<1> QED
  BY <1>1, AllInvariant, PTL

-------------------------------------------------------------------------------
(* The edges for the messages                                                  *)

\* An edge for a message is added when the copies are all there.
CommInv ==
    /\ rest \subseteq edges
    /\ commEdges # {} => Copied
    /\ \A c \in commEdges : /\ c.edge \in edges
                            /\ c.from = CopyOf(c.edge.src, c.edge.srcPath)
                            /\ c.to = CopyOf(c.edge.dest, c.edge.destPath)

\* The matching takes no edge back.
LEMMA EdgesStay == ASSUME MatchNext PROVE edges \subseteq edges'
<1>1. CASE MatchRequest
  <2>1. UNCHANGED edges \/ Match(Wanted)
    BY <1>1 DEF MatchRequest
  <2> QED
    BY <2>1 DEF Match
<1>2. CASE StartMatch \/ NextProcess
  BY <1>2 DEF StartMatch, NextProcess
<1> QED
  BY <1>1, <1>2 DEF MatchNext

\* What is copied stays where it is.
LEMMA SameCopies ==
    ASSUME preorder' = preorder
    PROVE  \A p, x : CopyOf(p, x)' = CopyOf(p, x)
  BY DEF CopyOf, SeqId, Chain

\* Every step keeps CommInv.
LEMMA CommStep == ASSUME GInv, CommInv, [MpiNext]_MpiVars PROVE CommInv'
<1>1. CASE UNCHANGED mpag /\ edges \subseteq edges'
  <2>1. /\ rest' = rest /\ commEdges' = commEdges /\ mnode' = mnode /\ todo' = todo
        /\ preorder' = preorder
    BY <1>1 DEF mpag
  <2>2. Copied' = Copied
    BY <2>1 DEF Copied, Copying, CopyProcess, Count, Chain
  <2> QED
    BY <1>1, <2>1, <2>2, SameCopies DEF CommInv
<1>2. CASE GraphNext /\ UNCHANGED <<vars, matching>>
  <2>0. edges' = edges
    BY <1>2 DEF matching
  <2>1. CASE VisitPreOrder \/ AddRoot \/ CopyToMpag
    <3>1. ~ Copied
      BY <2>1 DEF VisitPreOrder, AddRoot, CopyToMpag, Copied, GInv, Built
    <3>2. commEdges = {}
      BY <3>1 DEF CommInv
    <3>3. commEdges' = {} /\ rest' \in {rest, edges}
      BY <2>1, <3>2 DEF VisitPreOrder, AddRoot, CopyToMpag
    <3> QED
      BY <2>0, <3>3 DEF CommInv
  <2>2. CASE \E e \in rest : AddCommEdge(e)
    <3>1. PICK e \in rest : AddCommEdge(e)
      BY <2>2
    <3> DEFINE c == [from |-> CopyOf(e.src, e.srcPath), to |-> CopyOf(e.dest, e.destPath), edge |-> e]
    <3>2. /\ Copied /\ rest' = rest \ {e} /\ commEdges' \subseteq commEdges \cup {c}
          /\ mnode' = mnode /\ todo' = todo /\ preorder' = preorder
      BY <3>1 DEF AddCommEdge, Copied
    <3>3. Copied'
      BY <3>2 DEF Copied, Copying, CopyProcess, Count, Chain
    <3>4. c.edge = e /\ c.from = CopyOf(e.src, e.srcPath) /\ c.to = CopyOf(e.dest, e.destPath)
      OBVIOUS
    <3>5. e \in edges
      BY DEF CommInv
    <3> HIDE DEF c
    <3>6. \A d \in commEdges' : /\ d.edge \in edges
                                /\ d.from = CopyOf(d.edge.src, d.edge.srcPath)
                                /\ d.to = CopyOf(d.edge.dest, d.edge.destPath)
      BY <3>2, <3>4, <3>5 DEF CommInv
    <3> QED
      BY <2>0, <3>2, <3>3, <3>6, SameCopies DEF CommInv
  <2> QED
    BY <1>2, <2>1, <2>2 DEF GraphNext
<1>3. \/ UNCHANGED mpag /\ edges \subseteq edges'
      \/ GraphNext /\ UNCHANGED <<vars, matching>>
  BY EdgesStay DEF MpiNext, MpiVars, matching
<1> QED
  BY <1>1, <1>2, <1>3

\* At first there is no edge between copies.
LEMMA CommInit == MpiInit => CommInv
  BY DEF MpiInit, GraphInit, CommInv

\* The vertex of a call path in a process is the copy that CopyOf names.
LEMMA CopyOfIs ==
    ASSUME GInv, Copied, NEW p \in Ranks, NEW x \in Sites
    PROVE  mnode[CopyOf(p, x) + 1] = <<p, VertexOf[x]>>
<1> DEFINE v == VertexOf[x]
           k == CHOOSE i \in DOMAIN preorder : preorder[i] = v
<1>1. v \in Pag
  BY GraphAssumption
<1>2. preorder \in Seq(Pag) /\ Chain \in Nat /\ \E i \in 1..Chain : preorder[i] = v
  <2>1. Walked(preorder, <<>>)
    BY DEF GInv, Built, Copied
  <2>2. preorder \in Seq(Pag) /\ Chain \in Nat /\ \A w \in Pag : \E i \in 1..Chain : preorder[i] = w
    BY <2>1, WalkEnds DEF Chain
  <2> QED
    BY <1>1, <2>2
<1>3. k \in 1..Chain /\ preorder[k] = v
  <2>1. DOMAIN preorder = 1..Chain
    BY <1>2 DEF Chain
  <2> QED
    BY <1>2, <2>1
<1>4. CopyOf(p, x) + 1 = k - 1 + p * Chain + 1 + 1
  BY DEF CopyOf, SeqId
<1> HIDE DEF k, v
<1>5. p \in Nat /\ p * Chain \in Nat
  BY <1>2, RanksFrom0
<1>6. CopyOf(p, x) + 1 = Position(p, k)
  BY <1>2, <1>3, <1>4, <1>5 DEF Position
<1> QED
  BY <1>3, <1>6, CopiesAre DEF v

\* Every edge for a message joins the copies of the two calls in the two processes
\* (graph_perf.cpp 1055-1070).
THEOREM CommEdgesJoinTheCopies == MpiSpec => []CommEdgesJoinCopies
<1>1. AllInv /\ CommInv => CommEdgesJoinCopies
  <2> SUFFICES ASSUME AllInv, CommInv, NEW c \in commEdges
               PROVE  /\ mnode[c.from + 1] = <<c.edge.src, VertexOf[c.edge.srcPath]>>
                      /\ mnode[c.to + 1] = <<c.edge.dest, VertexOf[c.edge.destPath]>>
    BY DEF CommEdgesJoinCopies
  <2>1. /\ Copied /\ c.edge \in edges /\ c.from = CopyOf(c.edge.src, c.edge.srcPath)
        /\ c.to = CopyOf(c.edge.dest, c.edge.destPath)
    BY DEF CommInv
  <2>2. TracerInv /\ MatchInv /\ GInv
    BY DEF AllInv
  <2>3. Started
    BY <2>1, <2>2 DEF Copied, GInv, Built, Matched, Started
  <2>4. PICK p : Found(c.edge, p)
    BY <2>1, <2>2, <2>3 DEF MatchInv, EdgesAreFound
  <2>5. PICK b \in Channels : /\ c.edge.src = b[1] /\ c.edge.dest = b[2]
                              /\ c.edge.srcPath \in Sites /\ c.edge.destPath \in Sites
    BY <2>2, <2>4, FoundIs
  <2>6. c.edge.src \in Ranks /\ c.edge.dest \in Ranks
    BY <2>5 DEF Channels
  <2> QED
    BY <2>1, <2>2, <2>5, <2>6, CopyOfIs
<1>2. MpiSpec => []CommInv
  <2>1. GInv /\ CommInv /\ [MpiNext]_MpiVars => CommInv'
    BY CommStep
  <2> QED
    BY <2>1, CommInit, GInvIsInvariant, PTL DEF MpiSpec
<1> QED
  BY <1>1, <1>2, AllInvariant, PTL

-------------------------------------------------------------------------------
(* The exact matching                                                          *)

\* The calls t that are left are those at the places o among the calls cs, in their order;
\* nothing but calls to send is missing.
Origin(o, cs, t) ==
    /\ \A k \in 1..Len(t) : o[k] \in 1..Len(cs) /\ cs[o[k]].book = "p2p" /\ cs[o[k]].call = t[k]
    /\ \A k, l \in 1..Len(t) : k < l => o[k] < o[l]
    /\ \A x \in 1..Len(cs) : cs[x].book = "p2p" /\ ~ IsSend(cs[x].call) =>
          \E k \in 1..Len(t) : o[k] = x

\* The calls that send the messages of channel c, and those that receive them with their
\* requests.
SendAt(c) == CHOOSE f : SendOrder(f, c, calls[c[1]], sent[c])
ReceiveAt(c) == CHOOSE p : ReceiveOrder(p[1], p[2], c, calls[c[2]], received[c])
CallAt(c, i) == ReceiveAt(c)[1][i]
RequestAt(c, i) == ReceiveAt(c)[2][i]

\* The i-th message of channel c is left to be matched; its receive is still to be looked at;
\* it is looked at next.
Left(o, c, i) == \E k \in 1..Len(ops[c[1]]) : o[c[1]][k] = SendAt(c)[i]
Ahead(o, c, i) ==
    \/ c[2] > pid
    \/ c[2] = pid /\ \E k \in 1..Len(ops[pid]) :
          o[pid][k] = CallAt(c, i) /\ ~ Before(k, RequestAt(c, i), nth, req)
IsNext(o, c, i) == c[2] = pid /\ CallAt(c, i) = o[pid][nth] /\ RequestAt(c, i) = req

\* The first m messages of channel c are joined, and nothing else of it was touched.
Half(o, c, m) ==
    /\ m \in 0..Len(received[c])
    /\ \A i \in 1..Len(sent[c]) : Left(o, c, i) <=> i > m
    /\ \A i \in 1..Len(received[c]) : Ahead(o, c, i) <=> i > m
    /\ \A i \in 1..m : TrueEdge(c, i) \in edges
Halves(o) == /\ \A r \in Ranks : Origin(o[r], calls[r], ops[r])
             /\ \A c \in Channels : c[1] # c[2] /\ InOrder(c) => \E m : Half(o, c, m)

\* Every edge is that of a channel, and if this is in order, that of one of its messages.
EdgesAreTrue ==
    \A e \in edges : \E c \in Channels :
        /\ c[1] # c[2] /\ e.src = c[1] /\ e.dest = c[2]
        /\ InOrder(c) => \E i \in 1..Len(received[c]) : e = TrueEdge(c, i)

Exact == analysis = "exact" /\ Complete
ExactInv == Exact => EdgesAreTrue /\ \E o : Halves(o)

\* The places q, n of them, are the places o, m of them, but the i-th.
Others(q, n, o, m, i) == \A x : (\E k \in 1..n : q[k] = x) <=> (\E k \in 1..m : k # i /\ o[k] = x)

\* A call to send that is matched is missing from then on.
LEMMA RemoveOrigin ==
    ASSUME NEW o, NEW cs, NEW t, IsSequence(t), Origin(o, cs, t), NEW i \in 1..Len(t), IsSend(t[i])
    PROVE  \E q : Origin(q, cs, RemoveAt(t, i)) /\ Others(q, Len(RemoveAt(t, i)), o, Len(t), i)
<1> DEFINE n == Len(t)
           u == RemoveAt(t, i)
<1>1. /\ n \in Nat /\ Len(u) = n - 1
      /\ \A k \in 1..(n - 1) : u[k] = IF k < i THEN t[k] ELSE t[k + 1]
  BY RemoveIs
<1>2. PICK q : q = [k \in 1..(n - 1) |-> IF k < i THEN o[k] ELSE o[k + 1]]
  OBVIOUS
<1> HIDE DEF n, u
<1>3. \A k \in 1..(n - 1) : q[k] = IF k < i THEN o[k] ELSE o[k + 1]
  BY <1>2
<1>4. i \in 1..n
  BY DEF n
<1>5. ASSUME NEW k \in 1..(n - 1)
      PROVE  \E l \in 1..n : l # i /\ q[k] = o[l] /\ u[k] = t[l] /\ l = IF k < i THEN k ELSE k + 1
  <2>1. CASE k < i
    <3>1. k \in 1..n /\ k # i
      BY <1>1, <1>4, <2>1
    <3> QED
      BY <1>1, <1>3, <2>1, <3>1
  <2>2. CASE ~ (k < i)
    <3>1. k + 1 \in 1..n /\ k + 1 # i
      BY <1>1, <1>4, <2>2
    <3> QED
      BY <1>1, <1>3, <2>2, <3>1
  <2> QED
    BY <2>1, <2>2
<1>6. ASSUME NEW l \in 1..n, l # i PROVE \E k \in 1..(n - 1) : q[k] = o[l]
  <2>1. CASE l < i
    <3>1. l \in 1..(n - 1)
      BY <1>1, <1>4, <2>1
    <3> QED
      BY <1>3, <2>1, <3>1
  <2>2. CASE ~ (l < i)
    <3>1. l - 1 \in 1..(n - 1) /\ ~ (l - 1 < i) /\ (l - 1) + 1 = l
      BY <1>1, <1>4, <1>6, <2>2
    <3> QED
      BY <1>3, <3>1
  <2> QED
    BY <2>1, <2>2
<1>7. \A x : (\E k \in 1..Len(u) : q[k] = x) <=> (\E l \in 1..n : l # i /\ o[l] = x)
  <2> SUFFICES ASSUME NEW x
               PROVE  (\E k \in 1..(n - 1) : q[k] = x) <=> (\E l \in 1..n : l # i /\ o[l] = x)
    BY <1>1
  <2>1. ASSUME NEW k \in 1..(n - 1), q[k] = x PROVE \E l \in 1..n : l # i /\ o[l] = x
    <3>1. PICK l \in 1..n : l # i /\ q[k] = o[l]
      BY <1>5
    <3> QED
      BY <2>1, <3>1
  <2>2. ASSUME NEW l \in 1..n, l # i, o[l] = x PROVE \E k \in 1..(n - 1) : q[k] = x
    BY <1>6, <2>2
  <2> QED
    BY <2>1, <2>2
<1>8. Origin(q, cs, u)
  <2>1. ASSUME NEW k \in 1..Len(u)
        PROVE  q[k] \in 1..Len(cs) /\ cs[q[k]].book = "p2p" /\ cs[q[k]].call = u[k]
    <3>1. PICK l \in 1..n : q[k] = o[l] /\ u[k] = t[l]
      BY <1>1, <1>5
    <3> QED
      BY <3>1 DEF Origin, n
  <2>2. ASSUME NEW k \in 1..Len(u), NEW l \in 1..Len(u), k < l PROVE q[k] < q[l]
    <3>1. PICK a \in 1..n : q[k] = o[a] /\ a = IF k < i THEN k ELSE k + 1
      BY <1>1, <1>5
    <3>2. PICK b \in 1..n : q[l] = o[b] /\ b = IF l < i THEN l ELSE l + 1
      BY <1>1, <1>5
    <3>3. a < b
      BY <2>2, <3>1, <3>2
    <3> QED
      BY <3>1, <3>2, <3>3 DEF Origin, n
  <2>3. ASSUME NEW x \in 1..Len(cs), cs[x].book = "p2p" /\ ~ IsSend(cs[x].call)
        PROVE  \E k \in 1..Len(u) : q[k] = x
    <3>1. PICK l \in 1..n : o[l] = x
      BY <2>3 DEF Origin, n
    <3>2. l # i
      BY <2>3, <3>1 DEF Origin, n
    <3> QED
      BY <1>7, <3>1, <3>2
  <2> QED
    BY <2>1, <2>2, <2>3 DEF Origin
<1> QED
  BY <1>7, <1>8 DEF u, n, Others

\* The places of the messages, once they are there.
LEMMA PlacesOfSends ==
    ASSUME OrderInv, NEW c \in Channels
    PROVE  SendOrder(SendAt(c), c, calls[c[1]], sent[c])
  BY DEF OrderInv, SendsInOrder, SendAt

\* The places of the receives, likewise.
LEMMA PlacesOfReceives ==
    ASSUME OrderInv, NEW c \in Channels, c[1] # c[2]
    PROVE  ReceiveOrder(ReceiveAt(c)[1], ReceiveAt(c)[2], c, calls[c[2]], received[c])
<1>1. PICK g, h : ReceiveOrder(g, h, c, calls[c[2]], received[c])
  BY DEF OrderInv, ReceivesInOrder
<1>2. PICK p : p = <<g, h>>
  OBVIOUS
<1>3. ReceiveOrder(p[1], p[2], c, calls[c[2]], received[c])
  BY <1>1, <1>2
<1> QED
  BY <1>3 DEF ReceiveAt

\* The place of the matching, and the calls that are left of the process there.
AtRequest(o) == /\ pid \in Ranks /\ nth \in 1..Len(ops[pid]) /\ req \in Nat \ {0}
                /\ Len(ops[pid]) \in Nat
                /\ Origin(o[pid], calls[pid], ops[pid])

\* Two receives of a channel are different requests.
LEMMA ReceivesDiffer ==
    ASSUME OrderInv, NEW c \in Channels, c[1] # c[2],
           NEW i \in 1..Len(received[c]), NEW j \in 1..Len(received[c]),
           CallAt(c, i) = CallAt(c, j), RequestAt(c, i) = RequestAt(c, j)
    PROVE  i = j
<1>1. /\ CallAt(c, i) \in 1..Len(calls[c[2]])
      /\ RequestAt(c, i) \in 1..Len(calls[c[2]][CallAt(c, i)].call.partners)
  BY PlacesOfReceives DEF CallAt, RequestAt, ReceiveOrder, IsRequest
<1>2. ~ Before(CallAt(c, i), RequestAt(c, i), CallAt(c, i), RequestAt(c, i))
  BY <1>1 DEF Before
<1>3. /\ i < j => Before(CallAt(c, i), RequestAt(c, i), CallAt(c, j), RequestAt(c, j))
      /\ j < i => Before(CallAt(c, j), RequestAt(c, j), CallAt(c, i), RequestAt(c, i))
  BY PlacesOfReceives DEF CallAt, RequestAt, ReceiveOrder
<1> QED
  BY <1>2, <1>3

\* The receive that is looked at next is the one the request names.
LEMMA NextNames ==
    ASSUME OrderInv, NEW o, AtRequest(o), NEW c \in Channels, c[1] # c[2],
           NEW i \in 1..Len(received[c]), IsNext(o, c, i)
    PROVE  /\ c[2] = pid /\ IsReceive(Receiver) /\ req \in 1..Len(Receiver.partners)
           /\ Wanted = PartnersOf(c) /\ IsMessage(Wanted)
           /\ Receiver.type = received[c][i].type /\ Receiver.site = received[c][i].site
<1>1. /\ IsRequest(calls[c[2]], CallAt(c, i), RequestAt(c, i), PartnersOf(c))
      /\ calls[c[2]][CallAt(c, i)].call.type = received[c][i].type
      /\ calls[c[2]][CallAt(c, i)].call.site = received[c][i].site
  BY PlacesOfReceives DEF CallAt, RequestAt, ReceiveOrder
<1>2. c[2] = pid /\ CallAt(c, i) = o[pid][nth] /\ RequestAt(c, i) = req
  BY DEF IsNext
<1>3. calls[pid][o[pid][nth]].call = Receiver
  BY DEF AtRequest, Origin, Receiver
<1>4. /\ IsReceive(Receiver) /\ req \in 1..Len(Receiver.partners) /\ Wanted = PartnersOf(c)
  BY <1>1, <1>2, <1>3 DEF IsRequest, Wanted
<1>5. IsMessage(PartnersOf(c))
  BY DEF PartnersOf, Partners, IsMessage, Channels
<1> QED
  BY <1>1, <1>2, <1>3, <1>4, <1>5

\* Every request to receive from a channel is one of its receives.
LEMMA RequestsAreReceives ==
    ASSUME OrderInv, NEW c \in Channels, c[1] # c[2], NEW k \in 1..Len(calls[c[2]]), NEW j,
           IsRequest(calls[c[2]], k, j, PartnersOf(c))
    PROVE  \E i \in 1..Len(received[c]) : CallAt(c, i) = k /\ RequestAt(c, i) = j
<1>1. PICK g, h : g = ReceiveAt(c)[1] /\ h = ReceiveAt(c)[2]
  OBVIOUS
<1>2. ReceiveOrder(g, h, c, calls[c[2]], received[c])
  BY <1>1, PlacesOfReceives
<1>3. \E i \in 1..Len(received[c]) : g[i] = k /\ h[i] = j
  BY <1>2 DEF ReceiveOrder
<1> QED
  BY <1>1, <1>3 DEF CallAt, RequestAt

\* In a channel half done the next receive is the first that is not done.
LEMMA NextIs ==
    ASSUME OrderInv, NEW o, AtRequest(o), NEW c \in Channels, c[1] # c[2], c[2] = pid,
           IsReceive(Receiver), req \in 1..Len(Receiver.partners), Wanted = PartnersOf(c),
           NEW m, Half(o, c, m)
    PROVE  m + 1 \in 1..Len(received[c]) /\ IsNext(o, c, m + 1)
<1> DEFINE x == o[pid][nth]
           G(i) == CallAt(c, i)
           H(i) == RequestAt(c, i)
<1>1. x \in 1..Len(calls[pid]) /\ calls[pid][x].book = "p2p" /\ calls[pid][x].call = Receiver
  BY DEF AtRequest, Origin, Receiver
<1>2. IsRequest(calls[pid], x, req, PartnersOf(c))
  BY <1>1 DEF IsRequest, Wanted
<1>3. PICK i \in 1..Len(received[c]) : G(i) = x /\ H(i) = req
  BY <1>1, <1>2, RequestsAreReceives
<1>4. nth \in 1..Len(ops[pid]) /\ nth \in Nat /\ req \in Nat
  BY DEF AtRequest
<1>5. Ahead(o, c, i)
  <2>1. ~ Before(nth, H(i), nth, req)
    BY <1>3, <1>4 DEF Before
  <2> QED
    BY <1>3, <1>4, <2>1 DEF Ahead
<1>6. i > m /\ m \in Nat /\ Len(received[c]) \in Nat
  <2>1. Ahead(o, c, i) => i > m
    BY DEF Half
  <2>2. m \in 0..Len(received[c])
    BY DEF Half
  <2> QED
    BY <1>5, <2>1, <2>2
<1>7. i = m + 1
  <2> SUFFICES ASSUME m + 1 < i PROVE FALSE
    BY <1>6
  <2> DEFINE j == m + 1
  <2>1. j \in 1..Len(received[c]) /\ j > m /\ j < i
    BY <1>6
  <2> HIDE DEF j
  <2>2. Ahead(o, c, j)
    BY <2>1 DEF Half
  <2>3. PICK k \in 1..Len(ops[pid]) : o[pid][k] = G(j) /\ ~ Before(k, H(j), nth, req)
    BY <2>2, TracerAssumption DEF Ahead, AtRequest
  <2>4. Before(G(j), H(j), x, req)
    BY <1>3, <2>1, PlacesOfReceives DEF CallAt, RequestAt, ReceiveOrder
  <2>5. x < G(j) \/ (k = nth /\ G(j) = x) \/ k < nth
    <3>1. k < nth \/ k = nth \/ nth < k
      BY <1>4
    <3> QED
      BY <1>4, <2>3, <3>1 DEF AtRequest, Origin
  <2>6. G(j) \in 1..Len(calls[pid])
    BY <2>1, PlacesOfReceives DEF CallAt, ReceiveOrder
  <2> QED
    BY <1>1, <2>3, <2>4, <2>5, <2>6 DEF Before
<1> QED
  BY <1>3, <1>7 DEF IsNext

\* Then the first call to send that is left for it is the one of its message.
LEMMA SendIsThat ==
    ASSUME TracerInv, OrderInv, NEW o, NEW c \in Channels, NEW m, Half(o, c, m),
           m + 1 \in 1..Len(sent[c]), Origin(o[c[1]], calls[c[1]], ops[c[1]])
    PROVE  /\ \E k \in 1..Len(ops[c[1]]) : Answers(ops[c[1]][k], PartnersOf(c))
           /\ \A i \in 1..Len(ops[c[1]]) :
                 /\ Answers(ops[c[1]][i], PartnersOf(c))
                 /\ \A k \in 1..Len(ops[c[1]]) : Answers(ops[c[1]][k], PartnersOf(c)) => i <= k
                 => /\ o[c[1]][i] = SendAt(c)[m + 1]
                    /\ ops[c[1]][i] = SendCall(c, sent[c][m + 1])
<1> DEFINE r == c[1]
           t == ops[r]
           n == m + 1
           F == SendAt(c)
<1>1. SendOrder(F, c, calls[r], sent[c])
  BY PlacesOfSends
<1>2. n \in 1..Len(sent[c]) /\ m \in Nat /\ n > m
  BY DEF Half
<1>3. \A i \in 1..Len(sent[c]) : Left(o, c, i) <=> i > m
  BY DEF Half
<1>4. Origin(o[r], calls[r], t)
  OBVIOUS
<1>5. SendCall(c, sent[c][n]).type \in {"s", "S"} /\ SendCall(c, sent[c][n]).partners[1] = PartnersOf(c)
  BY <1>2, SentIs DEF SendCall, P2P
<1> HIDE DEF n, t, r, F
<1>6. PICK k \in 1..Len(t) : o[r][k] = F[n]
  BY <1>2, <1>3 DEF Left, r, t, F
<1>7. t[k] = SendCall(c, sent[c][n]) /\ Answers(t[k], PartnersOf(c))
  <2>1. calls[r][F[n]].call = SendCall(c, sent[c][n])
    BY <1>1, <1>2 DEF SendOrder
  <2>2. calls[r][o[r][k]].call = t[k]
    BY <1>4 DEF Origin
  <2> QED
    BY <1>5, <1>6, <2>1, <2>2 DEF Answers
<1>8. ASSUME NEW i \in 1..Len(t), Answers(t[i], PartnersOf(c)), i <= k
      PROVE  i = k
  <2>1. /\ o[r][i] \in 1..Len(calls[r]) /\ calls[r][o[r][i]].book = "p2p"
        /\ calls[r][o[r][i]].call = t[i]
    BY <1>4 DEF Origin
  <2>2. PICK j \in 1..Len(sent[c]) : F[j] = o[r][i]
    BY <1>1, <1>8, <2>1 DEF SendOrder
  <2>3. j > m
    BY <1>3, <2>2 DEF Left, r, t, F
  <2>4. j = n \/ n < j
    BY <1>2, <2>3 DEF n
  <2>5. n < j => F[n] < F[j]
    BY <1>1, <1>2 DEF SendOrder
  <2>6. i < k => o[r][i] < o[r][k]
    BY <1>4 DEF Origin
  <2>7. F[n] \in 1..Len(calls[r])
    BY <1>1, <1>2 DEF SendOrder
  <2> QED
    BY <1>6, <1>8, <2>1, <2>2, <2>4, <2>5, <2>6, <2>7
<1>9. ASSUME NEW i \in 1..Len(t), Answers(t[i], PartnersOf(c)),
             \A l \in 1..Len(t) : Answers(t[l], PartnersOf(c)) => i <= l
      PROVE  o[r][i] = F[n] /\ t[i] = SendCall(c, sent[c][n])
  BY <1>6, <1>7, <1>8, <1>9
<1> QED
  BY <1>7, <1>9 DEF n, t, r, F

\* The places depend only on the calls and messages.
LEMMA SamePlaces ==
    ASSUME UNCHANGED vars, NEW c
    PROVE  /\ SendAt(c)' = SendAt(c)
           /\ \A i : /\ CallAt(c, i)' = CallAt(c, i) /\ RequestAt(c, i)' = RequestAt(c, i)
                     /\ TrueEdge(c, i)' = TrueEdge(c, i)
           /\ InOrder(c)' <=> InOrder(c)
<1>1. calls' = calls /\ sent' = sent /\ received' = received
  BY DEF vars, mpi, history
<1>2. ReceiveAt(c)' = ReceiveAt(c)
  BY <1>1 DEF ReceiveAt
<1> QED
  BY <1>1, <1>2 DEF SendAt, CallAt, RequestAt, InOrder, TrueEdge

\* The receive that is looked at is no longer ahead, all others stay where they were.
LEMMA AheadNext ==
    ASSUME OrderInv, NextRequest, pid' = pid, ops'[pid] = ops[pid], UNCHANGED vars,
           NEW o, NEW q, q[pid] = o[pid], AtRequest(o),
           NEW c \in Channels, c[1] # c[2], NEW i \in 1..Len(received[c])
    PROVE  Ahead(q, c, i)' <=> Ahead(o, c, i) /\ ~ IsNext(o, c, i)
<1> DEFINE x == CallAt(c, i)
           j == RequestAt(c, i)
<1>1. CallAt(c, i)' = x /\ RequestAt(c, i)' = j
  BY SamePlaces
<1>2. j \in Nat /\ x \in Nat /\ j \in 1..Len(calls[c[2]][x].call.partners)
  <2>1. PICK g, h : g = ReceiveAt(c)[1] /\ h = ReceiveAt(c)[2]
    OBVIOUS
  <2>2. g[i] \in 1..Len(calls[c[2]]) /\ IsRequest(calls[c[2]], g[i], h[i], PartnersOf(c))
    BY <2>1, PlacesOfReceives DEF ReceiveOrder
  <2>3. g[i] \in Nat /\ h[i] \in Nat /\ h[i] \in 1..Len(calls[c[2]][g[i]].call.partners)
    BY <2>2 DEF IsRequest
  <2> QED
    BY <2>1, <2>3 DEF CallAt, RequestAt
<1>3. /\ nth \in 1..Len(ops[pid]) /\ nth \in Nat /\ req \in Nat \ {0} /\ Len(ops[pid]) \in Nat
      /\ pid \in Ranks /\ pid \in Nat
  BY TracerAssumption DEF AtRequest
<1>4. \A k \in 1..Len(ops[pid]) : o[pid][k] = x /\ c[2] = pid => calls[c[2]][x].call = ops[pid][k]
  BY DEF AtRequest, Origin
<1>5. \A k, l \in 1..Len(ops[pid]) : k < l => o[pid][k] < o[pid][l]
  BY DEF AtRequest, Origin
<1>6. \A k \in 1..Len(ops[pid]) : o[pid][k] \in Nat
  BY DEF AtRequest, Origin
<1>7. c[2] \in Nat
  BY TracerAssumption DEF Channels
<1> HIDE DEF x, j
<1>8. Ahead(o, c, i) <=> \/ c[2] > pid
                         \/ c[2] = pid /\ \E k \in 1..Len(ops[pid]) : o[pid][k] = x /\ ~ Before(k, j, nth, req)
  BY DEF Ahead, x, j
<1>9. Ahead(q, c, i)' <=> \/ c[2] > pid
                          \/ c[2] = pid /\ \E k \in 1..Len(ops[pid]) : o[pid][k] = x /\ ~ Before(k, j, nth', req')
  BY <1>1 DEF Ahead
<1>10. IsNext(o, c, i) <=> c[2] = pid /\ x = o[pid][nth] /\ j = req
  BY DEF IsNext, x, j
<1>11. CASE c[2] # pid
  BY <1>8, <1>9, <1>10, <1>11
<1>12. CASE c[2] = pid
  <2>1. ASSUME NEW k \in 1..Len(ops[pid]), o[pid][k] = x
        PROVE  ~ Before(k, j, nth', req') <=> ~ Before(k, j, nth, req) /\ ~ (k = nth /\ j = req)
    <3>0. j <= Len(Receiver.partners) \/ k # nth
      BY <1>2, <1>4, <1>12, <2>1 DEF Receiver
    <3>1. CASE req < Len(Receiver.partners)
      BY <1>2, <1>3, <3>1 DEF NextRequest, Before
    <3>2. CASE ~ (req < Len(Receiver.partners))
      <4>1. req' = 1 /\ nth' = nth + 1
        BY <3>2 DEF NextRequest
      <4>2. k = nth => j <= req
        <5>1. ASSUME k = nth PROVE j \in 1..Len(Receiver.partners)
          BY <1>2, <1>4, <1>12, <2>1, <5>1 DEF Receiver
        <5> QED
          BY <1>2, <1>3, <3>2, <5>1
      <4>3. j >= 1
        BY <1>2
      <4> QED
        BY <1>2, <1>3, <4>1, <4>2, <4>3 DEF Before
    <3> QED
      BY <3>1, <3>2
  <2>2. \A k \in 1..Len(ops[pid]) : o[pid][k] = x => (k = nth <=> x = o[pid][nth])
    BY <1>3, <1>5, <1>6
  <2> DEFINE A == \E k \in 1..Len(ops[pid]) : o[pid][k] = x /\ ~ Before(k, j, nth, req)
             B == \E k \in 1..Len(ops[pid]) : o[pid][k] = x /\ ~ Before(k, j, nth', req')
             N == x = o[pid][nth] /\ j = req
  <2>3. ASSUME B PROVE A /\ ~ N
    <3>1. PICK k \in 1..Len(ops[pid]) : o[pid][k] = x /\ ~ Before(k, j, nth', req')
      BY <2>3
    <3>2. ~ Before(k, j, nth, req) /\ ~ (k = nth /\ j = req)
      BY <2>1, <3>1
    <3> QED
      BY <2>2, <3>1, <3>2
  <2>4. ASSUME A, ~ N PROVE B
    <3>1. PICK k \in 1..Len(ops[pid]) : o[pid][k] = x /\ ~ Before(k, j, nth, req)
      BY <2>4
    <3>2. ~ (k = nth /\ j = req)
      BY <2>2, <2>4, <3>1
    <3>3. ~ Before(k, j, nth', req')
      BY <2>1, <3>1, <3>2
    <3> QED
      BY <3>1, <3>3
  <2>5. /\ Ahead(o, c, i) <=> A
        /\ Ahead(q, c, i)' <=> B
        /\ IsNext(o, c, i) <=> N
    BY <1>3, <1>8, <1>9, <1>10, <1>12
  <2> QED
    BY <2>3, <2>4, <2>5
<1> QED
  BY <1>11, <1>12

\* A channel of which nothing is matched in this step.
LEMMA HalfStays ==
    ASSUME UNCHANGED vars, NEW o, NEW q, NEW c, NEW m, Half(o, c, m), edges \subseteq edges',
           \A i \in 1..Len(sent[c]) : Left(q, c, i)' <=> Left(o, c, i),
           \A i \in 1..Len(received[c]) : Ahead(q, c, i)' <=> Ahead(o, c, i)
    PROVE  Half(q, c, m)'
<1>1. sent' = sent /\ received' = received
  BY DEF vars, mpi, history
<1>2. /\ m \in 0..Len(received[c])
      /\ \A i \in 1..Len(sent[c]) : Left(q, c, i)' <=> i > m
      /\ \A i \in 1..Len(received[c]) : Ahead(q, c, i)' <=> i > m
  BY DEF Half
<1>3. \A i \in 1..m : TrueEdge(c, i)' \in edges'
  <2>1. \A i \in 1..m : TrueEdge(c, i) \in edges'
    BY DEF Half
  <2> QED
    BY <2>1, SamePlaces
<1> QED
  BY <1>1, <1>2, <1>3 DEF Half

\* A channel of which the next message is.
LEMMA HalfMore ==
    ASSUME UNCHANGED vars, NEW o, NEW q, NEW c, NEW m, Half(o, c, m), edges \subseteq edges',
           m + 1 \in 1..Len(received[c]), TrueEdge(c, m + 1) \in edges', Len(received[c]) \in Nat,
           \A i \in 1..Len(sent[c]) : Left(q, c, i)' <=> Left(o, c, i) /\ i # m + 1,
           \A i \in 1..Len(received[c]) : Ahead(q, c, i)' <=> Ahead(o, c, i) /\ i # m + 1
    PROVE  Half(q, c, m + 1)'
<1> DEFINE n == m + 1
<1>1. sent' = sent /\ received' = received
  BY DEF vars, mpi, history
<1>2. m \in Nat /\ n \in 0..Len(received[c]) /\ \A i \in Int : i > n <=> (i > m /\ i # n)
  <2>1. m \in 0..Len(received[c])
    BY DEF Half
  <2> QED
    BY <2>1
<1>3. \A i \in 1..Len(sent[c]) : Left(q, c, i)' <=> i > n
  BY <1>2 DEF Half
<1>4. \A i \in 1..Len(received[c]) : Ahead(q, c, i)' <=> i > n
  BY <1>2 DEF Half
<1>5. \A i \in 1..n : TrueEdge(c, i)' \in edges'
  <2>1. \A i \in 1..n : i \in 1..m \/ i = n
    BY <1>2
  <2>2. \A i \in 1..n : TrueEdge(c, i) \in edges'
    BY <2>1 DEF Half
  <2> QED
    BY <2>2, SamePlaces
<1> HIDE DEF n
<1>6. Half(q, c, n)'
  BY <1>1, <1>2, <1>3, <1>4, <1>5 DEF Half
<1> QED
  BY <1>6 DEF n

\* The channel that a request asks for.
LEMMA WantedIs ==
    ASSUME TracerInv, MatchInv, Started, pid \in Ranks, nth <= Len(ops[pid]),
           IsReceive(Receiver), req <= Len(Receiver.partners), IsMessage(Wanted)
    PROVE  \E b \in Channels : /\ Wanted = PartnersOf(b) /\ b[2] = pid /\ b[1] # b[2]
                               /\ Wanted.source = b[1] /\ Wanted.dest = b[2] /\ b[1] \in Ranks
<1>1. Logged(file[pid]["p2p"], Receiver) /\ Names(Receiver, Wanted)
  BY ReceiverIs
<1>2. HasMade(calls[pid], Receiver)
  BY <1>1, FilesAre
<1>3. PICK b \in Channels : b[2] = pid /\ Wanted = PartnersOf(b)
  BY <1>1, <1>2 DEF TracerInv, MsgInv, MadeAreReceives
<1>4. Wanted.source = b[1] /\ Wanted.dest = b[2]
  BY <1>3 DEF PartnersOf, Partners
<1> QED
  BY <1>3, <1>4 DEF IsMessage

\* In a channel in order as many messages were sent as were received, or more.
LEMMA ReceivedIsSent ==
    ASSUME TracerInv, NEW c \in Channels, InOrder(c)
    PROVE  /\ Len(received[c]) \in Nat /\ Len(sent[c]) \in Nat
           /\ \A i \in 1..Len(received[c]) : i \in 1..Len(sent[c]) /\ received[c][i].nth = i
<1>1. IsSequence(received[c])
  BY DEF TracerInv, MsgInv, World
<1>2. Len(received[c]) \in Nat /\ DOMAIN received[c] = 1..Len(received[c])
  BY <1>1, LenIsNat
<1> QED
  BY <1>2, SentIs DEF InOrder, TracerInv, MsgInv, ReceivesAreMade

\* The place of a request that is matched.
LEMMA RequestIsAt ==
    ASSUME MatchInv, Started, pid \in Ranks, nth <= Len(ops[pid]), NEW o, Halves(o)
    PROVE  AtRequest(o)
<1>1. nth \in Nat \ {0} /\ req \in Nat \ {0} /\ Len(ops[pid]) \in Nat
  BY LenIsNat DEF MatchInv, Place, OpsAreLogged
<1> QED
  BY <1>1 DEF AtRequest, Halves

\* A request that is not matched is of no channel in order.
LEMMA ExactSkip ==
    ASSUME TracerInv, MatchInv, OrderInv, MatchRequest, Started, UNCHANGED vars,
           ops' = ops, edges' = edges,
           \/ ~ (IsReceive(Receiver) /\ req <= Len(Receiver.partners) /\ IsMessage(Wanted))
           \/ \A k \in 1..Len(ops[Wanted.source]) : ~ Answers(ops[Wanted.source][k], Wanted),
           NEW o, Halves(o)
    PROVE  Halves(o)'
<1>1. pid \in Ranks /\ nth <= Len(ops[pid]) /\ NextRequest /\ pid' = pid /\ calls' = calls
  BY DEF MatchRequest, vars, history
<1>2. AtRequest(o)
  BY <1>1, RequestIsAt
<1>3. ASSUME NEW c \in Channels, c[1] # c[2], InOrder(c), NEW m, Half(o, c, m)
      PROVE  Half(o, c, m)'
  <2>1. ASSUME NEW i \in 1..Len(received[c]), IsNext(o, c, i) PROVE FALSE
    <3>1. /\ c[2] = pid /\ IsReceive(Receiver) /\ req \in 1..Len(Receiver.partners)
          /\ Wanted = PartnersOf(c) /\ IsMessage(Wanted)
      BY <1>2, <1>3, <2>1, NextNames
    <3>2. m + 1 \in 1..Len(received[c])
      BY <1>2, <1>3, <3>1, NextIs
    <3>3. m + 1 \in 1..Len(sent[c])
      BY <1>3, <3>2, ReceivedIsSent
    <3>4. Origin(o[c[1]], calls[c[1]], ops[c[1]])
      BY DEF Halves, Channels
    <3>5. \E k \in 1..Len(ops[c[1]]) : Answers(ops[c[1]][k], PartnersOf(c))
      BY <1>3, <3>3, <3>4, SendIsThat
    <3>6. Wanted.source = c[1] /\ req <= Len(Receiver.partners)
      BY <3>1 DEF PartnersOf, Partners
    <3> QED
      BY <3>1, <3>5, <3>6
  <2>2. \A i \in 1..Len(received[c]) : Ahead(o, c, i)' <=> Ahead(o, c, i)
    BY <1>1, <1>2, <1>3, <2>1, AheadNext
  <2>3. \A i \in 1..Len(sent[c]) : Left(o, c, i)' <=> Left(o, c, i)
    BY SamePlaces DEF Left
  <2> QED
    BY <1>3, <2>2, <2>3, HalfStays
<1>4. \A c \in Channels : InOrder(c)' <=> InOrder(c)
  BY SamePlaces
<1>5. \A r \in Ranks : Origin(o[r], calls'[r], ops'[r])
  BY <1>1 DEF Halves
<1> QED
  BY <1>3, <1>4, <1>5 DEF Halves

\* The i-th call that is left of the source of channel b is taken: q are the places of the others.
TakesCall(o, q, b, i) ==
    /\ i \in 1..Len(ops[b[1]]) /\ DOMAIN ops = Ranks
    /\ ops' = [ops EXCEPT ![b[1]] = RemoveAt(@, i)]
    /\ \A r \in Ranks : Origin(o[r], calls[r], ops[r])
    /\ \A r \in Ranks : r # b[1] => q[r] = o[r]
    /\ Others(q[b[1]], Len(RemoveAt(ops[b[1]], i)), o[b[1]], Len(ops[b[1]]), i)

\* What is left of the sends when the i-th call left of a process is taken.
LEMMA LeftWithout ==
    ASSUME UNCHANGED vars, NEW b \in Channels, NEW c \in Channels, NEW i, NEW j, NEW o, NEW q,
           TakesCall(o, q, b, i)
    PROVE  Left(q, c, j)' <=> Left(o, c, j) /\ ~ (c[1] = b[1] /\ SendAt(c)[j] = o[b[1]][i])
<1> DEFINE y == SendAt(c)[j]
<1>1. SendAt(c)' = SendAt(c) /\ b[1] \in Ranks /\ c[1] \in Ranks
  BY SamePlaces DEF Channels
<1>2. CASE c[1] # b[1]
  BY <1>1, <1>2 DEF Left, TakesCall
<1>3. CASE c[1] = b[1]
  <2>1. ops'[b[1]] = RemoveAt(ops[b[1]], i)
    BY <1>1 DEF TakesCall
  <2>6. Left(q, c, j)' <=> \E k \in 1..Len(RemoveAt(ops[b[1]], i)) : q[b[1]][k] = y
    BY <1>1, <1>3, <2>1 DEF Left
  <2>2. Left(q, c, j)' <=> \E k \in 1..Len(ops[b[1]]) : k # i /\ o[b[1]][k] = y
    BY <2>6 DEF TakesCall, Others
  <2>3. Left(o, c, j) <=> \E k \in 1..Len(ops[b[1]]) : o[b[1]][k] = y
    BY <1>3 DEF Left
  <2>4. \A k \in 1..Len(ops[b[1]]) : k # i => o[b[1]][k] # o[b[1]][i]
    <3>1. \A k, l \in 1..Len(ops[b[1]]) : k < l => o[b[1]][k] < o[b[1]][l]
      BY <1>1 DEF Origin, TakesCall
    <3>2. \A k \in 1..Len(ops[b[1]]) : o[b[1]][k] \in Int
      BY <1>1 DEF Origin, TakesCall
    <3>3. i \in 1..Len(ops[b[1]])
      BY DEF TakesCall
    <3>4. \A k \in 1..Len(ops[b[1]]) : k # i => k < i \/ i < k
      BY <3>3
    <3> QED
      BY <3>1, <3>2, <3>3, <3>4
  <2> HIDE DEF y
  <2>5. Left(q, c, j)' <=> Left(o, c, j) /\ y # o[b[1]][i]
    BY <2>2, <2>3, <2>4
  <2> QED
    BY <1>3, <2>5 DEF y
<1> QED
  BY <1>2, <1>3

\* A call to send belongs to one channel.
LEMMA SendOfOne ==
    ASSUME TracerInv, OrderInv, NEW b \in Channels, NEW i \in 1..Len(ops[b[1]]),
           NEW o, Origin(o[b[1]], calls[b[1]], ops[b[1]]),
           Answers(ops[b[1]][i], PartnersOf(b)),
           NEW c \in Channels, NEW j \in 1..Len(sent[c]), c[1] = b[1], SendAt(c)[j] = o[b[1]][i]
    PROVE  c = b
<1>1. calls[b[1]][o[b[1]][i]].call = ops[b[1]][i]
  BY DEF Origin
<1>2. calls[c[1]][SendAt(c)[j]].call = SendCall(c, sent[c][j])
  BY PlacesOfSends DEF SendOrder
<1>3. SendCall(c, sent[c][j]).partners[1] = PartnersOf(c)
  BY DEF SendCall, P2P
<1> QED
  BY <1>1, <1>2, <1>3, OneChannel DEF Answers

\* Different messages of a channel are sent by different calls.
LEMMA SendsDiffer ==
    ASSUME OrderInv, NEW c \in Channels, NEW i \in 1..Len(sent[c]), NEW j \in 1..Len(sent[c]),
           SendAt(c)[i] = SendAt(c)[j]
    PROVE  i = j
<1>1. SendAt(c)[i] \in Int /\ SendAt(c)[j] \in Int
  BY PlacesOfSends DEF SendOrder
<1>2. (i < j => SendAt(c)[i] < SendAt(c)[j]) /\ (j < i => SendAt(c)[j] < SendAt(c)[i])
  BY PlacesOfSends DEF SendOrder
<1> QED
  BY <1>1, <1>2

\* What a request finds in a channel in order: its next message.
LEMMA ExactFinds ==
    ASSUME TracerInv, OrderInv, NEW o, AtRequest(o), NEW b \in Channels, b[1] # b[2], b[2] = pid,
           Origin(o[b[1]], calls[b[1]], ops[b[1]]), Wanted = PartnersOf(b), Wanted.source = b[1],
           IsReceive(Receiver), req <= Len(Receiver.partners), InOrder(b), NEW m, Half(o, b, m),
           NEW i, Matches(Wanted, i)
    PROVE  /\ m + 1 \in 1..Len(received[b]) /\ m + 1 \in 1..Len(sent[b]) /\ IsNext(o, b, m + 1)
           /\ o[b[1]][i] = SendAt(b)[m + 1]
           /\ Edge(Wanted, ops[b[1]][i]) = TrueEdge(b, m + 1)
<1>1. req \in 1..Len(Receiver.partners)
  <2>1. Receiver.partners = Receiver.partners /\ req \in Nat \ {0}
    BY DEF AtRequest
  <2> QED
    BY <2>1
<1>2. m + 1 \in 1..Len(received[b]) /\ IsNext(o, b, m + 1)
  BY <1>1, NextIs
<1> DEFINE n == m + 1
<1>3. n \in 1..Len(sent[b]) /\ received[b][n].nth = n
  BY <1>2, ReceivedIsSent
<1>4. o[b[1]][i] = SendAt(b)[n] /\ ops[b[1]][i] = SendCall(b, sent[b][n])
  BY <1>3, SendIsThat DEF Matches
<1>5. Receiver.type = received[b][n].type /\ Receiver.site = received[b][n].site
  BY <1>2, NextNames
<1>6. Wanted.dest = b[2]
  BY DEF PartnersOf, Partners
<1> HIDE DEF n
<1>7. Edge(Wanted, ops[b[1]][i]) = TrueEdge(b, n)
  BY <1>3, <1>4, <1>5, <1>6 DEF Edge, TrueEdge, SendCall, P2P
<1> QED
  BY <1>2, <1>3, <1>4, <1>7 DEF n

\* A request that is matched is the next of its channel, if this is in order.
LEMMA ExactJoin ==
    ASSUME TracerInv, MatchInv, OrderInv, MatchRequest, Started, UNCHANGED vars,
           IsReceive(Receiver), req <= Len(Receiver.partners), IsMessage(Wanted),
           NEW i, Matches(Wanted, i), NEW o, Halves(o), EdgesAreTrue
    PROVE  EdgesAreTrue' /\ \E q : Halves(q)'
<1>1. /\ pid \in Ranks /\ nth <= Len(ops[pid]) /\ NextRequest /\ pid' = pid /\ calls' = calls
      /\ received' = received /\ sent' = sent
  BY DEF MatchRequest, vars, history, mpi
<1>2. AtRequest(o)
  BY <1>1, RequestIsAt
<1>3. PICK b \in Channels : /\ Wanted = PartnersOf(b) /\ b[2] = pid /\ b[1] # b[2]
                            /\ Wanted.source = b[1] /\ Wanted.dest = b[2] /\ b[1] \in Ranks
  BY <1>1, WantedIs
<1>4. PICK t, e : t = ops[b[1]] /\ e = Edge(Wanted, ops[b[1]][i])
  OBVIOUS
<1>5. /\ i \in 1..Len(t) /\ Answers(t[i], PartnersOf(b)) /\ IsSend(t[i])
      /\ ops' = [ops EXCEPT ![b[1]] = RemoveAt(@, i)] /\ edges' = edges \cup {e}
      /\ DOMAIN ops = Ranks /\ IsSequence(t)
  BY <1>3, <1>4 DEF Matches, Answers, IsSend, MatchInv, OpsAreLogged
<1>6. \A r \in Ranks : Origin(o[r], calls[r], ops[r])
  BY DEF Halves
<1>7. Origin(o[b[1]], calls[b[1]], t)
  BY <1>3, <1>4, <1>6
<1>8. PICK s : /\ Origin(s, calls[b[1]], RemoveAt(t, i))
               /\ Others(s, Len(RemoveAt(t, i)), o[b[1]], Len(t), i)
  BY <1>5, <1>7, RemoveOrigin
<1>9. PICK q : q = [r \in Ranks |-> IF r = b[1] THEN s ELSE o[r]]
  OBVIOUS
<1>10. /\ q[b[1]] = s /\ q[pid] = o[pid] /\ \A r \in Ranks : r # b[1] => q[r] = o[r]
  BY <1>1, <1>3, <1>9
<1>11. \A r \in Ranks : Origin(q[r], calls'[r], ops'[r])
  BY <1>1, <1>3, <1>4, <1>5, <1>6, <1>8, <1>10
<1>12. ops'[pid] = ops[pid]
  BY <1>1, <1>3, <1>5
<1>20. TakesCall(o, q, b, i)
  BY <1>4, <1>5, <1>6, <1>8, <1>10 DEF TakesCall
<1>13. ASSUME NEW c \in Channels, NEW j \in 1..Len(sent[c])
       PROVE  Left(q, c, j)' <=> Left(o, c, j) /\ ~ (c[1] = b[1] /\ SendAt(c)[j] = o[b[1]][i])
  BY <1>20, LeftWithout
<1>14. ASSUME NEW c \in Channels, c[1] # c[2], NEW j \in 1..Len(received[c])
       PROVE  Ahead(q, c, j)' <=> Ahead(o, c, j) /\ ~ IsNext(o, c, j)
  BY <1>1, <1>2, <1>10, <1>12, <1>14, AheadNext
<1>15. edges \subseteq edges'
  BY <1>5
<1>16. ASSUME NEW c \in Channels, c[1] # c[2], c # b, NEW m, Half(o, c, m)
       PROVE  Half(q, c, m)'
  <2>1. \A j \in 1..Len(sent[c]) : Left(q, c, j)' <=> Left(o, c, j)
    BY <1>4, <1>5, <1>7, <1>13, <1>16, SendOfOne
  <2>2. \A j \in 1..Len(received[c]) : ~ IsNext(o, c, j)
    BY <1>2, <1>3, <1>16, NextNames, OneChannel
  <2>3. \A j \in 1..Len(received[c]) : Ahead(q, c, j)' <=> Ahead(o, c, j)
    BY <1>14, <1>16, <2>2
  <2> QED
    BY <1>15, <1>16, <2>1, <2>3, HalfStays
<1>17. ASSUME InOrder(b)
       PROVE  /\ \E m : Half(q, b, m)'
              /\ \E k \in 1..Len(received[b]) : e = TrueEdge(b, k)
  <2>1. PICK m : Half(o, b, m)
    BY <1>3, <1>17 DEF Halves
  <2>2. /\ m + 1 \in 1..Len(received[b]) /\ m + 1 \in 1..Len(sent[b]) /\ IsNext(o, b, m + 1)
        /\ o[b[1]][i] = SendAt(b)[m + 1] /\ e = TrueEdge(b, m + 1)
    BY <1>2, <1>3, <1>4, <1>7, <1>17, <2>1, ExactFinds
  <2>3. \A j \in 1..Len(sent[b]) : Left(q, b, j)' <=> Left(o, b, j) /\ j # m + 1
    BY <1>13, <2>2, SendsDiffer
  <2>4. \A j \in 1..Len(received[b]) : IsNext(o, b, j) <=> j = m + 1
    <3>1. ASSUME NEW j \in 1..Len(received[b]), IsNext(o, b, j) PROVE j = m + 1
      BY <1>3, <2>2, <3>1, ReceivesDiffer DEF IsNext
    <3> QED
      BY <2>2, <3>1
  <2>5. \A j \in 1..Len(received[b]) : Ahead(q, b, j)' <=> Ahead(o, b, j) /\ j # m + 1
    BY <1>3, <1>14, <2>4
  <2>6. Len(received[b]) \in Nat
    BY <1>17, ReceivedIsSent
  <2>7. TrueEdge(b, m + 1) \in edges'
    BY <1>5, <2>2
  <2>8. Half(q, b, m + 1)'
    BY <1>15, <2>1, <2>2, <2>3, <2>5, <2>6, <2>7, HalfMore
  <2> QED
    BY <2>2, <2>8
<1>18. Halves(q)'
  <2>1. \A c \in Channels : InOrder(c)' <=> InOrder(c)
    BY SamePlaces
  <2>2. ASSUME NEW c \in Channels, c[1] # c[2], InOrder(c) PROVE \E m : Half(q, c, m)'
    <3>1. PICK m : Half(o, c, m)
      BY <2>2 DEF Halves
    <3> QED
      BY <1>16, <1>17, <2>2, <3>1
  <2> QED
    BY <1>11, <2>1, <2>2 DEF Halves
<1>19. EdgesAreTrue'
  <2> SUFFICES ASSUME NEW d \in edges'
               PROVE  \E c \in Channels :
                        /\ c[1] # c[2] /\ d.src = c[1] /\ d.dest = c[2]
                        /\ InOrder(c)' => \E k \in 1..Len(received'[c]) : d = TrueEdge(c, k)'
    BY DEF EdgesAreTrue
  <2>1. \E c \in Channels :
           /\ c[1] # c[2] /\ d.src = c[1] /\ d.dest = c[2]
           /\ InOrder(c) => \E k \in 1..Len(received[c]) : d = TrueEdge(c, k)
    <3>1. CASE d \in edges
      BY <3>1 DEF EdgesAreTrue
    <3>2. CASE d = e
      <4>1. e.src = b[1] /\ e.dest = b[2]
        BY <1>3, <1>4 DEF Edge
      <4> QED
        BY <1>3, <1>17, <3>2, <4>1
    <3> QED
      BY <1>5, <3>1, <3>2
  <2> QED
    BY <1>1, <2>1, SamePlaces
<1> QED
  BY <1>18, <1>19

\* The receives of a process whose calls are all left to be looked at.
LEMMA ReceivesOrigin ==
    ASSUME OrderInv, NEW c \in Channels, c[1] # c[2], NEW i \in 1..Len(received[c]),
           NEW w, NEW t, Origin(w, calls[c[2]], t), Len(t) \in Nat
    PROVE  \E k \in 1..Len(t) : w[k] = CallAt(c, i) /\ ~ Before(k, RequestAt(c, i), 1, 1)
<1>1. /\ CallAt(c, i) \in 1..Len(calls[c[2]])
      /\ IsRequest(calls[c[2]], CallAt(c, i), RequestAt(c, i), PartnersOf(c))
  BY PlacesOfReceives DEF CallAt, RequestAt, ReceiveOrder
<1>2. /\ calls[c[2]][CallAt(c, i)].book = "p2p" /\ ~ IsSend(calls[c[2]][CallAt(c, i)].call)
      /\ RequestAt(c, i) \in Nat \ {0}
  <2>1. PICK e, j : e = calls[c[2]][CallAt(c, i)] /\ j = RequestAt(c, i)
    OBVIOUS
  <2>2. e.book = "p2p" /\ IsReceive(e.call) /\ j \in 1..Len(e.call.partners)
    BY <1>1, <2>1 DEF IsRequest
  <2>3. ~ IsSend(e.call)
    BY <2>2 DEF IsSend, IsReceive
  <2>4. j \in Nat \ {0}
    BY <2>2
  <2> QED
    BY <2>1, <2>2, <2>3, <2>4
<1>3. PICK k \in 1..Len(t) : w[k] = CallAt(c, i)
  BY <1>1, <1>2 DEF Origin
<1>4. ~ Before(k, RequestAt(c, i), 1, 1)
  BY <1>2 DEF Before
<1> QED
  BY <1>3, <1>4

\* At the end of a process nothing of it is ahead, and all of the next one is.
LEMMA ExactProcess ==
    ASSUME TracerInv, MatchInv, OrderInv, NextProcess, NEW o, Halves(o), EdgesAreTrue
    PROVE  EdgesAreTrue' /\ Halves(o)'
<1>1. /\ Started /\ pid \in Ranks /\ nth > Len(ops[pid]) /\ pid' = pid + 1 /\ nth' = 1 /\ req' = req
      /\ ops' = ops /\ edges' = edges /\ UNCHANGED vars
      /\ calls' = calls /\ received' = received /\ sent' = sent
  BY DEF NextProcess, Started, vars, history, mpi
<1>2. pid \in Nat /\ nth \in Nat \ {0} /\ \A r \in Ranks : Len(ops[r]) \in Nat
  BY <1>1, LenIsNat DEF MatchInv, Place, OpsAreLogged
<1>3. req = 1
  BY <1>1, <1>2 DEF MatchInv, Place
<1>4. \A r \in Ranks : Origin(o[r], calls[r], ops[r])
  BY DEF Halves
<1>5. ASSUME NEW c \in Channels, c[1] # c[2], NEW i \in 1..Len(received[c])
      PROVE  Ahead(o, c, i)' <=> Ahead(o, c, i)
  <2> DEFINE j == RequestAt(c, i)
  <2>1. c[2] \in Ranks /\ c[2] \in Nat
    BY TracerAssumption DEF Channels
  <2>2. CallAt(c, i)' = CallAt(c, i) /\ RequestAt(c, i)' = j
    BY <1>1, SamePlaces
  <2>3. \A k \in 1..Len(ops[pid]) : Before(k, j, nth, req)
    BY <1>1, <1>2 DEF Before
  <2>4. Ahead(o, c, i) <=> c[2] > pid
    BY <2>3 DEF Ahead
  <2>5. c[2] = pid + 1 => \E k \in 1..Len(ops[c[2]]) : o[c[2]][k] = CallAt(c, i) /\ ~ Before(k, j, 1, 1)
    BY <1>2, <1>4, <1>5, <2>1, ReceivesOrigin
  <2>6. Ahead(o, c, i)' <=>
            \/ c[2] > pid + 1
            \/ /\ c[2] = pid + 1
               /\ \E k \in 1..Len(ops[pid + 1]) : o[pid + 1][k] = CallAt(c, i) /\ ~ Before(k, j, 1, 1)
    BY <1>1, <1>3, <2>2 DEF Ahead
  <2>7. c[2] > pid <=> (c[2] > pid + 1 \/ c[2] = pid + 1)
    BY <1>2, <2>1
  <2> QED
    BY <2>4, <2>5, <2>6, <2>7
<1>6. ASSUME NEW c \in Channels, c[1] # c[2], NEW m, Half(o, c, m) PROVE Half(o, c, m)'
  <2>1. \A i \in 1..Len(sent[c]) : Left(o, c, i)' <=> Left(o, c, i)
    BY <1>1, SamePlaces DEF Left
  <2> QED
    BY <1>1, <1>5, <1>6, <2>1, HalfStays
<1>7. \A c \in Channels : InOrder(c)' <=> InOrder(c)
  BY <1>1, SamePlaces
<1>8. Halves(o)'
  BY <1>1, <1>4, <1>6, <1>7 DEF Halves
<1>9. EdgesAreTrue'
  BY <1>1, SamePlaces DEF EdgesAreTrue
<1> QED
  BY <1>8, <1>9

\* A trace that was written as a whole names the calls one by one.
LEMMA TraceIs ==
    ASSUME TracerInv, AllFinalized, Complete, NEW r \in Ranks
    PROVE  /\ IsSequence(file[r]["trace"]) /\ Len(file[r]["trace"]) = Len(calls[r])
           /\ IsSequence(file[r]["p2p"])
           /\ \A i \in 1..Len(calls[r]) :
                 /\ file[r]["trace"][i][1] = calls[r][i].book
                 /\ calls[r][i].book = "p2p" =>
                       file[r]["p2p"][file[r]["trace"][i][2]].call = calls[r][i].call
<1>1. \A b \in Books : IsSequence(file[r][b]) /\ mem[r][b] = <<>>
  BY DEF TracerInv, IInv, Shape, LogInv, WrittenAtEnd, AllFinalized, Complete
<1>2. \A b \in Books : Entries(r, b) = file[r][b]
  BY <1>1, ConcatEmpty DEF Entries
<1>3. Replays(r, Entries(r, "trace"))
  BY DEF TracerInv, IInv, TracesReplay, Complete
<1> QED
  BY <1>1, <1>2, <1>3, SMTT(20) DEF Replays, Books

\* The calls that the exact analysis reads are all the point-to-point calls, in their order.
LEMMA ReadOrigin ==
    ASSUME TracerInv, AllFinalized, Complete, ReadTraces, analysis' = "exact", NEW r \in Ranks
    PROVE  \E w : /\ Origin(w, calls[r], ops'[r]) /\ Len(ops'[r]) \in Nat
                  /\ \A x \in 1..Len(calls[r]) : calls[r][x].book = "p2p" =>
                        \E k \in 1..Len(ops'[r]) : w[k] = x
<1>1. PICK trace, log, cs : trace = file[r]["trace"] /\ log = file[r]["p2p"] /\ cs = calls[r]
  OBVIOUS
<1>2. /\ IsSequence(trace) /\ Len(trace) = Len(cs)
      /\ \A i \in 1..Len(cs) : /\ trace[i][1] = cs[i].book
                               /\ cs[i].book = "p2p" => log[trace[i][2]].call = cs[i].call
  BY <1>1, TraceIs
<1>3. DOMAIN trace = 1..Len(cs)
  BY <1>2, LenIsNat
<1>4. PICK S : S = {i \in DOMAIN trace : trace[i][1] = "p2p"}
  OBVIOUS
<1>5. S \in SUBSET (1..Len(trace)) /\ \A i \in 1..Len(cs) : i \in S <=> cs[i].book = "p2p"
  BY <1>2, <1>3, <1>4
<1>6. PICK t, n : t = Selected(trace, S) /\ n = Cardinality(S)
  OBVIOUS
<1>7. /\ n \in Nat /\ DOMAIN t = 1..n
      /\ \A k \in 1..n : Nth(S, k) \in S /\ t[k] = trace[Nth(S, k)]
      /\ \A i \in S : \E k \in 1..n : Nth(S, k) = i
      /\ \A k, l \in 1..n : k < l => Nth(S, k) < Nth(S, l)
  BY <1>2, <1>5, <1>6, SelectedIs
<1>8. P2PTrace(r) = t
  BY <1>1, <1>4, <1>6 DEF P2PTrace
<1>9. ops'[r] = [i \in DOMAIN t |-> log[t[i][2]].call]
  BY <1>1, <1>8 DEF ReadTraces
<1>10. ops'[r] = [i \in 1..n |-> ops'[r][i]] /\ \A i \in 1..n : ops'[r][i] = log[t[i][2]].call
  BY <1>7, <1>9
<1>11. Len(ops'[r]) = n
  BY <1>7, <1>10, IsSequenceOf
<1>12. PICK w : w = [k \in 1..n |-> Nth(S, k)]
  OBVIOUS
<1>13. \A k \in 1..n : w[k] = Nth(S, k)
  BY <1>12
<1>14. ASSUME NEW k \in 1..n
       PROVE  w[k] \in 1..Len(cs) /\ cs[w[k]].book = "p2p" /\ cs[w[k]].call = ops'[r][k]
  <2>1. PICK x : x = Nth(S, k)
    OBVIOUS
  <2>2. w[k] = x /\ x \in S /\ t[k] = trace[x]
    BY <1>7, <1>13, <2>1
  <2>3. x \in 1..Len(cs) /\ cs[x].book = "p2p" /\ log[trace[x][2]].call = cs[x].call
    BY <1>2, <1>5, <2>2
  <2>4. ops'[r][k] = log[t[k][2]].call
    BY <1>10
  <2> QED
    BY <2>2, <2>3, <2>4
<1>15. \A x \in 1..Len(cs) : cs[x].book = "p2p" => \E k \in 1..n : w[k] = x
  BY <1>5, <1>7, <1>13
<1>16. \A k, l \in 1..n : k < l => w[k] < w[l]
  BY <1>7, <1>13
<1>17. Origin(w, cs, ops'[r])
  BY <1>11, <1>14, <1>15, <1>16 DEF Origin
<1> QED
  BY <1>1, <1>7, <1>11, <1>15, <1>17

\* The exact analysis begins with nothing matched.
LEMMA ExactStart ==
    ASSUME TracerInv, MatchInv, OrderInv, StartMatch, ReadTraces, analysis' = "exact",
           UNCHANGED vars, Complete
    PROVE  EdgesAreTrue' /\ \E o : Halves(o)'
<1>1. /\ AllFinalized /\ calls' = calls /\ received' = received /\ sent' = sent
      /\ pid' = 0 /\ nth' = 1 /\ req' = 1 /\ edges' = {}
  BY DEF StartMatch, MatchInv, vars, history, mpi
<1>2. EdgesAreTrue'
  BY <1>1 DEF EdgesAreTrue
<1> DEFINE W(r, w) == /\ Origin(w, calls[r], ops'[r]) /\ Len(ops'[r]) \in Nat
                      /\ \A x \in 1..Len(calls[r]) : calls[r][x].book = "p2p" =>
                            \E k \in 1..Len(ops'[r]) : w[k] = x
<1>3. \A r \in Ranks : \E w : W(r, w)
  BY <1>1, ReadOrigin
<1>4. PICK o : o = [r \in Ranks |-> CHOOSE w : W(r, w)]
  OBVIOUS
<1> HIDE DEF W
<1>5. ASSUME NEW r \in Ranks PROVE W(r, o[r])
  BY <1>3, <1>4
<1>6. ASSUME NEW c \in Channels, NEW i \in 1..Len(sent[c]) PROVE Left(o, c, i)'
  <2>1. c[1] \in Ranks
    BY DEF Channels
  <2>2. SendAt(c)[i] \in 1..Len(calls[c[1]]) /\ calls[c[1]][SendAt(c)[i]].book = "p2p"
    BY PlacesOfSends DEF SendOrder
  <2>3. \E k \in 1..Len(ops'[c[1]]) : o[c[1]][k] = SendAt(c)[i]
    BY <1>5, <2>1, <2>2 DEF W
  <2> QED
    BY <2>3, SamePlaces DEF Left
<1>7. ASSUME NEW c \in Channels, c[1] # c[2], NEW i \in 1..Len(received[c]) PROVE Ahead(o, c, i)'
  <2>1. c[2] \in Ranks /\ c[2] \in Nat
    BY TracerAssumption DEF Channels
  <2>2. Origin(o[c[2]], calls[c[2]], ops'[c[2]]) /\ Len(ops'[c[2]]) \in Nat
    BY <1>5, <2>1 DEF W
  <2>3. \E k \in 1..Len(ops'[c[2]]) : /\ o[c[2]][k] = CallAt(c, i)
                                       /\ ~ Before(k, RequestAt(c, i), 1, 1)
    BY <1>7, <2>2, ReceivesOrigin
  <2>4. CallAt(c, i)' = CallAt(c, i) /\ RequestAt(c, i)' = RequestAt(c, i)
    BY SamePlaces
  <2>5. c[2] > 0 \/ c[2] = 0
    BY <2>1
  <2> QED
    BY <1>1, <2>3, <2>4, <2>5 DEF Ahead
<1>8. ASSUME NEW c \in Channels, c[1] # c[2] PROVE Half(o, c, 0)'
  <2>1. IsSequence(received[c])
    BY DEF TracerInv, MsgInv, World
  <2>2. Len(received[c]) \in Nat
    BY <2>1, LenIsNat
  <2> QED
    BY <1>1, <1>6, <1>7, <1>8, <2>2 DEF Half
<1>9. \A r \in Ranks : Origin(o[r], calls'[r], ops'[r])
  BY <1>1, <1>5 DEF W
<1>10. Halves(o)'
  BY <1>8, <1>9 DEF Halves
<1> QED
  BY <1>2, <1>10

\* When nothing changes it is as it was.
LEMMA ExactStill ==
    ASSUME ExactInv, UNCHANGED vars, UNCHANGED matching
    PROVE  ExactInv'
<1>1. /\ analysis' = analysis /\ ops' = ops /\ pid' = pid /\ nth' = nth /\ req' = req /\ edges' = edges
      /\ calls' = calls /\ received' = received /\ sent' = sent /\ failures' = failures /\ early' = early
  BY DEF matching, vars, history, mpi
<1>2. Exact' <=> Exact
  BY <1>1 DEF Exact, Complete
<1>3. EdgesAreTrue => EdgesAreTrue'
  BY <1>1, SamePlaces DEF EdgesAreTrue
<1>4. ASSUME NEW o, Halves(o) PROVE Halves(o)'
  <2>1. ASSUME NEW c \in Channels, NEW m, Half(o, c, m) PROVE Half(o, c, m)'
    <3>1. \A i : Left(o, c, i)' <=> Left(o, c, i)
      BY <1>1, SamePlaces DEF Left
    <3>2. \A i : Ahead(o, c, i)' <=> Ahead(o, c, i)
      <4>1. ASSUME NEW i PROVE CallAt(c, i)' = CallAt(c, i) /\ RequestAt(c, i)' = RequestAt(c, i)
        BY SamePlaces
      <4> QED
        BY <1>1, <4>1 DEF Ahead
    <3> QED
      BY <1>1, <2>1, <3>1, <3>2, HalfStays
  <2>2. \A c \in Channels : InOrder(c)' <=> InOrder(c)
    BY SamePlaces
  <2> QED
    BY <1>1, <1>4, <2>1, <2>2 DEF Halves
<1> QED
  BY <1>2, <1>3, <1>4 DEF ExactInv

\* Every step keeps ExactInv.
LEMMA ExactStep ==
    ASSUME TracerInv, MatchInv, OrderInv, ExactInv, [MpiNext]_MpiVars
    PROVE  ExactInv'
<1>1. \/ Next /\ UNCHANGED matching
      \/ MatchNext
      \/ UNCHANGED vars /\ UNCHANGED matching
  BY DEF MpiNext, MpiVars
<1>2. CASE UNCHANGED vars /\ UNCHANGED matching
  BY <1>2, ExactStill
<1>3. CASE Next /\ UNCHANGED matching
  <2>1. CASE analysis = "none"
    BY <1>3, <2>1 DEF ExactInv, Exact, matching
  <2>2. CASE analysis # "none"
    BY <1>3, <2>2, Frozen, ExactStill DEF MatchInv
  <2> QED
    BY <2>1, <2>2
<1>4. CASE MatchNext
  <2>1. UNCHANGED vars
    BY <1>4 DEF MatchNext, StartMatch, MatchRequest, NextProcess
  <2>2. Complete' <=> Complete
    BY <2>1 DEF Complete, vars, history
  <2> SUFFICES ASSUME Exact' PROVE EdgesAreTrue' /\ \E o : Halves(o)'
    BY DEF ExactInv
  <2>3. analysis' = "exact" /\ Complete
    BY <2>2 DEF Exact
  <2>4. CASE StartMatch
    <3>1. ReadTraces
      BY <2>3, <2>4 DEF StartMatch, Overrun, ReadLogs
    <3> QED
      BY <2>1, <2>3, <2>4, <3>1, ExactStart
  <2>5. ASSUME analysis' = analysis
        PROVE  Started /\ EdgesAreTrue /\ \E o : Halves(o)
    BY <2>3, <2>5 DEF ExactInv, Exact, Started
  <2>6. CASE MatchRequest
    <3>1. Started /\ EdgesAreTrue /\ \E o : Halves(o)
      BY <2>5, <2>6 DEF MatchRequest
    <3>2. PICK o : Halves(o)
      BY <3>1
    <3>3. CASE IsReceive(Receiver) /\ req <= Len(Receiver.partners) /\ IsMessage(Wanted)
      <4>1. Match(Wanted) /\ Wanted.source \in Ranks /\ DOMAIN ops = Ranks /\ OpsAreLogged
        BY <2>6, <3>1, <3>3 DEF MatchRequest, MatchInv, IsMessage
      <4>2. CASE \E i : Matches(Wanted, i)
        BY <2>1, <2>6, <3>1, <3>2, <3>3, <4>2, ExactJoin
      <4>3. CASE /\ \A i \in 1..Len(ops[Wanted.source]) : ~ Answers(ops[Wanted.source][i], Wanted)
                 /\ ops' = ops /\ edges' = edges
        <5>1. Halves(o)'
          BY <2>1, <2>6, <3>1, <3>2, <4>3, ExactSkip
        <5> QED
          BY <2>1, <3>1, <4>3, <5>1, SamePlaces DEF EdgesAreTrue, vars, history
      <4> QED
        BY <4>1, <4>2, <4>3, MatchIs
    <3>4. CASE ~ (IsReceive(Receiver) /\ req <= Len(Receiver.partners) /\ IsMessage(Wanted))
      <4>1. ops' = ops /\ edges' = edges
        BY <2>6, <3>4 DEF MatchRequest
      <4>2. Halves(o)'
        BY <2>1, <2>6, <3>1, <3>2, <3>4, <4>1, ExactSkip
      <4> QED
        BY <2>1, <3>1, <4>1, <4>2, SamePlaces DEF EdgesAreTrue, vars, history
    <3> QED
      BY <3>3, <3>4
  <2>7. CASE NextProcess
    <3>1. EdgesAreTrue /\ \E o : Halves(o)
      BY <2>5, <2>7 DEF NextProcess
    <3> QED
      BY <2>7, <3>1, ExactProcess
  <2> QED
    BY <1>4, <2>4, <2>6, <2>7 DEF MatchNext
<1> QED
  BY <1>1, <1>2, <1>3, <1>4

\* The invariants of the three parts, the order of the calls and what the exact analysis did.
WholeInv == AllInv /\ OrderInv /\ ExactInv

\* Every step of the whole keeps them all,
LEMMA WholeStep == WholeInv /\ [MpiNext]_MpiVars => WholeInv'
<1> SUFFICES ASSUME WholeInv, [MpiNext]_MpiVars PROVE WholeInv'
  OBVIOUS
<1>1. AllInv /\ OrderInv /\ ExactInv /\ TracerInv /\ MatchInv /\ Shape /\ MsgInv
  BY DEF WholeInv, AllInv, TracerInv, IInv
<1>2. AllInv'
  BY <1>1, AllStep
<1>3. [Next]_vars
  BY DEF MpiNext, MpiVars, MatchNext, StartMatch, MatchRequest, NextProcess
<1>4. OrderInv'
  BY <1>1, <1>3, OrderStep
<1>5. ExactInv'
  BY <1>1, ExactStep
<1> QED
  BY <1>2, <1>4, <1>5 DEF WholeInv

\* and they hold at first.
LEMMA WholeInit == MpiInit => WholeInv
<1> SUFFICES ASSUME MpiInit PROVE WholeInv
  OBVIOUS
<1>1. AllInv
  BY AllInit
<1>2. OrderInv
  BY OrderInit DEF MpiInit
<1>3. ExactInv
  BY DEF MpiInit, MatchInit, ExactInv, Exact
<1> QED
  BY <1>1, <1>2, <1>3 DEF WholeInv

\* At the end every receive of a channel in order has its edge.
LEMMA AllJoined ==
    ASSUME WholeInv, Matched, Exact, NEW c \in Channels, c[1] # c[2], InOrder(c),
           NEW i \in 1..Len(received[c])
    PROVE  TrueEdge(c, i) \in edges
<1>1. TracerInv /\ MatchInv /\ ExactInv
  BY DEF WholeInv, AllInv
<1>2. PICK o : Halves(o)
  BY <1>1 DEF ExactInv
<1>3. PICK m : Half(o, c, m)
  BY <1>2 DEF Halves
<1>4. pid \notin Ranks /\ pid \in Nat /\ c[2] \in Ranks
  BY <1>1 DEF Matched, MatchInv, Started, Place, Channels
<1>5. ~ Ahead(o, c, i)
  BY <1>4, RanksFrom0 DEF Ahead
<1>6. Len(received[c]) \in Nat
  BY <1>1, ReceivedIsSent
<1>7. m \in Nat /\ i \in 1..m
  BY <1>3, <1>5, <1>6 DEF Half
<1> QED
  BY <1>3, <1>7 DEF Half

\* For programs whose waits have no more requests than an entry of the analysis has room
\* for (ReadRequests, 50): if all files were written as a whole, the exact analysis joins
\* each receive between two processes to its message, and finds nothing else, where they
\* completed as they were posted.
THEOREM ExactEdgesAreTrue == MpiSpec => []ExactEdgesAreMessages
<1>1. WholeInv => ExactEdgesAreMessages
  <2> SUFFICES ASSUME WholeInv, Matched, analysis = "exact", Complete,
                      NEW p \in Ranks, NEW q \in Ranks, p # q,
                      \A c \in {b \in Channels : b[1] = p /\ b[2] = q} : InOrder(c)
               PROVE  EdgesBetween(p, q) = UNION {{TrueEdge(c, i) : i \in DOMAIN received[c]} :
                                                     c \in {b \in Channels : b[1] = p /\ b[2] = q}}
    BY DEF ExactEdgesAreMessages
  <2> DEFINE between == {b \in Channels : b[1] = p /\ b[2] = q}
  <2>1. TracerInv /\ ExactInv /\ Exact
    BY DEF WholeInv, AllInv, Exact
  <2>2. \A c \in Channels : DOMAIN received[c] = 1..Len(received[c])
    BY <2>1, LenIsNat DEF TracerInv, MsgInv, World
  <2>3. ASSUME NEW e \in EdgesBetween(p, q)
        PROVE  \E c \in between : \E i \in DOMAIN received[c] : e = TrueEdge(c, i)
    <3>1. e \in edges /\ e.src = p /\ e.dest = q
      BY DEF EdgesBetween
    <3>2. PICK c \in Channels : /\ e.src = c[1] /\ e.dest = c[2]
                                /\ InOrder(c) => \E i \in 1..Len(received[c]) : e = TrueEdge(c, i)
      BY <2>1, <3>1 DEF ExactInv, EdgesAreTrue
    <3> QED
      BY <2>2, <3>1, <3>2
  <2>4. ASSUME NEW c \in between, NEW i \in DOMAIN received[c]
        PROVE  TrueEdge(c, i) \in EdgesBetween(p, q)
    <3>1. c \in Channels /\ c[1] = p /\ c[2] = q /\ InOrder(c) /\ i \in 1..Len(received[c])
      BY <2>2
    <3>2. TrueEdge(c, i) \in edges
      BY <2>1, <3>1, AllJoined
    <3>3. TrueEdge(c, i).src = p /\ TrueEdge(c, i).dest = q
      BY <3>1 DEF TrueEdge
    <3> QED
      BY <3>2, <3>3 DEF EdgesBetween
  <2> HIDE DEF between
  <2>5. EdgesBetween(p, q) = UNION {{TrueEdge(c, i) : i \in DOMAIN received[c]} : c \in between}
    BY <2>3, <2>4
  <2> QED
    BY <2>5 DEF between
<1>2. MpiSpec => []WholeInv
  BY WholeInit, WholeStep, PTL DEF MpiSpec
<1> QED
  BY <1>1, <1>2, PTL
===============================================================================
