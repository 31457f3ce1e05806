---------------------------- MODULE PerfDataProofs ----------------------------
(* Theorems about PerfData, for any threads, paths, buffer sizes and bounds.  *)
EXTENDS PerfData, SumTheorems, TLAPS

\* What is read at any index of a buffer is a slot.
LEMMA AtType ==
    ASSUME TypeOK, NEW k \in Kinds, NEW i \in Nat
    PROVE  At(k, i) \in Slot
  BY ThreadAssumption, SpaceAssumption DEF TypeOK, At, Slot, Blank, Kinds

\* A buffer stays one when a slot is assigned to.
LEMMA AssignType ==
    ASSUME TypeOK, NEW k \in Kinds, NEW i \in Nat, NEW s \in Slot, Assign(k, i, s)
    PROVE  /\ \A l \in Kinds : slot'[l] \in [0..(Space[l] - 1) -> Slot]
           /\ DOMAIN slot' = Kinds
  BY SpaceAssumption DEF TypeOK, Assign

\* A context is a thread with a kind.
LEMMA ContextType ==
    ASSUME NEW c \in Context
    PROVE  Thread(c) \in Threads /\ Kind(c) \in Kinds /\ c = <<Thread(c), Kind(c)>>
  BY DEF Context, Thread, Kind

\* Control goes from one program point to another.
LEMMA GotoType ==
    ASSUME TypeOK, NEW c \in Context, NEW l \in PC, Goto(c, l)
    PROVE  pc' \in [Context -> PC]
  BY DEF TypeOK, Goto

\* The state is well typed at first.
LEMMA InitType == Init => TypeOK
<1> SUFFICES ASSUME Init PROVE TypeOK
  OBVIOUS
<1>1. Blank \in Slot
  BY ThreadAssumption DEF Blank, Slot
<1>2. (\A k \in Kinds : slot[k] \in [0..(Space[k] - 1) -> Slot]) /\ DOMAIN slot = Kinds
  BY <1>1 DEF Init
<1>3. pc \in [Context -> PC]
  BY DEF Init, PC
<1>4. cur \in [Context -> Paths \cup {NoPath}]
  BY DEF Init
<1>5. file \in Seq(Kinds \X Slot)
  BY DEF Init
<1> QED
  BY <1>2, <1>3, <1>4, <1>5 DEF Init, TypeOK

\* Every step of a context, and the destructor's, keeps the state well typed.
LEMMA StepType == TypeOK /\ [Next]_vars => TypeOK'
<1> SUFFICES ASSUME TypeOK, [Next]_vars PROVE TypeOK'
  OBVIOUS
<1>1. ASSUME NEW c \in Context, NEW p \in PathsOf[Thread(c)], Call(c, p) PROVE TypeOK'
  <2>1. pc' \in [Context -> PC]
    BY <1>1, GotoType DEF Call, PC
  <2>2. p \in Paths
    BY <1>1, ContextType, ThreadAssumption
  <2>3. cur' \in [Context -> Paths \cup {NoPath}] /\ calls' \in [Context -> Nat]
    BY <1>1, <2>2 DEF Call, TypeOK
  <2> QED
    BY <1>1, <2>1, <2>3 DEF Call, TypeOK
<1>2. ASSUME NEW c \in Context, Query(c) PROVE TypeOK'
  <2>1. pc' \in [Context -> PC]
    BY <1>2, GotoType DEF Query, PC
  <2>2. Matches(c) \subseteq Nat
    BY DEF Matches, TypeOK, Kinds
  <2> QED
    BY <1>2, <2>1, <2>2 DEF Query, TypeOK
<1>3. ASSUME NEW c \in Context, Load(c) PROVE TypeOK'
  <2>1. pc' \in [Context -> PC]
    BY <1>3, GotoType DEF Load, PC
  <2>2. At("v", idx[c]) \in Slot
    BY AtType DEF TypeOK, Kinds
  <2> QED
    BY <1>3, <2>1, <2>2 DEF Load, TypeOK, Slot
<1>4. ASSUME NEW c \in Context, Store(c) PROVE TypeOK'
  <2>1. pc' \in [Context -> PC]
    BY <1>4, GotoType DEF Store, PC
  <2>2. At("v", idx[c]) \in Slot
    BY AtType DEF TypeOK, Kinds
  <2>3. [At("v", idx[c]) EXCEPT !.value = tmp[c] + 1] \in Slot
    <3>1. tmp[c] + 1 \in Nat
      BY DEF TypeOK
    <3> QED
      BY <2>2, <3>1 DEF Slot
  <2>4. idx[c] \in Nat /\ "v" \in Kinds
    BY DEF TypeOK, Kinds
  <2>5. (\A l \in Kinds : slot'[l] \in [0..(Space[l] - 1) -> Slot]) /\ DOMAIN slot' = Kinds
    BY <1>4, <2>3, <2>4, AssignType DEF Store
  <2> QED
    BY <1>4, <2>1, <2>5 DEF Store, TypeOK
<1>5. ASSUME NEW c \in Context, Reserve(c) PROVE TypeOK'
  <2>1. pc' \in [Context -> PC]
    BY <1>5, GotoType DEF Reserve, PC
  <2>2. idx' \in [Context -> Nat] /\ count' \in [Kinds -> Nat]
    BY <1>5, ContextType DEF Reserve, TypeOK
  <2> QED
    BY <1>5, <2>1, <2>2 DEF Reserve, TypeOK
<1>6. ASSUME NEW c \in Context, Write(c) PROVE TypeOK'
  <2>1. pc' \in [Context -> PC]
    BY <1>6, GotoType DEF Write, PC
  <2>2. Kind(c) \in Kinds /\ Thread(c) \in Threads /\ idx[c] \in Nat
    BY ContextType DEF TypeOK
  <2> DEFINE s == At(Kind(c), idx[c])
  <2>3. s \in Slot
    BY <2>2, AtType
  <2>4. /\ [s EXCEPT !.path = cur[c]] \in Slot
        /\ [s EXCEPT !.value = 1] \in Slot
        /\ [s EXCEPT !.tid = Thread(c)] \in Slot
    BY <2>2, <2>3 DEF Slot, TypeOK
  <2>5. (\A l \in Kinds : slot'[l] \in [0..(Space[l] - 1) -> Slot]) /\ DOMAIN slot' = Kinds
    BY <1>6, <2>2, <2>4, AssignType DEF Write
  <2> QED
    BY <1>6, <2>1, <2>5 DEF Write, TypeOK
<1>7. ASSUME NEW c \in Context, Check(c) PROVE TypeOK'
  <2>1. pc' \in [Context -> PC]
    BY <1>7, GotoType DEF Check, PC
  <2> QED
    BY <1>7, <2>1 DEF Check, TypeOK
<1>8. ASSUME NEW c \in Context, Open(c) PROVE TypeOK'
  <2>1. pc' \in [Context -> PC]
    BY <1>8, GotoType DEF Open, PC
  <2>2. file' \in Seq(Kinds \X Slot)
    <3>1. file' = << >> \/ file' = file
      BY <1>8 DEF Open
    <3>2. << >> \in Seq(Kinds \X Slot)
      OBVIOUS
    <3>3. file \in Seq(Kinds \X Slot)
      BY DEF TypeOK
    <3> QED
      BY <3>1, <3>2, <3>3
  <2>3. pos' \in [Context -> Nat]
    BY <1>8 DEF Open, TypeOK
  <2> QED
    BY <1>8, <2>1, <2>2, <2>3 DEF Open, TypeOK
<1>9. ASSUME NEW c \in Context, NEW k \in Kinds, PrintRecord(c, k) PROVE TypeOK'
  <2> DEFINE s == At(k, pos[c])
             key == <<k, s.tid, s.path>>
  <2>1. pc' \in [Context -> PC]
    BY <1>9, GotoType DEF PrintRecord, Clearing, PC, TypeOK
  <2>2. s \in Slot
    BY AtType DEF TypeOK
  <2>3. file' \in Seq(Kinds \X Slot)
    <3>1. file' = file \/ file' = Append(file, <<k, s>>)
      BY <1>9 DEF PrintRecord
    <3>2. <<k, s>> \in Kinds \X Slot
      BY <2>2
    <3>3. file \in Seq(Kinds \X Slot)
      BY DEF TypeOK
    <3> HIDE DEF s
    <3> QED
      BY <3>1, <3>2, <3>3
  <2>4. printed' \in [Key -> Nat]
    <3>1. s.value \in Nat
      BY <2>2 DEF Slot
    <3>2. printed' = printed \/ (key \in Key /\ printed' = [printed EXCEPT ![key] = @ + s.value])
      BY <1>9 DEF PrintRecord
    <3>3. printed \in [Key -> Nat]
      BY DEF TypeOK
    <3> HIDE DEF s, key
    <3> QED
      BY <3>1, <3>2, <3>3
  <2>5. pos' \in [Context -> Nat]
    BY <1>9, SMTT(20) DEF PrintRecord, TypeOK
  <2> QED
    BY <1>9, <2>1, <2>3, <2>4, <2>5 DEF PrintRecord, TypeOK
<1>10. ASSUME NEW c \in Context, Clear(c) \/ Reset(c) PROVE TypeOK'
  <2>1. pc' \in [Context -> PC]
    BY <1>10, GotoType DEF Clear, Reset, PC
  <2> QED
    BY <1>10, <2>1 DEF Clear, Reset, TypeOK, Kinds
<1>11. CASE Fini
  <2>1. Wrapper(Main) \in Context
    BY ThreadAssumption DEF Context, Wrapper, Kinds
  <2>2. pc' \in [Context -> PC]
    BY <1>11, <2>1, GotoType DEF Fini, PC
  <2> QED
    BY <1>11, <2>2 DEF Fini, TypeOK
<1>12. CASE UNCHANGED vars
  BY <1>12 DEF vars, TypeOK
<1> QED
  BY <1>1, <1>2, <1>3, <1>4, <1>5, <1>6, <1>7, <1>8, <1>9, <1>10, <1>11, <1>12
  DEF Next, Step, Terminated

\* TypeOK: the counts, indices and program points of the code stay in their
\* types however the threads and their handlers interleave.
THEOREM TypeCorrect == Spec => []TypeOK
  BY InitType, StepType, PTL DEF Spec

-------------------------------------------------------------------------------
(* The slots kept free at the threshold.                                       *)

\* Each thread has one context of each kind.
LEMMA HoldingType ==
    ASSUME NEW k \in Kinds
    PROVE  IsFiniteSet(Holding(k)) /\ Cardinality(Holding(k)) \in Nat
  BY ThreadAssumption, FS_Subset, FS_CardinalityType DEF Holding

\* A step that adds no record, and lets no context go on past its Dump.
LEMMA StillHeld ==
    ASSUME TypeOK, TypeOK', NEW k \in Kinds, CountIsHeld(k),
           count'[k] <= count[k], Holding(k) \subseteq Holding(k)'
    PROVE  CountIsHeld(k)'
<1>1. IsFiniteSet(Holding(k)')
  BY ThreadAssumption, FS_Subset DEF Holding
<1>2. Cardinality(Holding(k)) <= Cardinality(Holding(k)')
  BY <1>1, FS_Subset
<1>3. Cardinality(Holding(k)) \in Nat /\ Cardinality(Holding(k)') \in Nat
  BY <1>1, HoldingType, FS_CardinalityType
<1> HIDE DEF Holding
<1> QED
  BY <1>2, <1>3, SpaceAssumption DEF CountIsHeld, TypeOK

\* A step after which the count is below the threshold.
LEMMA HeldBelowThreshold ==
    ASSUME TypeOK', NEW k \in Kinds, count'[k] < Space[k] - Slack
    PROVE  CountIsHeld(k)'
<1>1. Cardinality(Holding(k)') \in Nat
  BY ThreadAssumption, FS_Subset, FS_CardinalityType DEF Holding
<1> QED
  BY <1>1, SpaceAssumption DEF CountIsHeld, TypeOK

BoundInv == \A k \in Kinds : Guarded(k) => CountIsHeld(k)

\* What a context's own control does to the set of holders.
LEMMA HoldingStep ==
    ASSUME TypeOK, NEW c \in Context, NEW l \in PC, Goto(c, l), NEW k \in Kinds
    PROVE  /\ Kind(c) # k => Holding(k)' = Holding(k)
           /\ Kind(c) = k /\ l \in HoldingPC(k) => Holding(k)' = Holding(k) \cup {Thread(c)}
           /\ pc[c] \notin HoldingPC(k) => Holding(k) \subseteq Holding(k)'
<1>1. pc \in [Context -> PC] /\ pc' = [pc EXCEPT ![c] = l]
  BY DEF TypeOK, Goto
<1>2. \A t \in Threads : <<t, k>> \in Context
  BY DEF Context
<1>3. c = <<Thread(c), Kind(c)>> /\ Thread(c) \in Threads
  BY ContextType
<1>4. HoldingPC(k)' = HoldingPC(k)
  BY DEF HoldingPC
<1>5. \A t \in Threads : pc'[<<t, k>>] = IF <<t, k>> = c THEN l ELSE pc[<<t, k>>]
  BY <1>1, <1>2
<1>6. \A t \in Threads : <<t, k>> = c <=> t = Thread(c) /\ k = Kind(c)
  BY <1>3
<1>7. \A t \in Threads : t \in Holding(k) <=> pc[<<t, k>>] \in HoldingPC(k)
  BY DEF Holding
<1>8. \A t \in Threads : t \in Holding(k)' <=> pc'[<<t, k>>] \in HoldingPC(k)
  BY <1>4 DEF Holding
<1>9. Holding(k) \subseteq Threads /\ Holding(k)' \subseteq Threads
  BY DEF Holding
<1> HIDE DEF Holding
<1>10. Kind(c) # k => Holding(k)' = Holding(k)
  BY <1>5, <1>6, <1>7, <1>8, <1>9
<1>11. Kind(c) = k /\ l \in HoldingPC(k) => Holding(k)' = Holding(k) \cup {Thread(c)}
  BY <1>3, <1>5, <1>6, <1>7, <1>8, <1>9
<1>12. pc[c] \notin HoldingPC(k) => Holding(k) \subseteq Holding(k)'
  BY <1>3, <1>5, <1>6, <1>7, <1>8, <1>9
<1> QED
  BY <1>10, <1>11, <1>12

\* A step within Dump or before it, that clears no count.
LEMMA QuietStep ==
    ASSUME TypeOK, TypeOK', NEW c \in Context, NEW l \in PC, Goto(c, l),
           NEW k \in Kinds, CountIsHeld(k), UNCHANGED count,
           \/ Kind(c) # k \/ l \in HoldingPC(k) \/ pc[c] \notin HoldingPC(k)
    PROVE  CountIsHeld(k)'
<1>1. Holding(k) \subseteq Holding(k)'
  BY HoldingStep
<1>2. count'[k] <= count[k]
  BY DEF TypeOK
<1> QED
  BY <1>1, <1>2, StillHeld

\* Above the threshold every record is held: preserved by every step.
LEMMA BoundStep == TypeOK /\ TypeOK' /\ BoundInv /\ [Next]_vars => BoundInv'
<1> SUFFICES ASSUME TypeOK, TypeOK', BoundInv, [Next]_vars, NEW k \in Kinds, Guarded(k)
             PROVE  CountIsHeld(k)'
  BY DEF BoundInv, Guarded
<1>0. CountIsHeld(k)
  BY DEF BoundInv
<1>1. ASSUME NEW c \in Context, NEW p \in PathsOf[Thread(c)], Call(c, p) PROVE CountIsHeld(k)'
  BY <1>0, <1>1, QuietStep DEF Call, PC, HoldingPC
<1>2. ASSUME NEW c \in Context, Query(c) \/ Load(c) \/ Store(c) PROVE CountIsHeld(k)'
  BY <1>0, <1>2, QuietStep DEF Query, Load, Store, PC, HoldingPC
<1>3. ASSUME NEW c \in Context, Reserve(c) PROVE CountIsHeld(k)'
  <2>1. CASE Kind(c) = k
    <3>1. pc[c] = "reserve" /\ Goto(c, "path") /\ count' = [count EXCEPT ![k] = @ + 1]
      BY <1>3, <2>1 DEF Reserve
    <3>2. Holding(k)' = Holding(k) \cup {Thread(c)}
      BY <2>1, <3>1, HoldingStep DEF PC, HoldingPC
    <3>3. Thread(c) \notin Holding(k)
      BY <2>1, <3>1, ContextType DEF Holding, HoldingPC
    <3>4. Cardinality(Holding(k)') = Cardinality(Holding(k)) + 1 /\ Cardinality(Holding(k)) \in Nat
      BY <3>2, <3>3, HoldingType, FS_AddElement
    <3>5. count'[k] = count[k] + 1 /\ count[k] \in Nat
      BY <3>1 DEF TypeOK
    <3> HIDE DEF Holding
    <3> QED
      BY <1>0, <3>4, <3>5, SpaceAssumption DEF CountIsHeld
  <2>2. CASE Kind(c) # k
    <3>1. Goto(c, "path") /\ count'[k] = count[k] /\ count[k] \in Nat
      BY <1>3, <2>2, ContextType DEF Reserve, TypeOK
    <3>2. Holding(k)' = Holding(k)
      BY <2>2, <3>1, HoldingStep DEF PC
    <3> QED
      BY <1>0, <3>1, <3>2, StillHeld
  <2> QED
    BY <2>1, <2>2
<1>4. ASSUME NEW c \in Context, Write(c) PROVE CountIsHeld(k)'
  <2>1. \E l \in {"value", "tid", "check"} : Goto(c, l)
    BY <1>4 DEF Write
  <2> QED
    BY <1>0, <1>4, <2>1, QuietStep DEF Write, PC, HoldingPC
<1>5. ASSUME NEW c \in Context, Check(c) PROVE CountIsHeld(k)'
  <2>1. CASE Full(Kind(c)) \/ Kind(c) # k
    <3>1. \E l \in {"open", "idle"} : Goto(c, l) /\ (Kind(c) = k => l = "open")
      BY <1>5, <2>1 DEF Check
    <3> QED
      BY <1>0, <1>5, <3>1, QuietStep DEF Check, PC, HoldingPC
  <2>2. CASE ~Full(Kind(c)) /\ Kind(c) = k
    BY <1>5, <2>2, SpaceAssumption, HeldBelowThreshold, SMTT(20) DEF Check, Full, TypeOK
  <2> QED
    BY <2>1, <2>2
<1>6. ASSUME NEW c \in Context, Open(c) PROVE CountIsHeld(k)'
  <2>1. \E l \in {"print_v", "clear_failed"} : Goto(c, l) /\ (k = "e" => l = "print_v")
    BY <1>6 DEF Open, Guarded
  <2> QED
    BY <1>0, <1>6, <2>1, QuietStep DEF Open, PC, HoldingPC, Kinds
<1>7. ASSUME NEW c \in Context, NEW h \in Kinds, PrintRecord(c, h) PROVE CountIsHeld(k)'
  <2>1. CASE UNCHANGED pc
    <3>1. Holding(k)' = Holding(k) /\ count'[k] <= count[k]
      BY <1>7, <2>1 DEF PrintRecord, Holding, HoldingPC, TypeOK
    <3> QED
      BY <1>0, <3>1, StillHeld
  <2>2. CASE Goto(c, Clearing(h))
    BY <1>0, <1>7, <2>2, QuietStep DEF PrintRecord, Clearing, Printing, PC, HoldingPC, Kinds
  <2> QED
    BY <1>7, <2>1, <2>2 DEF PrintRecord
<1>8. ASSUME NEW c \in Context, Clear(c) \/ Reset(c) PROVE CountIsHeld(k)'
  <2>1. ASSUME NEW l \in PC, Goto(c, l), NEW h \in Kinds, count' = [count EXCEPT ![h] = 0],
               h # k => (l \in HoldingPC(k) \/ pc[c] \notin HoldingPC(k))
        PROVE  CountIsHeld(k)'
    <3>1. CASE h = k
      <4>1. count'[k] = 0
        BY <2>1, <3>1 DEF TypeOK
      <4>2. 0 < Space[k] - Slack
        BY SpaceAssumption
      <4> QED
        BY <4>1, <4>2, HeldBelowThreshold
    <3>2. CASE h # k
      <4>1. Holding(k) \subseteq Holding(k)'
        BY <2>1, <3>2, HoldingStep
      <4>2. count'[k] <= count[k]
        BY <2>1, <3>2 DEF TypeOK
      <4> QED
        BY <1>0, <4>1, <4>2, StillHeld
    <3> QED
      BY <3>1, <3>2
  <2>2. CASE Clear(c)
    <3>1. CASE pc[c] = "clear_v"
      BY <2>1, <2>2, <3>1 DEF Clear, PC, HoldingPC, Kinds
    <3>2. CASE pc[c] = "clear_e"
      BY <2>1, <2>2, <3>2 DEF Clear, PC, HoldingPC, Kinds
    <3>3. CASE pc[c] = "clear_failed"
      BY <2>1, <2>2, <3>3 DEF Clear, PC, HoldingPC, Kinds
    <3> QED
      BY <2>2, <3>1, <3>2, <3>3 DEF Clear
  <2>3. CASE Reset(c)
    <3>1. CASE pc[c] = "reset_v"
      BY <2>1, <2>3, <3>1 DEF Reset, PC, HoldingPC, Kinds
    <3>2. CASE pc[c] = "reset_e"
      BY <2>1, <2>3, <3>2 DEF Reset, PC, HoldingPC, Kinds
    <3>3. CASE pc[c] = "reset_failed"
      BY <2>1, <2>3, <3>3 DEF Reset, PC, HoldingPC, Kinds
    <3> QED
      BY <2>3, <3>1, <3>2, <3>3 DEF Reset
  <2> QED
    BY <1>8, <2>2, <2>3
<1>9. CASE Fini
  <2>1. Wrapper(Main) \in Context /\ Goto(Wrapper(Main), "open")
    BY <1>9, ThreadAssumption DEF Fini, Context, Wrapper, Kinds
  <2> QED
    BY <1>0, <1>9, <2>1, QuietStep DEF Fini, PC, HoldingPC
<1>10. CASE UNCHANGED vars
  <2>1. Holding(k)' = Holding(k) /\ count'[k] <= count[k]
    BY <1>10 DEF vars, Holding, HoldingPC, TypeOK
  <2> QED
    BY <1>0, <2>1, StillHeld
<1> QED
  BY <1>1, <1>2, <1>3, <1>4, <1>5, <1>6, <1>7, <1>8, <1>9, <1>10 DEF Next, Step, Terminated

\* At first the buffers are empty.
LEMMA InitBound == Init => BoundInv
<1> SUFFICES ASSUME Init, NEW k \in Kinds PROVE CountIsHeld(k)
  BY DEF BoundInv
<1>1. count[k] = 0 /\ Cardinality(Holding(k)) \in Nat
  BY HoldingType DEF Init
<1> QED
  BY <1>1, SpaceAssumption DEF CountIsHeld

\* VertexCountIsHeld: whatever the threads, RecordVertexData runs at most as far
\* past its threshold (perf_data.cpp, 305) as threads are between reserving a
\* slot and resetting the count, also when the file cannot be opened.
THEOREM VertexCountBounded == Spec => []VertexCountIsHeld
<1>1. BoundInv => VertexCountIsHeld
  BY DEF BoundInv, Guarded, VertexCountIsHeld, Kinds
<1>2. Init => TypeOK /\ BoundInv
  BY InitType, InitBound
<1>3. (TypeOK /\ BoundInv) /\ [Next]_vars => (TypeOK /\ BoundInv)'
  BY StepType, BoundStep
<1> QED
  BY <1>1, <1>2, <1>3, PTL DEF Spec

-------------------------------------------------------------------------------
(* The indices that are written.                                               *)

\* A context about to reserve is not a holder, so a slot is left for it.
LEMMA RoomLeft ==
    ASSUME TypeOK, NEW k \in Kinds, CountIsHeld(k), Cardinality(Threads) <= Slack + 1,
           NEW t \in Threads, pc[<<t, k>>] \notin HoldingPC(k)
    PROVE  count[k] < Space[k]
<1>1. Holding(k) \subseteq Threads \ {t}
  BY DEF Holding
<1>2. IsFiniteSet(Threads \ {t}) /\ Cardinality(Threads \ {t}) = Cardinality(Threads) - 1
  BY ThreadAssumption, FS_RemoveElement
<1>3. Cardinality(Holding(k)) <= Cardinality(Threads) - 1
  BY <1>1, <1>2, FS_Subset
<1>4. Cardinality(Holding(k)) \in Nat /\ Cardinality(Threads) \in Nat
  BY HoldingType, ThreadAssumption, FS_CardinalityType
<1>5. count[k] \in Nat
  BY DEF TypeOK
<1> QED
  BY <1>3, <1>4, <1>5, SpaceAssumption DEF CountIsHeld

WritingPC == {"path", "value", "tid", "load", "store"}

\* A step that leaves idx alone and brings no context to a write.
LEMMA SameIndices ==
    ASSUME TypeOK, NEW c \in Context, NEW l \in PC, Goto(c, l), UNCHANGED idx,
           l \in WritingPC => pc[c] \in WritingPC, NEW k \in Kinds, InBoundsOf(k)
    PROVE  InBoundsOf(k)'
<1> SUFFICES ASSUME NEW t \in Threads, pc'[<<t, k>>] \in WritingPC
             PROVE  idx'[<<t, k>>] < Space[k]
  BY DEF InBoundsOf, WritingPC
<1>1. <<t, k>> \in Context
  BY DEF Context
<1>2. pc[<<t, k>>] \in WritingPC
  BY <1>1 DEF Goto, TypeOK
<1> QED
  BY <1>2 DEF InBoundsOf, WritingPC

\* A step that gives a context an index of a recorded or a free slot.
LEMMA NewIndex ==
    ASSUME TypeOK, NEW c \in Context, NEW l \in PC, Goto(c, l), NEW i \in Nat,
           idx' = [idx EXCEPT ![c] = i], i < Space[Kind(c)],
           NEW k \in Kinds, InBoundsOf(k)
    PROVE  InBoundsOf(k)'
<1> SUFFICES ASSUME NEW t \in Threads, pc'[<<t, k>>] \in WritingPC
             PROVE  idx'[<<t, k>>] < Space[k]
  BY DEF InBoundsOf, WritingPC
<1>1. <<t, k>> \in Context
  BY DEF Context
<1>2. CASE c = <<t, k>>
  BY <1>1, <1>2 DEF TypeOK, Kind
<1>3. CASE c # <<t, k>>
  BY <1>1, <1>3 DEF Goto, TypeOK, InBoundsOf, WritingPC
<1> QED
  BY <1>2, <1>3

\* A step that gives an index to a context of the other kind.
LEMMA IndexOfOtherKind ==
    ASSUME TypeOK, NEW c \in Context, NEW l \in PC, Goto(c, l), NEW i \in Nat,
           idx' = [idx EXCEPT ![c] = i], NEW k \in Kinds, Kind(c) # k, InBoundsOf(k)
    PROVE  InBoundsOf(k)'
<1> SUFFICES ASSUME NEW t \in Threads, pc'[<<t, k>>] \in WritingPC
             PROVE  idx'[<<t, k>>] < Space[k]
  BY DEF InBoundsOf, WritingPC
<1>1. <<t, k>> \in Context /\ c # <<t, k>>
  BY DEF Context, Kind
<1> QED
  BY <1>1 DEF Goto, TypeOK, InBoundsOf, WritingPC

\* Every index a context of a guarded kind gets is within its buffer.
LEMMA InBoundsStep ==
    ASSUME TypeOK, BoundInv, Cardinality(Threads) <= Slack + 1, InBounds, [Next]_vars
    PROVE  InBounds'
<1> SUFFICES ASSUME NEW k \in Kinds, Guarded(k) PROVE InBoundsOf(k)'
  BY DEF InBounds, Guarded
<1>0. InBoundsOf(k) /\ CountIsHeld(k) /\ CountIsHeld("v")
  BY DEF InBounds, BoundInv, Guarded, Kinds
<1>1. ASSUME NEW c \in Context, NEW p \in PathsOf[Thread(c)], Call(c, p) PROVE InBoundsOf(k)'
  BY <1>0, <1>1, SameIndices DEF Call, PC, WritingPC
<1>2. ASSUME NEW c \in Context, Query(c) PROVE InBoundsOf(k)'
  <2>1. CASE Goto(c, "reserve") /\ UNCHANGED idx
    BY <1>0, <2>1, SameIndices DEF PC, WritingPC
  <2>2. CASE Goto(c, "load") /\ \E i \in Matches(c) : idx' = [idx EXCEPT ![c] = i]
    <3>1. PICK i \in Matches(c) : idx' = [idx EXCEPT ![c] = i]
      BY <2>2
    <3>2. i \in Nat /\ i < count["v"] /\ count["v"] \in Nat
      BY <3>1 DEF Matches, TypeOK, Kinds
    <3>3. pc[c] = "query" /\ Thread(c) \in Threads /\ c = <<Thread(c), Kind(c)>>
      BY <1>2, ContextType DEF Query
    <3>4. Kind(c) = "v" /\ "v" \in Kinds
      BY <1>2 DEF Query, Kinds
    <3>5. count["v"] < Space["v"]
      BY <1>0, <3>3, <3>4, RoomLeft DEF HoldingPC
    <3>6. i < Space[Kind(c)]
      BY <3>2, <3>4, <3>5, SpaceAssumption
    <3> QED
      BY <1>0, <2>2, <3>1, <3>2, <3>6, NewIndex DEF PC
  <2> QED
    BY <1>2, <2>1, <2>2 DEF Query
<1>3. ASSUME NEW c \in Context, Load(c) \/ Store(c) PROVE InBoundsOf(k)'
  BY <1>0, <1>3, SameIndices DEF Load, Store, PC, WritingPC
<1>4. ASSUME NEW c \in Context, Reserve(c) PROVE InBoundsOf(k)'
  <2>1. Goto(c, "path") /\ idx' = [idx EXCEPT ![c] = count[Kind(c)]] /\ pc[c] = "reserve"
    BY <1>4 DEF Reserve
  <2>2. Kind(c) \in Kinds /\ Thread(c) \in Threads /\ c = <<Thread(c), Kind(c)>>
    BY ContextType
  <2>3. count[Kind(c)] \in Nat
    BY <2>2 DEF TypeOK
  <2>4. CASE Kind(c) # k
    BY <1>0, <2>1, <2>3, <2>4, IndexOfOtherKind DEF PC
  <2>5. CASE Kind(c) = k
    <3>1. count[Kind(c)] < Space[Kind(c)]
      BY <1>0, <2>1, <2>2, <2>5, RoomLeft DEF HoldingPC
    <3> QED
      BY <1>0, <2>1, <2>3, <3>1, NewIndex DEF PC
  <2> QED
    BY <2>4, <2>5
<1>5. ASSUME NEW c \in Context, Write(c) PROVE InBoundsOf(k)'
  <2>1. \E l \in {"value", "tid", "check"} : Goto(c, l)
    BY <1>5 DEF Write
  <2> QED
    BY <1>0, <1>5, <2>1, SameIndices DEF Write, PC, WritingPC
<1>6. ASSUME NEW c \in Context, Check(c) \/ Open(c) \/ Clear(c) \/ Reset(c) PROVE InBoundsOf(k)'
  <2>1. \E l \in PC \ WritingPC : Goto(c, l)
    BY <1>6 DEF Check, Open, Clear, Reset, PC, WritingPC
  <2>2. UNCHANGED idx
    BY <1>6 DEF Check, Open, Clear, Reset
  <2> QED
    BY <1>0, <2>1, <2>2, SameIndices
<1>7. ASSUME NEW c \in Context, NEW h \in Kinds, PrintRecord(c, h) PROVE InBoundsOf(k)'
  <2>1. CASE UNCHANGED pc
    BY <1>0, <1>7, <2>1 DEF PrintRecord, InBoundsOf
  <2>2. CASE Goto(c, Clearing(h))
    BY <1>0, <1>7, <2>2, SameIndices DEF PrintRecord, Clearing, PC, WritingPC
  <2> QED
    BY <1>7, <2>1, <2>2 DEF PrintRecord
<1>8. CASE Fini
  <2>1. Wrapper(Main) \in Context /\ Goto(Wrapper(Main), "open") /\ UNCHANGED idx
    BY <1>8, ThreadAssumption DEF Fini, Context, Wrapper, Kinds
  <2> QED
    BY <1>0, <2>1, SameIndices DEF PC, WritingPC
<1>9. CASE UNCHANGED vars
  BY <1>0, <1>9 DEF vars, InBoundsOf
<1> QED
  BY <1>1, <1>2, <1>3, <1>4, <1>5, <1>6, <1>7, <1>8, <1>9 DEF Next, Step, Terminated

\* InBounds: with up to Slack + 1 threads (6 in the code) no record is written behind
\* the end of its buffer, but for edge data when the file cannot be opened.  With more
\* threads nothing in the code ensures it.
THEOREM SlackSuffices ==
    ASSUME Cardinality(Threads) <= Slack + 1
    PROVE  Spec => []InBounds
<1>1. Init => TypeOK /\ BoundInv /\ InBounds
  <2>1. Init => InBounds
    BY DEF Init, InBounds, InBoundsOf, Context
  <2> QED
    BY <2>1, InitType, InitBound
<1>2. (TypeOK /\ BoundInv /\ InBounds) /\ [Next]_vars => (TypeOK /\ BoundInv /\ InBounds)'
  BY StepType, BoundStep, InBoundsStep
<1> QED
  BY <1>1, <1>2, PTL DEF Spec
-------------------------------------------------------------------------------
(* While no buffer reaches its threshold, only the destructor dumps            *)

\* The hypotheses.  A program that records less than the buffers hold never passes the
\* threshold; what the Dump of one thread does to the slots of another is a finding.
NoneFull == \A k \in Kinds : ~Full(k)

\* The main thread shares no call path with another: its backtraces end in main, those of
\* a worker in start_routine_wrapper.
MainAlone == \A t \in Threads \ {Main} : PathsOf[t] \cap PathsOf[Main] = {}

\* Where a context is in Dump, and in a record before its check of the threshold.
DumpPC == {"open", "print_v", "clear_v", "reset_v", "print_e", "clear_e", "reset_e",
           "clear_failed", "reset_failed"}
RecordPC == {"query", "load", "store", "reserve", "path", "value", "tid"}

\* The slots that can be found and printed.
Recorded(k) == (0..(count[k] - 1)) \ InFlight(k)
KeyOf(k, i) == <<slot[k][i].path, slot[k][i].tid>>

\* What is in the slot that a context is writing.
Partly(c) == [path |-> IF pc[c] = "path" THEN NoPath ELSE cur[c], tid |-> Main,
              value |-> IF pc[c] = "tid" THEN 1 ELSE 0]

\* Records end before the destructor begins, and only it dumps.
Control(c) ==
    /\ pc[c] \in DumpPC => exited /\ c = Wrapper(Main)
    /\ exited => pc[c] \in DumpPC \cup {"idle"}
    /\ pc[c] \in {"query", "load", "store"} => Kind(c) = "v"
    /\ pc[c] \in RecordPC => cur[c] \in PathsOf[Thread(c)]

\* A context writes a slot that it alone has; it has found its own slot, or there is none.
Writes(c) ==
    /\ Writing(c) => /\ idx[c] \in 0..(count[Kind(c)] - 1)
                     /\ slot[Kind(c)][idx[c]] = Partly(c)
                     /\ \A d \in Context \ {c} : Kind(d) = Kind(c) /\ Writing(d) => idx[d] # idx[c]
    /\ pc[c] \in {"load", "store"} =>
           idx[c] \in Recorded("v") /\ KeyOf("v", idx[c]) = <<cur[c], Thread(c)>>
    /\ pc[c] = "store" => tmp[c] = slot["v"][idx[c]].value
    /\ Kind(c) = "v" /\ (Writing(c) \/ pc[c] = "reserve") =>
           \A i \in Recorded("v") : KeyOf("v", i) # <<cur[c], Thread(c)>>

\* Recorded slots are of a path of their thread and count something; behind them the slots
\* are fresh, and of one path and thread there is one slot with vertex data.
Slots(k) ==
    /\ \A i \in Recorded(k) : slot[k][i].value > 0 /\ slot[k][i].path \in PathsOf[slot[k][i].tid]
    /\ ~exited => \A i \in count[k]..(Space[k] - 1) : slot[k][i] = Blank
OneSlot == \A i, j \in Recorded("v") : KeyOf("v", i) = KeyOf("v", j) => i = j

QInv == (\A c \in Context : Control(c) /\ Writes(c)) /\ (\A k \in Kinds : Slots(k)) /\ OneSlot

\* The destructor prints all of a buffer before it clears it.
Dumping(c) ==
    /\ pc[c] = "clear_v" => pos[c] >= count["v"]
    /\ pc[c] = "clear_e" => pos[c] >= count["e"]
    /\ pc[c] \in {"reset_v", "reset_failed"} => count["v"] = 0
    /\ pc[c] = "reset_e" => count["e"] = 0
DInv == \A c \in Context : Dumping(c)

\* What the handler or the wrapper of a thread is.
LEMMA ContextIs ==
    /\ \A c, d \in Context : Kind(c) = Kind(d) /\ Thread(c) = Thread(d) => c = d
    /\ Wrapper(Main) \in Context /\ Kind(Wrapper(Main)) = "e"
    /\ \A c \in Context : Kind(c) \in {"v", "e"} /\ Thread(c) \in Threads
  BY ThreadAssumption DEF Context, Thread, Kind, Wrapper, Kinds

\* The indices of what is in flight.
LEMMA InFlightIs ==
    ASSUME NEW k \in Kinds, NEW i
    PROVE  /\ i \in InFlight(k) <=> \E c \in Context : Kind(c) = k /\ Writing(c) /\ idx[c] = i
           /\ i \in Recorded(k) <=> i \in 0..(count[k] - 1) /\ i \notin InFlight(k)
  BY DEF InFlight, Recorded

\* Before the threshold, the indices of what is counted are within the buffer.
LEMMA RecordedIs ==
    ASSUME TypeOK, NoneFull, NEW k \in Kinds
    PROVE  /\ count[k] \in Nat /\ Space[k] \in Nat /\ count[k] < Space[k]
           /\ slot[k] \in [0..(Space[k] - 1) -> Slot]
           /\ \A i \in 0..count[k] : At(k, i) = slot[k][i] /\ slot[k][i] \in Slot
           /\ Recorded(k) \subseteq 0..(count[k] - 1)
<1>1. /\ count[k] \in Nat /\ Space[k] \in Nat /\ Slack \in Nat
      /\ slot[k] \in [0..(Space[k] - 1) -> Slot]
  BY SpaceAssumption DEF TypeOK
<1>2. count[k] < Space[k]
  BY <1>1 DEF NoneFull, Full
<1>3. \A i \in 0..count[k] : i \in 0..(Space[k] - 1)
  BY <1>1, <1>2
<1> QED
  BY <1>1, <1>2, <1>3 DEF At, Recorded

\* The other contexts after a step of c: their slots are as they were, and a slot that can
\* be found now is one of thread c.
LEMMA OthersKeep ==
    ASSUME QInv, NEW c \in Context, NEW d \in Context, d # c, UNCHANGED exited,
           pc'[d] = pc[d] /\ idx'[d] = idx[d] /\ cur'[d] = cur[d] /\ tmp'[d] = tmp[d],
           Writing(d) => /\ idx[d] \in 0..(count'[Kind(d)] - 1)
                         /\ slot'[Kind(d)][idx[d]] = slot[Kind(d)][idx[d]]
                         /\ Kind(c) = Kind(d) /\ Writing(c)' => idx'[c] # idx[d],
           \A e \in Context \ {c} :
               Writing(e)' /\ Kind(e) = Kind(d) => Writing(e) /\ idx'[e] = idx[e],
           \A i \in Recorded("v") : i \in Recorded("v")' /\ KeyOf("v", i)' = KeyOf("v", i),
           \A i \in Recorded("v")' :
               i \in Recorded("v") \/ (Kind(c) = "v" /\ KeyOf("v", i)'[2] = Thread(c)),
           pc[d] = "store" => slot'["v"][idx[d]].value = slot["v"][idx[d]].value
    PROVE  Control(d)' /\ Writes(d)'
<1>1. Control(d)'
  BY DEF QInv, Control
<1>2. Writing(d)' => /\ idx'[d] \in 0..(count'[Kind(d)] - 1)
                     /\ slot'[Kind(d)][idx'[d]] = Partly(d)'
                     /\ \A e \in Context \ {d} :
                            Kind(e) = Kind(d) /\ Writing(e)' => idx'[e] # idx'[d]
  <2>1. Writing(d)' <=> Writing(d)
    BY DEF Writing
  <2>2. Writing(d) => slot[Kind(d)][idx[d]] = Partly(d) /\ Partly(d)' = Partly(d)
    BY DEF QInv, Writes, Partly
  <2>3. ASSUME Writing(d), NEW e \in Context \ {d}, Kind(e) = Kind(d), Writing(e)'
        PROVE  idx'[e] # idx'[d]
    <3>1. CASE e = c
      BY <2>3, <3>1
    <3>2. CASE e # c
      BY <2>3, <3>2 DEF QInv, Writes
    <3> QED
      BY <3>1, <3>2
  <2> QED
    BY <2>1, <2>2, <2>3
<1>3. pc'[d] \in {"load", "store"} =>
          idx'[d] \in Recorded("v")' /\ (KeyOf("v", idx[d]) = <<cur[d], Thread(d)>>)'
  <2>1. ASSUME pc[d] \in {"load", "store"}
        PROVE  idx[d] \in Recorded("v") /\ KeyOf("v", idx[d]) = <<cur[d], Thread(d)>>
    BY <2>1 DEF QInv, Writes
  <2>2. PICK i : i = idx[d]
    OBVIOUS
  <2>3. i \in Recorded("v") => KeyOf("v", i)' = KeyOf("v", i)
    OBVIOUS
  <2>4. KeyOf("v", i) = KeyOf("v", idx[d]) /\ KeyOf("v", i)' = KeyOf("v", idx[d])'
    BY <2>2 DEF KeyOf
  <2> QED
    BY <2>1, <2>2, <2>3, <2>4
<1>4. pc'[d] = "store" => tmp'[d] = slot'["v"][idx'[d]].value
  BY DEF QInv, Writes
<1>5. Kind(d) = "v" /\ (Writing(d)' \/ pc'[d] = "reserve") =>
          \A i \in Recorded("v")' : KeyOf("v", i)' # <<cur'[d], Thread(d)>>
  <2>0. SUFFICES ASSUME Kind(d) = "v", Writing(d)' \/ pc'[d] = "reserve", NEW i \in Recorded("v")'
                 PROVE  KeyOf("v", i)' # <<cur'[d], Thread(d)>>
    OBVIOUS
  <2>1. CASE i \in Recorded("v")
    <3>1. KeyOf("v", i) # <<cur[d], Thread(d)>>
      BY <2>0, <2>1 DEF QInv, Writes, Writing
    <3> QED
      BY <2>1, <3>1
  <2>2. CASE i \notin Recorded("v")
    <3>1. Kind(c) = "v" /\ KeyOf("v", i)'[2] = Thread(c)
      BY <2>0, <2>2
    <3>2. Thread(c) # Thread(d)
      BY <2>0, <3>1, ContextIs
    <3> QED
      BY <3>1, <3>2
  <2> QED
    BY <2>1, <2>2
<1>6. Writes(d)'
  BY <1>2, <1>3, <1>4, <1>5 DEF Writes
<1> QED
  BY <1>1, <1>6

\* A step of the destructor's dump.
LEMMA DumpStep ==
    ASSUME TypeOK, QInv, NEW c \in Context, pc[c] \in DumpPC, UNCHANGED <<slot, exited>>,
           pc' = pc \/ \E l \in DumpPC \cup {"idle"} : Goto(c, l),
           \A k \in Kinds : count'[k] \in {0, count[k]}
    PROVE  QInv' /\ exited /\ c = Wrapper(Main)
<1>1. exited /\ c = Wrapper(Main) /\ \A d \in Context : pc[d] \in DumpPC \cup {"idle"}
  BY DEF QInv, Control
<1>2. \A d \in Context : pc'[d] \in DumpPC \cup {"idle"} /\ (d # c => pc'[d] = pc[d])
  BY <1>1 DEF TypeOK, Goto
<1>3. \A d \in Context : ~Writing(d) /\ ~Writing(d)' /\ pc'[d] \notin RecordPC
  BY <1>1, <1>2 DEF Writing, DumpPC, RecordPC
<1>4. \A d \in Context : Control(d)'
  BY <1>1, <1>2, <1>3 DEF QInv, Control, RecordPC
<1>5. \A d \in Context : Writes(d)'
  BY <1>3 DEF Writes, RecordPC
<1>6. \A k \in Kinds : InFlight(k) = {} /\ InFlight(k)' = {}
  BY <1>3 DEF InFlight
<1>7. \A k \in Kinds : \A i \in Recorded(k)' : i \in Recorded(k)
  <2>1. \A k \in Kinds : count[k] \in Nat
    BY DEF TypeOK
  <2> QED
    BY <1>6, <2>1 DEF Recorded
<1>8. \A k \in Kinds : Slots(k)'
  BY <1>1, <1>7 DEF QInv, Slots
<1>9. OneSlot'
  BY <1>7 DEF QInv, OneSlot, KeyOf, Kinds
<1> QED
  BY <1>1, <1>4, <1>5, <1>8, <1>9 DEF QInv

\* The destructor begins when all are idle.
LEMMA FiniStep == ASSUME TypeOK, QInv, Fini PROVE QInv'
<1>1. \A d \in Context : pc[d] = "idle" /\ (d # Wrapper(Main) => pc'[d] = "idle")
  BY ContextIs DEF Fini, AllIdle, Goto, TypeOK
<1>2. pc'[Wrapper(Main)] = "open"
  BY ContextIs DEF Fini, Goto, TypeOK
<1>3. \A d \in Context : ~Writing(d) /\ ~Writing(d)' /\ pc'[d] \notin RecordPC
  BY <1>1, <1>2 DEF Writing, RecordPC
<1>4. \A d \in Context : Control(d)'
  BY <1>1, <1>2, <1>3 DEF Control, RecordPC, DumpPC, Fini
<1>5. \A d \in Context : Writes(d)'
  BY <1>3 DEF Writes, RecordPC
<1>6. \A k \in Kinds : InFlight(k) = {} /\ InFlight(k)' = {}
  BY <1>3 DEF InFlight
<1>7. \A k \in Kinds : Recorded(k)' = Recorded(k)
  BY <1>6 DEF Recorded, Fini
<1>8. \A k \in Kinds : Slots(k)'
  BY <1>7 DEF QInv, Slots, Fini
<1>9. OneSlot'
  BY <1>7 DEF QInv, OneSlot, KeyOf, Kinds, Fini
<1> QED
  BY <1>4, <1>5, <1>8, <1>9 DEF QInv

\* A step of c that neither begins nor ends to write a slot leaves the slots alone, and
\* the others as they are.
LEMMA SameSlots ==
    ASSUME TypeOK, QInv, NEW c \in Context, UNCHANGED <<slot, count, exited>>,
           NEW l \in PC, Goto(c, l), ~Writing(c), l \notin {"path", "value", "tid"},
           \A d \in Context \ {c} : idx'[d] = idx[d] /\ cur'[d] = cur[d] /\ tmp'[d] = tmp[d],
           Control(c)', Recorded("v")' = Recorded("v") => Writes(c)'
    PROVE  QInv' /\ \A k \in Kinds : InFlight(k)' = InFlight(k) /\ Recorded(k)' = Recorded(k)
<1>1. pc'[c] = l /\ \A d \in Context \ {c} : pc'[d] = pc[d]
  BY DEF Goto, TypeOK
<1>2. ~Writing(c)' /\ \A d \in Context \ {c} : (Writing(d)' <=> Writing(d))
  BY <1>1 DEF Writing
<1>3. \A k \in Kinds : \A i : i \in InFlight(k)' <=> i \in InFlight(k)
  BY <1>2 DEF InFlight
<1>4. \A k \in Kinds : InFlight(k)' = InFlight(k)
  BY <1>3
<1>5. \A k \in Kinds : Recorded(k)' = Recorded(k)
  BY <1>4 DEF Recorded
<1>6. "v" \in Kinds
  BY DEF Kinds
<1>7. \A d \in Context \ {c} : Control(d)' /\ Writes(d)'
  <2>1. SUFFICES ASSUME NEW d \in Context, d # c PROVE Control(d)' /\ Writes(d)'
    OBVIOUS
  <2>2. \A i \in Recorded("v") : i \in Recorded("v")' /\ KeyOf("v", i)' = KeyOf("v", i)
    BY <1>5, <1>6 DEF KeyOf
  <2>3. Writing(d) => idx[d] \in 0..(count'[Kind(d)] - 1)
    BY DEF QInv, Writes
  <2> QED
    BY <1>1, <1>2, <1>5, <1>6, <2>1, <2>2, <2>3, OthersKeep
<1>8. \A k \in Kinds : Slots(k)'
  BY <1>5 DEF QInv, Slots
<1>9. OneSlot'
  BY <1>5, <1>6 DEF QInv, OneSlot, KeyOf
<1> QED
  BY <1>4, <1>5, <1>6, <1>7, <1>8, <1>9 DEF QInv

\* A context that has begun a record goes on before the destructor begins.
LEMMA LiveIs ==
    ASSUME TypeOK, QInv, NEW c \in Context, pc[c] \in RecordPC \cup {"check"}
    PROVE  ~exited /\ (pc[c] \in RecordPC => cur[c] \in PathsOf[Thread(c)])
  BY DEF QInv, Control, DumpPC, RecordPC

\* A record is begun.
LEMMA CallStep ==
    ASSUME TypeOK, QInv, NEW c \in Context, NEW p \in PathsOf[Thread(c)], Call(c, p)
    PROVE  QInv' /\ \A k \in Kinds : InFlight(k)' = InFlight(k) /\ Recorded(k)' = Recorded(k)
<1>1. PICK l \in {"query", "reserve"} : Goto(c, l) /\ (l = "query" <=> Kind(c) = "v")
  BY DEF Call
<1>2. /\ UNCHANGED <<slot, count, exited, idx, tmp>> /\ ~exited /\ pc[c] = "idle"
      /\ pc'[c] = l /\ cur'[c] = p /\ \A d \in Context \ {c} : cur'[d] = cur[d]
  BY <1>1 DEF Call, Goto, TypeOK
<1>3. Control(c)' /\ Writes(c)'
  BY <1>1, <1>2 DEF Control, Writes, Writing, DumpPC
<1> QED
  BY <1>1, <1>2, <1>3, SameSlots DEF PC, Writing

\* The search finds no slot that is still being written: its thread is not set yet.
LEMMA MatchesRecorded ==
    ASSUME TypeOK, QInv, NoneFull, MainAlone, NEW c \in Context, pc[c] = "query"
    PROVE  Matches(c) = {i \in Recorded("v") : KeyOf("v", i) = <<cur[c], Thread(c)>>}
<1>1. /\ Kind(c) = "v" /\ Thread(c) \in Threads /\ cur[c] \in PathsOf[Thread(c)]
      /\ PathsOf[Thread(c)] \subseteq Paths /\ "v" \in Kinds
  BY ContextIs, ThreadAssumption DEF QInv, Control, RecordPC, Kinds
<1>2. \A i \in 0..(count["v"] - 1) : At("v", i) = slot["v"][i]
  BY <1>1, RecordedIs
<1>3. ASSUME NEW i \in 0..(count["v"] - 1), KeyOf("v", i) = <<cur[c], Thread(c)>>
      PROVE  i \notin InFlight("v")
  <2>1. SUFFICES ASSUME i \in InFlight("v") PROVE FALSE
    OBVIOUS
  <2>2. PICK d \in Context : Kind(d) = "v" /\ Writing(d) /\ idx[d] = i
    BY <1>1, <2>1, InFlightIs
  <2>3. slot["v"][i] = Partly(d)
    BY <2>2 DEF QInv, Writes
  <2>4. Thread(c) = Main /\ pc[d] # "path" /\ cur[d] = cur[c]
    BY <1>1, <1>3, <2>3, ThreadAssumption DEF KeyOf, Partly
  <2>5. Thread(d) \in Threads /\ Thread(d) # Main
    BY <1>1, <2>2, <2>4, ContextIs DEF Writing
  <2>6. cur[d] \in PathsOf[Thread(d)]
    BY <2>2 DEF QInv, Control, Writing, RecordPC
  <2> QED
    BY <1>1, <2>4, <2>5, <2>6 DEF MainAlone
<1> QED
  BY <1>1, <1>2, <1>3 DEF Matches, Recorded, KeyOf

\* The search of a handler.
LEMMA QueryStep ==
    ASSUME TypeOK, QInv, NoneFull, MainAlone, NEW c \in Context, Query(c)
    PROVE  QInv' /\ \A k \in Kinds : InFlight(k)' = InFlight(k) /\ Recorded(k)' = Recorded(k)
<1>1. /\ ~exited /\ pc[c] = "query" /\ Kind(c) = "v" /\ cur[c] \in PathsOf[Thread(c)]
      /\ UNCHANGED <<slot, count, cur, tmp, exited>>
  BY LiveIs DEF Query, RecordPC
<1>2. \A i : i \in Matches(c) <=> i \in Recorded("v") /\ KeyOf("v", i) = <<cur[c], Thread(c)>>
  BY <1>1, MatchesRecorded
<1>3. CASE \E i \in Matches(c) : idx' = [idx EXCEPT ![c] = i] /\ Goto(c, "load")
  <2>1. PICK i \in Matches(c) : idx' = [idx EXCEPT ![c] = i] /\ Goto(c, "load")
    BY <1>3
  <2>2. idx'[c] = i /\ pc'[c] = "load" /\ \A d \in Context \ {c} : idx'[d] = idx[d]
    BY <2>1 DEF Goto, TypeOK
  <2>3. KeyOf("v", idx[c])' = KeyOf("v", i)
    BY <1>1, <2>2 DEF KeyOf
  <2>4. Control(c)'
    BY <1>1, <2>2 DEF Control, DumpPC
  <2>5. Recorded("v")' = Recorded("v") => Writes(c)'
    BY <1>1, <1>2, <2>2, <2>3 DEF Writes, Writing
  <2> QED
    BY <1>1, <2>1, <2>2, <2>4, <2>5, SameSlots DEF PC, Writing
<1>4. CASE Matches(c) = {} /\ Goto(c, "reserve") /\ UNCHANGED idx
  <2>1. pc'[c] = "reserve"
    BY <1>4 DEF Goto, TypeOK
  <2>2. Control(c)'
    BY <1>1, <2>1 DEF Control, DumpPC
  <2>3. \A i \in Recorded("v") : KeyOf("v", i)' # <<cur'[c], Thread(c)>>
    BY <1>1, <1>2, <1>4 DEF KeyOf
  <2>4. Recorded("v")' = Recorded("v") => Writes(c)'
    BY <2>1, <2>3 DEF Writes, Writing
  <2> QED
    BY <1>1, <1>4, <2>2, <2>4, SameSlots DEF PC, Writing
<1> QED
  BY <1>3, <1>4 DEF Query

\* The value of a slot is read.
LEMMA LoadStep ==
    ASSUME TypeOK, QInv, NoneFull, NEW c \in Context, Load(c)
    PROVE  QInv' /\ \A k \in Kinds : InFlight(k)' = InFlight(k) /\ Recorded(k)' = Recorded(k)
<1>1. /\ ~exited /\ pc[c] = "load" /\ UNCHANGED <<slot, count, cur, idx, exited>>
      /\ Kind(c) = "v" /\ cur[c] \in PathsOf[Thread(c)] /\ Goto(c, "store")
  BY LiveIs DEF Load, RecordPC, QInv, Control
<1>2. idx[c] \in Recorded("v") /\ KeyOf("v", idx[c]) = <<cur[c], Thread(c)>>
  BY <1>1 DEF QInv, Writes
<1>3. At("v", idx[c]) = slot["v"][idx[c]]
  BY <1>2, RecordedIs DEF Kinds
<1>4. /\ pc'[c] = "store" /\ tmp'[c] = slot["v"][idx[c]].value
      /\ \A d \in Context \ {c} : tmp'[d] = tmp[d]
  BY <1>1, <1>3 DEF Load, Goto, TypeOK
<1>5. Control(c)'
  BY <1>1, <1>4 DEF Control, DumpPC
<1>6. Recorded("v")' = Recorded("v") => Writes(c)'
  BY <1>1, <1>2, <1>4 DEF Writes, Writing, KeyOf
<1> QED
  BY <1>1, <1>4, <1>5, <1>6, SameSlots DEF PC, Writing

\* No buffer is full, so no context begins to dump.
LEMMA CheckStep ==
    ASSUME TypeOK, QInv, NoneFull, NEW c \in Context, Check(c)
    PROVE  QInv' /\ \A k \in Kinds : InFlight(k)' = InFlight(k) /\ Recorded(k)' = Recorded(k)
<1>1. /\ ~exited /\ pc[c] = "check" /\ UNCHANGED <<slot, count, cur, idx, tmp, exited>>
      /\ Goto(c, "idle")
  BY LiveIs, ContextType DEF Check, NoneFull
<1>2. pc'[c] = "idle"
  BY <1>1 DEF Goto, TypeOK
<1>3. Control(c)' /\ Writes(c)'
  BY <1>1, <1>2 DEF Control, Writes, Writing, DumpPC, RecordPC
<1> QED
  BY <1>1, <1>3, SameSlots DEF PC, Writing

\* What an assignment to a slot of the buffer leaves.
LEMMA AssignIs ==
    ASSUME TypeOK, NEW k \in Kinds, NEW i \in 0..(Space[k] - 1), NEW s, Assign(k, i, s)
    PROVE  /\ slot'[k][i] = s
           /\ \A j \in 0..(Space[k] - 1) : j # i => slot'[k][j] = slot[k][j]
           /\ \A l \in Kinds : l # k => slot'[l] = slot[l]
<1>1. i \in DOMAIN slot[k] /\ DOMAIN slot = Kinds /\ slot[k] \in [0..(Space[k] - 1) -> Slot]
  BY DEF TypeOK
<1>2. slot' = [slot EXCEPT ![k][i] = s]
  BY <1>1 DEF Assign
<1> QED
  BY <1>1, <1>2

\* A step of c that leaves the counts alone and keeps the same slots in flight.
LEMMA SameRecorded ==
    ASSUME UNCHANGED count,
           \A d \in Context : (Writing(d)' <=> Writing(d)) /\ (Writing(d) => idx'[d] = idx[d])
    PROVE  \A k \in Kinds : InFlight(k)' = InFlight(k) /\ Recorded(k)' = Recorded(k)
<1>1. \A k \in Kinds : \A i : i \in InFlight(k)' <=> i \in InFlight(k)
  BY DEF InFlight
<1>2. \A k \in Kinds : InFlight(k)' = InFlight(k)
  BY <1>1
<1> QED
  BY <1>2 DEF Recorded

\* One is added to the slot of the thread and path.
LEMMA StoreStep ==
    ASSUME TypeOK, QInv, NoneFull, NEW c \in Context, Store(c)
    PROVE  /\ QInv' /\ \A k \in Kinds : InFlight(k)' = InFlight(k) /\ Recorded(k)' = Recorded(k)
           /\ \E i \in Recorded("v") :
                 /\ KeyOf("v", i) = <<cur[c], Thread(c)>>
                 /\ slot'["v"][i] = [slot["v"][i] EXCEPT !.value = @ + 1]
                 /\ \A j \in Recorded("v") : j # i => slot'["v"][j] = slot["v"][j]
                 /\ \A k \in Kinds : k # "v" => slot'[k] = slot[k]
<1>1. /\ ~exited /\ pc[c] = "store" /\ UNCHANGED <<count, cur, idx, tmp, exited>>
      /\ Kind(c) = "v" /\ cur[c] \in PathsOf[Thread(c)] /\ Goto(c, "check") /\ "v" \in Kinds
  BY LiveIs DEF Store, RecordPC, QInv, Control, Kinds
<1>2. PICK i : i = idx[c]
  OBVIOUS
<1>3. i \in Recorded("v") /\ KeyOf("v", i) = <<cur[c], Thread(c)>> /\ tmp[c] = slot["v"][i].value
  BY <1>1, <1>2 DEF QInv, Writes
<1>4. /\ i \in 0..(count["v"] - 1) /\ i \in 0..(Space["v"] - 1) /\ At("v", i) = slot["v"][i]
      /\ slot["v"][i] \in Slot
  BY <1>1, <1>3, RecordedIs
<1> DEFINE s == [slot["v"][i] EXCEPT !.value = @ + 1]
<1>5. Assign("v", i, s)
  BY <1>1, <1>2, <1>3, <1>4 DEF Store, Slot
<1>6. /\ slot'["v"][i] = s
      /\ \A j \in 0..(Space["v"] - 1) : j # i => slot'["v"][j] = slot["v"][j]
      /\ \A k \in Kinds : k # "v" => slot'[k] = slot[k]
  <2> HIDE DEF s
  <2> QED
    BY <1>1, <1>4, <1>5, AssignIs
<1>7. s.path = slot["v"][i].path /\ s.tid = slot["v"][i].tid /\ s.value = slot["v"][i].value + 1
  BY <1>4 DEF Slot
<1>8. pc'[c] = "check" /\ \A d \in Context \ {c} : pc'[d] = pc[d]
  BY <1>1 DEF Goto, TypeOK
<1>9. \A d \in Context : Writing(d)' <=> Writing(d)
  BY <1>1, <1>8 DEF Writing
<1>10. \A k \in Kinds : InFlight(k)' = InFlight(k) /\ Recorded(k)' = Recorded(k)
  BY <1>1, <1>9, SameRecorded
<1>11. /\ count["v"] \in Nat /\ Space["v"] \in Nat /\ count["v"] < Space["v"]
       /\ Recorded("v") \subseteq 0..(count["v"] - 1)
  BY <1>1, RecordedIs
<1>12. \A j \in Recorded("v") : j # i => slot'["v"][j] = slot["v"][j]
  BY <1>6, <1>11
<1> HIDE DEF s
<1>13. \A j \in Recorded("v") : KeyOf("v", j)' = KeyOf("v", j)
  BY <1>6, <1>7, <1>12 DEF KeyOf
<1>14. ASSUME NEW d \in Context, d # c PROVE Control(d)' /\ Writes(d)'
  <2>1. Writing(d) => /\ idx[d] \in 0..(count'[Kind(d)] - 1)
                      /\ slot'[Kind(d)][idx[d]] = slot[Kind(d)][idx[d]]
    <3>1. SUFFICES ASSUME Writing(d) PROVE slot'[Kind(d)][idx[d]] = slot[Kind(d)][idx[d]]
                                           /\ idx[d] \in 0..(count'[Kind(d)] - 1)
      OBVIOUS
    <3>2. idx[d] \in 0..(count[Kind(d)] - 1) /\ Kind(d) \in Kinds
      BY <3>1, ContextType DEF QInv, Writes
    <3>3. CASE Kind(d) = "v"
      <4>1. idx[d] \in InFlight("v")
        BY <1>1, <3>1, <3>3, InFlightIs
      <4>2. idx[d] # i
        BY <1>3, <4>1 DEF Recorded
      <4> QED
        BY <1>1, <1>6, <1>11, <3>2, <3>3, <4>2
    <3>4. CASE Kind(d) # "v"
      BY <1>1, <1>6, <3>2, <3>4
    <3> QED
      BY <3>3, <3>4
  <2>2. pc[d] = "store" => slot'["v"][idx[d]].value = slot["v"][idx[d]].value
    <3>1. SUFFICES ASSUME pc[d] = "store" PROVE slot'["v"][idx[d]].value = slot["v"][idx[d]].value
      OBVIOUS
    <3>2. idx[d] \in Recorded("v") /\ KeyOf("v", idx[d]) = <<cur[d], Thread(d)>> /\ Kind(d) = "v"
      BY <3>1 DEF QInv, Writes, Control
    <3>3. Thread(d) # Thread(c)
      BY <1>1, <1>14, <3>2, ContextIs
    <3>4. idx[d] # i
      BY <1>3, <3>2, <3>3
    <3> QED
      BY <1>12, <3>2, <3>4
  <2>3. ~Writing(c)' /\ \A e \in Context \ {c} : Writing(e)' => Writing(e) /\ idx'[e] = idx[e]
    BY <1>1, <1>8, <1>9 DEF Writing
  <2> QED
    BY <1>1, <1>8, <1>10, <1>13, <1>14, <2>1, <2>2, <2>3, OthersKeep
<1>15. Control(c)' /\ Writes(c)'
  BY <1>1, <1>8 DEF Control, Writes, Writing, DumpPC, RecordPC
<1>16. ASSUME NEW k \in Kinds PROVE Slots(k)'
  <2>1. CASE k # "v"
    BY <1>1, <1>6, <1>10, <2>1 DEF QInv, Slots
  <2>2. CASE k = "v"
    <3>1. \A j \in count["v"]..(Space["v"] - 1) : slot'["v"][j] = slot["v"][j]
      BY <1>4, <1>6, <1>11
    <3>2. \A j \in Recorded("v") : slot'["v"][j].path = slot["v"][j].path
                                   /\ slot'["v"][j].tid = slot["v"][j].tid
      BY <1>6, <1>7, <1>12
    <3>3. \A j \in Recorded("v") : slot'["v"][j].value > 0
      <4>1. slot["v"][i].value > 0 /\ slot["v"][i].value \in Nat
        BY <1>1, <1>3, <1>4 DEF QInv, Slots, Slot
      <4> QED
        BY <1>1, <1>6, <1>7, <1>12, <4>1 DEF QInv, Slots
    <3> QED
      BY <1>1, <1>10, <2>2, <3>1, <3>2, <3>3 DEF QInv, Slots
  <2> QED
    BY <2>1, <2>2
<1>17. OneSlot'
  BY <1>1, <1>10, <1>13 DEF QInv, OneSlot
<1>18. QInv'
  BY <1>14, <1>15, <1>16, <1>17 DEF QInv
<1> USE DEF s
<1> QED
  BY <1>3, <1>6, <1>10, <1>12, <1>18

\* A fresh slot is taken.
LEMMA ReserveStep ==
    ASSUME TypeOK, QInv, NoneFull, NEW c \in Context, Reserve(c)
    PROVE  QInv' /\ \A k \in Kinds : Recorded(k)' = Recorded(k)
<1> DEFINE k == Kind(c)
           n == count[k]
<1>1. /\ ~exited /\ pc[c] = "reserve" /\ UNCHANGED <<slot, cur, tmp, exited>>
      /\ cur[c] \in PathsOf[Thread(c)] /\ Goto(c, "path") /\ k \in Kinds
      /\ count' = [count EXCEPT ![k] = @ + 1] /\ idx' = [idx EXCEPT ![c] = n]
  BY LiveIs, ContextType DEF Reserve, RecordPC
<1>2. /\ n \in Nat /\ Space[k] \in Nat /\ n < Space[k] /\ count'[k] = n + 1
      /\ \A l \in Kinds : l # k => count'[l] = count[l]
      /\ \A l \in Kinds : count[l] \in Nat /\ count'[l] \in Nat /\ count[l] <= count'[l]
  BY <1>1, RecordedIs, SMTT(20) DEF TypeOK
<1>3. pc'[c] = "path" /\ idx'[c] = n /\ \A d \in Context \ {c} : pc'[d] = pc[d] /\ idx'[d] = idx[d]
  BY <1>1 DEF Goto, TypeOK
<1>4. Writing(c)' /\ ~Writing(c) /\ \A d \in Context \ {c} : Writing(d)' <=> Writing(d)
  BY <1>1, <1>3 DEF Writing
<1>5. \A d \in Context : Writing(d) => idx[d] \in 0..(count[Kind(d)] - 1)
  BY DEF QInv, Writes
<1>6. slot[k][n] = Blank /\ Partly(c)' = Blank
  <2>1. n \in count[k]..(Space[k] - 1)
    BY <1>2
  <2> QED
    BY <1>1, <1>3, <2>1 DEF QInv, Slots, Partly, Blank
<1> HIDE DEF k
<1>7. ASSUME NEW l \in Kinds PROVE Recorded(l)' = Recorded(l)
  <2>1. CASE l # k
    <3>1. \A i : i \in InFlight(l)' <=> i \in InFlight(l)
      BY <1>3, <1>4, <2>1 DEF InFlight, k
    <3>2. InFlight(l)' = InFlight(l)
      BY <3>1
    <3> QED
      BY <1>2, <2>1, <3>2 DEF Recorded
  <2>2. CASE l = k
    <3>1. \A i : i \in InFlight(l)' <=> i \in InFlight(l) \/ i = n
      BY <1>3, <1>4, <2>2 DEF InFlight, k
    <3>2. 0..(count'[l] - 1) = (0..(count[l] - 1)) \cup {n}
      BY <1>2, <2>2
    <3>3. n \notin 0..(count[l] - 1)
      BY <1>2, <2>2
    <3> QED
      BY <3>1, <3>2, <3>3 DEF Recorded
  <2> QED
    BY <2>1, <2>2
<1>8. "v" \in Kinds /\ \A l \in Kinds : slot'[l] = slot[l]
  BY <1>1 DEF Kinds
<1>9. \A i \in Recorded("v") : KeyOf("v", i)' = KeyOf("v", i)
  BY <1>8 DEF KeyOf
<1>10. ASSUME NEW d \in Context, d # c PROVE Control(d)' /\ Writes(d)'
  <2>1. Writing(d) => /\ idx[d] \in 0..(count'[Kind(d)] - 1)
                      /\ Kind(c) = Kind(d) /\ Writing(c)' => idx'[c] # idx[d]
    <3>1. SUFFICES ASSUME Writing(d)
                   PROVE  /\ idx[d] \in 0..(count'[Kind(d)] - 1)
                          /\ Kind(c) = Kind(d) => n # idx[d]
      BY <1>3
    <3>2. idx[d] \in 0..(count[Kind(d)] - 1) /\ Kind(d) \in Kinds
      BY <1>5, <3>1, ContextType
    <3> QED
      BY <1>2, <3>2 DEF k
  <2>2. \A e \in Context \ {c} : Writing(e)' => Writing(e) /\ idx'[e] = idx[e]
    BY <1>3, <1>4
  <2> QED
    BY <1>1, <1>3, <1>7, <1>8, <1>9, <1>10, <2>1, <2>2, OthersKeep
<1>11. Control(c)'
  BY <1>1, <1>3 DEF Control, DumpPC
<1>12. Writes(c)'
  <2>1. idx'[c] \in 0..(count'[k] - 1) /\ slot'[k][idx'[c]] = Partly(c)'
    BY <1>1, <1>2, <1>3, <1>6
  <2>2. \A d \in Context \ {c} : Kind(d) = k /\ Writing(d)' => idx'[d] # idx'[c]
    <3>1. SUFFICES ASSUME NEW d \in Context \ {c}, Kind(d) = k, Writing(d) PROVE idx[d] # n
      BY <1>3, <1>4
    <3>2. idx[d] \in 0..(n - 1)
      BY <1>5, <3>1
    <3> QED
      BY <1>2, <3>2
  <2>3. Kind(c) = "v" => \A i \in Recorded("v")' : KeyOf("v", i)' # <<cur'[c], Thread(c)>>
    BY <1>1, <1>7, <1>8, <1>9 DEF QInv, Writes
  <2> QED
    BY <1>3, <1>4, <2>1, <2>2, <2>3 DEF Writes, k
<1>13. ASSUME NEW l \in Kinds PROVE Slots(l)'
  <2>1. \A i \in count'[l]..(Space[l] - 1) : i \in count[l]..(Space[l] - 1)
    BY <1>2, SpaceAssumption
  <2> QED
    BY <1>1, <1>7, <2>1 DEF QInv, Slots
<1>14. OneSlot'
  BY <1>7, <1>8, <1>9 DEF QInv, OneSlot
<1> QED
  BY <1>7, <1>10, <1>11, <1>12, <1>13, <1>14 DEF QInv

\* A field of a slot that is in flight is written: the others see nothing of it.
LEMMA WriteIs ==
    ASSUME TypeOK, QInv, NoneFull, NEW c \in Context, Write(c)
    PROVE  /\ ~exited /\ cur[c] \in PathsOf[Thread(c)] /\ Writing(c)
           /\ UNCHANGED <<count, cur, idx, tmp, exited>>
           /\ \A d \in Context \ {c} : pc'[d] = pc[d]
           /\ idx[c] \in (0..(count[Kind(c)] - 1)) \ Recorded(Kind(c))
           /\ \A j \in 0..(Space[Kind(c)] - 1) :
                  j # idx[c] => slot'[Kind(c)][j] = slot[Kind(c)][j]
           /\ \A l \in Kinds : l # Kind(c) => slot'[l] = slot[l]
           /\ \/ Writing(c)' /\ slot'[Kind(c)][idx[c]] = Partly(c)'
              \/ /\ pc[c] = "tid" /\ pc'[c] = "check"
                 /\ slot'[Kind(c)][idx[c]] = [path |-> cur[c], tid |-> Thread(c), value |-> 1]
<1> DEFINE k == Kind(c)
           n == idx[c]
<1>1. /\ Writing(c) /\ UNCHANGED <<count, cur, idx, tmp, exited>> /\ k \in Kinds
      /\ \E l \in {"value", "tid", "check"} : Goto(c, l)
  BY ContextType DEF Write, Writing
<1>2. ~exited /\ cur[c] \in PathsOf[Thread(c)]
  BY <1>1, LiveIs DEF RecordPC, Writing
<1>3. n \in 0..(count[k] - 1) /\ slot[k][n] = Partly(c)
  BY <1>1 DEF QInv, Writes
<1>4. n \notin Recorded(k)
  BY <1>1, InFlightIs
<1>5. count[k] \in Nat /\ Space[k] \in Nat /\ count[k] < Space[k]
  BY <1>1, RecordedIs
<1>6. n \in 0..(Space[k] - 1) /\ n \in 0..count[k]
  BY <1>3, <1>5
<1>7. At(k, n) = Partly(c)
  BY <1>1, <1>3, <1>6, RecordedIs
<1>8. \A d \in Context \ {c} : pc'[d] = pc[d]
  BY <1>1 DEF Goto, TypeOK
<1>9. PICK s : /\ Assign(k, n, s)
               /\ \/ Writing(c)' /\ s = Partly(c)'
                  \/ /\ pc[c] = "tid" /\ pc'[c] = "check"
                     /\ s = [path |-> cur[c], tid |-> Thread(c), value |-> 1]
  <2>1. CASE pc[c] = "path"
    <3>1. pc'[c] = "value" /\ Assign(k, n, [Partly(c) EXCEPT !.path = cur[c]])
      BY <1>7, <2>1 DEF Write, Goto, TypeOK
    <3>2. [Partly(c) EXCEPT !.path = cur[c]] = Partly(c)' /\ Writing(c)'
      BY <1>1, <2>1, <3>1 DEF Partly, Writing
    <3> QED
      BY <3>1, <3>2
  <2>2. CASE pc[c] = "value"
    <3>1. pc'[c] = "tid" /\ Assign(k, n, [Partly(c) EXCEPT !.value = 1])
      BY <1>7, <2>2 DEF Write, Goto, TypeOK
    <3>2. [Partly(c) EXCEPT !.value = 1] = Partly(c)' /\ Writing(c)'
      BY <1>1, <2>2, <3>1 DEF Partly, Writing
    <3> QED
      BY <3>1, <3>2
  <2>3. CASE pc[c] = "tid"
    <3>1. pc'[c] = "check" /\ Assign(k, n, [Partly(c) EXCEPT !.tid = Thread(c)])
      BY <1>7, <2>3 DEF Write, Goto, TypeOK
    <3>2. [Partly(c) EXCEPT !.tid = Thread(c)]
              = [path |-> cur[c], tid |-> Thread(c), value |-> 1]
      BY <2>3 DEF Partly
    <3> QED
      BY <2>3, <3>1, <3>2
  <2> QED
    BY <1>1, <2>1, <2>2, <2>3 DEF Writing
<1> HIDE DEF k, n
<1>10. /\ slot'[k][n] = s
       /\ \A j \in 0..(Space[k] - 1) : j # n => slot'[k][j] = slot[k][j]
       /\ \A l \in Kinds : l # k => slot'[l] = slot[l]
  BY <1>1, <1>6, <1>9, AssignIs
<1> USE DEF k, n
<1> QED
  BY <1>1, <1>2, <1>3, <1>4, <1>8, <1>9, <1>10

\* A slot in flight is written; with its thread it is recorded.
LEMMA WriteStep ==
    ASSUME TypeOK, QInv, NoneFull, NEW c \in Context, Write(c)
    PROVE  /\ QInv'
           /\ \A l \in Kinds : \A j \in Recorded(l) : slot'[l][j] = slot[l][j]
           /\ \A l \in Kinds : l # Kind(c) => Recorded(l)' = Recorded(l)
           /\ \/ Recorded(Kind(c))' = Recorded(Kind(c)) /\ Writing(c)'
              \/ /\ pc'[c] = "check" /\ idx[c] \notin Recorded(Kind(c))
                 /\ Recorded(Kind(c))' = Recorded(Kind(c)) \cup {idx[c]}
                 /\ slot'[Kind(c)][idx[c]] = [path |-> cur[c], tid |-> Thread(c), value |-> 1]
<1> DEFINE k == Kind(c)
           n == idx[c]
<1>1. /\ ~exited /\ cur[c] \in PathsOf[Thread(c)] /\ Writing(c)
      /\ UNCHANGED <<count, cur, idx, tmp, exited>>
      /\ \A d \in Context \ {c} : pc'[d] = pc[d]
      /\ n \in (0..(count[k] - 1)) \ Recorded(k)
      /\ \A j \in 0..(Space[k] - 1) : j # n => slot'[k][j] = slot[k][j]
      /\ \A l \in Kinds : l # k => slot'[l] = slot[l]
      /\ k \in Kinds /\ "v" \in Kinds
  BY WriteIs, ContextType DEF Kinds
<1>3. \/ Writing(c)' /\ slot'[k][n] = Partly(c)'
      \/ /\ pc[c] = "tid" /\ pc'[c] = "check"
         /\ slot'[k][n] = [path |-> cur[c], tid |-> Thread(c), value |-> 1]
  BY WriteIs
<1>4. \A l \in Kinds : count[l] \in Nat /\ Space[l] \in Nat /\ count[l] < Space[l]
  BY RecordedIs
<1>5. \A d \in Context \ {c} : Writing(d)' <=> Writing(d)
  BY <1>1 DEF Writing
<1>6. \A d \in Context : Writing(d) => /\ idx[d] \in 0..(count[Kind(d)] - 1)
                                       /\ Kind(d) = k /\ d # c => idx[d] # n
  BY <1>1 DEF QInv, Writes
<1>7. ASSUME NEW l \in Kinds, NEW j \in Recorded(l)
      PROVE  slot'[l][j] = slot[l][j] /\ KeyOf(l, j)' = KeyOf(l, j)
  <2>1. j \in 0..(count[l] - 1)
    BY <1>7 DEF Recorded
  <2>2. j \in 0..(Space[l] - 1) /\ (l = k => j # n)
    BY <1>1, <1>4, <1>7, <2>1
  <2>3. slot'[l][j] = slot[l][j]
    BY <1>1, <2>2
  <2> QED
    BY <2>3 DEF KeyOf
<1>8. /\ \A l \in Kinds : l # k => Recorded(l)' = Recorded(l)
      /\ Writing(c)' => Recorded(k)' = Recorded(k)
      /\ ~Writing(c)' => Recorded(k)' = Recorded(k) \cup {n}
  <2> HIDE DEF n
  <2>1. ASSUME NEW l \in Kinds
        PROVE  \A i : i \in InFlight(l)' <=> i \in InFlight(l) /\ (l = k /\ i = n => Writing(c)')
    <3>1. \A i : i \in InFlight(l) <=> \E d \in Context : Kind(d) = l /\ Writing(d) /\ idx[d] = i
      BY InFlightIs
    <3>2. \A i : i \in InFlight(l)' <=> \E d \in Context : Kind(d) = l /\ Writing(d)' /\ idx[d] = i
      BY <1>1 DEF InFlight
    <3> QED
      BY <1>1, <1>5, <1>6, <3>1, <3>2 DEF n
  <2>2. \A l \in Kinds : count'[l] = count[l]
    BY <1>1
  <2>3. n \in InFlight(k) /\ n \in 0..(count[k] - 1)
    BY <1>1, InFlightIs DEF n
  <2> QED
    BY <1>1, <2>1, <2>2, <2>3 DEF Recorded
<1>9. ~Writing(c)' => pc'[c] = "check" /\ (KeyOf(k, n)' = <<cur[c], Thread(c)>>)
  BY <1>1, <1>3 DEF KeyOf
<1>10. ASSUME NEW d \in Context, d # c PROVE Control(d)' /\ Writes(d)'
  <2>1. Writing(d) => /\ idx[d] \in 0..(count'[Kind(d)] - 1)
                      /\ slot'[Kind(d)][idx[d]] = slot[Kind(d)][idx[d]]
                      /\ Kind(c) = Kind(d) /\ Writing(c)' => idx'[c] # idx[d]
    <3>1. SUFFICES ASSUME Writing(d)
                   PROVE  /\ idx[d] \in 0..(count'[Kind(d)] - 1)
                          /\ slot'[Kind(d)][idx[d]] = slot[Kind(d)][idx[d]]
                          /\ Kind(c) = Kind(d) /\ Writing(c)' => idx'[c] # idx[d]
      OBVIOUS
    <3>2. idx[d] \in 0..(count[Kind(d)] - 1) /\ Kind(d) \in Kinds /\ (Kind(d) = k => idx[d] # n)
      BY <1>6, <1>10, <3>1, ContextType
    <3>3. idx[d] \in 0..(Space[Kind(d)] - 1)
      BY <1>4, <3>2
    <3> QED
      BY <1>1, <3>2, <3>3
  <2>2. \A e \in Context \ {c} : Writing(e)' => Writing(e) /\ idx'[e] = idx[e]
    BY <1>1, <1>5
  <2>3. \A i \in Recorded("v") : i \in Recorded("v")' /\ KeyOf("v", i)' = KeyOf("v", i)
    BY <1>1, <1>7, <1>8
  <2>4. \A i \in Recorded("v")' :
            i \in Recorded("v") \/ (Kind(c) = "v" /\ KeyOf("v", i)'[2] = Thread(c))
    <3>1. SUFFICES ASSUME NEW i \in Recorded("v")', i \notin Recorded("v")
                   PROVE  Kind(c) = "v" /\ KeyOf("v", i)'[2] = Thread(c)
      OBVIOUS
    <3>2. k = "v" /\ i = n /\ ~Writing(c)'
      BY <1>1, <1>8, <3>1
    <3> QED
      BY <1>3, <3>2 DEF KeyOf
  <2>5. pc[d] = "store" => slot'["v"][idx[d]].value = slot["v"][idx[d]].value
    <3>1. pc[d] = "store" => idx[d] \in Recorded("v")
      BY DEF QInv, Writes
    <3> QED
      BY <1>1, <1>7, <3>1
  <2> QED
    BY <1>1, <1>10, <2>1, <2>2, <2>3, <2>4, <2>5, OthersKeep
<1>11. Control(c)'
  BY <1>1, <1>3 DEF Control, DumpPC, RecordPC, Writing, QInv
<1>12. Writes(c)'
  <2>1. CASE Writing(c)'
    <3>1. idx'[c] \in 0..(count'[k] - 1) /\ slot'[k][idx'[c]] = Partly(c)'
      BY <1>1, <1>3, <2>1 DEF Writing
    <3>2. \A d \in Context \ {c} : Kind(d) = k /\ Writing(d)' => idx'[d] # idx'[c]
      BY <1>1, <1>5, <1>6
    <3>3. Kind(c) = "v" => \A i \in Recorded("v")' : KeyOf("v", i)' # <<cur'[c], Thread(c)>>
      BY <1>1, <1>7, <1>8, <2>1 DEF QInv, Writes
    <3> QED
      BY <2>1, <3>1, <3>2, <3>3 DEF Writes, Writing
  <2>2. CASE ~Writing(c)'
    BY <1>9, <2>2 DEF Writes, Writing
  <2> QED
    BY <2>1, <2>2
<1>13. ASSUME NEW l \in Kinds PROVE Slots(l)'
  <2>1. \A i \in count[l]..(Space[l] - 1) : slot'[l][i] = slot[l][i]
    <3>1. SUFFICES ASSUME NEW i \in count[l]..(Space[l] - 1) PROVE slot'[l][i] = slot[l][i]
      OBVIOUS
    <3>2. i \in 0..(Space[l] - 1) /\ (l = k => i # n)
      BY <1>1, <1>4, <3>1
    <3> QED
      BY <1>1, <3>2
  <2>2. \A i \in Recorded(l) :
            slot'[l][i].value > 0 /\ slot'[l][i].path \in PathsOf[slot'[l][i].tid]
    BY <1>7 DEF QInv, Slots
  <2>3. \A i \in Recorded(l)' : i \in Recorded(l) \/ (l = k /\ i = n /\ ~Writing(c)')
    BY <1>8
  <2>4. ~Writing(c)' => slot'[k][n].value > 0 /\ slot'[k][n].path \in PathsOf[slot'[k][n].tid]
    BY <1>1, <1>3
  <2>5. ~exited' => \A i \in count'[l]..(Space[l] - 1) : slot'[l][i] = Blank
    BY <1>1, <2>1 DEF QInv, Slots
  <2> QED
    BY <2>2, <2>3, <2>4, <2>5 DEF Slots
<1>14. OneSlot'
  <2>1. \A i \in Recorded("v") : KeyOf("v", i)' = KeyOf("v", i)
    BY <1>1, <1>7
  <2>2. CASE Writing(c)' \/ k # "v"
    BY <1>1, <1>8, <2>1, <2>2 DEF QInv, OneSlot
  <2>3. CASE ~Writing(c)' /\ k = "v"
    <3>1. \A i \in Recorded("v") : KeyOf("v", i) # <<cur[c], Thread(c)>>
      BY <1>1, <2>3 DEF QInv, Writes
    <3>2. PICK i : i = n
      OBVIOUS
    <3>3. KeyOf("v", i)' = <<cur[c], Thread(c)>>
      BY <1>1, <1>9, <2>3, <3>2 DEF KeyOf
    <3>4. Recorded("v")' = Recorded("v") \cup {i}
      BY <1>8, <2>3, <3>2
    <3> QED
      BY <2>1, <3>1, <3>3, <3>4 DEF QInv, OneSlot
  <2> QED
    BY <2>2, <2>3
<1> QED
  BY <1>1, <1>3, <1>7, <1>8, <1>10, <1>11, <1>12, <1>13, <1>14 DEF QInv, Writing

\* No slot is taken at first.
LEMMA InitQ == Init => QInv
<1> SUFFICES ASSUME Init PROVE QInv
  OBVIOUS
<1>1. \A c \in Context : Control(c) /\ Writes(c)
  BY DEF Init, Control, Writes, Writing, DumpPC, RecordPC
<1>2. \A k \in Kinds : Recorded(k) = {}
  BY DEF Init, Recorded
<1>3. \A k \in Kinds : \A i \in 0..(Space[k] - 1) : slot[k][i] = Blank
  BY DEF Init
<1>4. \A k \in Kinds : count[k] = 0
  BY DEF Init
<1>5. \A k \in Kinds : Slots(k)
  BY <1>2, <1>3, <1>4 DEF Slots
<1>6. OneSlot
  BY <1>2 DEF OneSlot, Kinds
<1> QED
  BY <1>1, <1>5, <1>6 DEF QInv

\* Opening, printing, clearing and resetting are steps of the destructor's dump.
LEMMA DumpIs ==
    ASSUME TypeOK, NEW c \in Context,
           Open(c) \/ Clear(c) \/ Reset(c) \/ \E k \in Kinds : PrintRecord(c, k)
    PROVE  /\ pc[c] \in DumpPC /\ UNCHANGED <<slot, exited>>
           /\ pc' = pc \/ \E l \in DumpPC \cup {"idle"} : Goto(c, l)
           /\ \A k \in Kinds : count'[k] \in {0, count[k]}
<1>1. CASE Open(c)
  BY <1>1 DEF Open, DumpPC
<1>2. CASE Clear(c)
  BY <1>2 DEF Clear, DumpPC, TypeOK
<1>3. CASE Reset(c)
  BY <1>3 DEF Reset, DumpPC, TypeOK
<1>4. ASSUME NEW k \in Kinds, PrintRecord(c, k)
      PROVE  /\ pc[c] \in DumpPC /\ UNCHANGED <<slot, exited, count>>
             /\ pc' = pc \/ \E l \in DumpPC \cup {"idle"} : Goto(c, l)
  BY <1>4 DEF PrintRecord, Printing, Clearing, DumpPC, Kinds
<1> QED
  BY <1>1, <1>2, <1>3, <1>4

\* The slots are owned, and one path of one thread has one, after every step.
LEMMA StepQ == TypeOK /\ NoneFull /\ MainAlone /\ QInv /\ [Next]_vars => QInv'
<1> SUFFICES ASSUME TypeOK, NoneFull, MainAlone, QInv, [Next]_vars PROVE QInv'
  OBVIOUS
<1>1. ASSUME NEW c \in Context, NEW p \in PathsOf[Thread(c)], Call(c, p) PROVE QInv'
  BY <1>1, CallStep
<1>2. ASSUME NEW c \in Context, Query(c) PROVE QInv'
  BY <1>2, QueryStep
<1>3. ASSUME NEW c \in Context, Load(c) PROVE QInv'
  BY <1>3, LoadStep
<1>4. ASSUME NEW c \in Context, Store(c) PROVE QInv'
  BY <1>4, StoreStep
<1>5. ASSUME NEW c \in Context, Reserve(c) PROVE QInv'
  BY <1>5, ReserveStep
<1>6. ASSUME NEW c \in Context, Write(c) PROVE QInv'
  BY <1>6, WriteStep
<1>7. ASSUME NEW c \in Context, Check(c) PROVE QInv'
  BY <1>7, CheckStep
<1>8. ASSUME NEW c \in Context,
             Open(c) \/ Clear(c) \/ Reset(c) \/ \E k \in Kinds : PrintRecord(c, k)
      PROVE  QInv'
  BY <1>8, DumpIs, DumpStep
<1>9. CASE Fini
  BY <1>9, FiniStep
<1>10. CASE UNCHANGED vars
  BY <1>10 DEF vars, QInv, Control, Writes, Slots, OneSlot, Writing, Partly,
                 Recorded, InFlight, KeyOf
<1> QED
  BY <1>1, <1>2, <1>3, <1>4, <1>5, <1>6, <1>7, <1>8, <1>9, <1>10 DEF Next, Step, Terminated

\* SlotsAreOwned: while no buffer has reached its threshold, no two threads, and no handler
\* and wrapper, write the same slot, and the slot that is written has been counted.
THEOREM SlotsStayOwned == ASSUME MainAlone PROVE Spec /\ []NoneFull => []SlotsAreOwned
<1>1. QInv /\ TypeOK => SlotsAreOwned
  BY ContextType DEF QInv, Writes, SlotsAreOwned, TypeOK
<1>2. Init => TypeOK /\ QInv
  BY InitType, InitQ
<1>3. (TypeOK /\ QInv) /\ NoneFull /\ [Next]_vars => (TypeOK /\ QInv)'
  BY StepType, StepQ
<1> QED
  BY <1>1, <1>2, <1>3, PTL DEF Spec

\* OneSlotPerKey: while no buffer has reached its threshold, every call path a thread was
\* sampled at has one slot, although it is searched for and taken without a lock.
THEOREM OneSlotEach == ASSUME MainAlone PROVE Spec /\ []NoneFull => []OneSlotPerKey
<1>1. TypeOK /\ NoneFull /\ QInv => OneSlotPerKey
  <2>1. SUFFICES ASSUME TypeOK, NoneFull, QInv PROVE OneSlotPerKey
    OBVIOUS
  <2>2. "v" \in Kinds
    BY DEF Kinds
  <2>3. ASSUME NEW i \in (0..(count["v"] - 1)) \ InFlight("v")
        PROVE  /\ i \in Recorded("v") /\ At("v", i) = slot["v"][i]
               /\ slot["v"][i].path # NoPath
    <3>1. i \in Recorded("v") /\ i \in 0..count["v"]
      BY <2>1, <2>2, <2>3 DEF Recorded, TypeOK
    <3>2. At("v", i) = slot["v"][i] /\ slot["v"][i] \in Slot
      BY <2>1, <2>2, <3>1, RecordedIs
    <3>3. slot["v"][i].path \in PathsOf[slot["v"][i].tid]
      BY <2>1, <2>2, <3>1 DEF QInv, Slots
    <3> QED
      BY <3>1, <3>2, <3>3, ThreadAssumption DEF Slot
  <2> QED
    BY <2>1, <2>3 DEF OneSlotPerKey, QInv, OneSlot, KeyOf
<1>2. Init => TypeOK /\ QInv
  BY InitType, InitQ
<1>3. (TypeOK /\ QInv) /\ NoneFull /\ [Next]_vars => (TypeOK /\ QInv)'
  BY StepType, StepQ
<1> QED
  BY <1>1, <1>2, <1>3, PTL DEF Spec

-------------------------------------------------------------------------------
(* PerfData implements SampleLog                                               *)

\* What is pending of a key: the slots recorded and not printed, and what they count.
Left(k) == Recorded(k) \ AlreadyPrinted(k)
Has(k, i, key) == slot[k][i].tid = key[2] /\ slot[k][i].path = key[3]
Mine(key) == {i \in Left(key[1]) : Has(key[1], i, key)}
Values(key) == [i \in Mine(key) |-> slot[key[1]][i].value]

Good == TypeOK /\ NoneFull /\ QInv

\* The model's sum is one over the slots of the key.
PendingIsSum ==
    \A key \in Key :
        /\ IsFiniteSet(Mine(key))
        /\ \A i \in Mine(key) : Values(key)[i] \in Nat /\ Values(key)[i] > 0
        /\ PendingOf(key) = SumFunctionOnSet(Values(key), Mine(key))
        /\ PendingOf(key) \in Nat

\* As said of PendingIsSum, from the invariant.
LEMMA PendingIs == Good => PendingIsSum
<1> SUFFICES ASSUME Good, NEW key \in Key
             PROVE  /\ IsFiniteSet(Mine(key))
                    /\ \A i \in Mine(key) : Values(key)[i] \in Nat /\ Values(key)[i] > 0
                    /\ PendingOf(key) = SumFunctionOnSet(Values(key), Mine(key))
                    /\ PendingOf(key) \in Nat
  BY DEF PendingIsSum
<1>1. key[1] \in Kinds
  BY DEF Key
<1>2. /\ count[key[1]] \in Nat /\ Left(key[1]) \subseteq 0..(count[key[1]] - 1)
      /\ \A i \in Left(key[1]) : At(key[1], i) = slot[key[1]][i] /\ slot[key[1]][i] \in Slot
  <2>1. \A i \in Left(key[1]) : i \in Recorded(key[1])
    BY DEF Left
  <2>2. /\ count[key[1]] \in Nat /\ Recorded(key[1]) \subseteq 0..(count[key[1]] - 1)
        /\ \A i \in 0..count[key[1]] : At(key[1], i) = slot[key[1]][i] /\ slot[key[1]][i] \in Slot
    BY <1>1, RecordedIs DEF Good
  <2>3. \A i \in 0..(count[key[1]] - 1) : i \in 0..count[key[1]]
    BY <2>2
  <2> QED
    BY <2>1, <2>2, <2>3
<1>3. IsFiniteSet(Mine(key))
  <2>1. IsFiniteSet(0..(count[key[1]] - 1)) /\ Mine(key) \subseteq 0..(count[key[1]] - 1)
    BY <1>2, FS_Interval DEF Mine
  <2> QED
    BY <2>1, FS_Subset
<1>4. \A i \in Mine(key) : Values(key)[i] \in Nat /\ Values(key)[i] > 0
  BY <1>1, <1>2 DEF Mine, Values, Good, QInv, Slots, Left, Slot
<1>5. PendingOf(key) = SumFunctionOnSet(Values(key), Mine(key))
  <2>1. Mine(key) = {i \in Unwritten(key[1]) :
                        At(key[1], i).tid = key[2] /\ At(key[1], i).path = key[3]}
    <3>1. \A i : i \in Unwritten(key[1]) <=> i \in Left(key[1])
      BY DEF Unwritten, Left, Recorded
    <3> QED
      BY <1>2, <3>1 DEF Mine, Has
  <2>2. Values(key) = [i \in Mine(key) |-> At(key[1], i).value]
    BY <1>2 DEF Values, Mine
  <2> QED
    BY <2>1, <2>2 DEF PendingOf
<1>6. PendingOf(key) \in Nat
  BY <1>3, <1>4, <1>5, SumNat
<1> QED
  BY <1>3, <1>4, <1>5, <1>6

\* The same of the next state.
LEMMA PendingIsThen == Good' => PendingIsSum'
  BY PendingIs, PTL

\* One slot x at most is added, is changed or is printed: the sum of a key follows.
LEMMA PendingChange ==
    ASSUME Good, Good', NEW key \in Key, NEW x, Left(key[1])' \ {x} = Left(key[1]) \ {x},
           \A i \in Left(key[1]) \ {x} : slot'[key[1]][i] = slot[key[1]][i]
    PROVE  PendingOf(key)' = PendingOf(key)
               + (IF x \in Left(key[1])' /\ Has(key[1], x, key)' THEN slot'[key[1]][x].value ELSE 0)
               - (IF x \in Left(key[1]) /\ Has(key[1], x, key) THEN slot[key[1]][x].value ELSE 0)
<1>1. /\ IsFiniteSet(Mine(key)) /\ \A i \in Mine(key) : Values(key)[i] \in Nat
      /\ PendingOf(key) = SumFunctionOnSet(Values(key), Mine(key))
  BY PendingIs DEF PendingIsSum
<1>2. /\ IsFiniteSet(Mine(key)') /\ \A i \in Mine(key)' : Values(key)'[i] \in Nat
      /\ PendingOf(key)' = SumFunctionOnSet(Values(key)', Mine(key)')
  BY PendingIsThen DEF PendingIsSum
<1>3. \A i : i \in Mine(key) <=> i \in Left(key[1]) /\ Has(key[1], i, key)
  BY DEF Mine
<1>4. \A i : i \in Mine(key)' <=> i \in Left(key[1])' /\ Has(key[1], i, key)'
  BY DEF Mine
<1>5. \A i \in Left(key[1]) \ {x} : Has(key[1], i, key)' <=> Has(key[1], i, key)
  BY DEF Has
<1>6. Mine(key)' \ {x} = Mine(key) \ {x}
  BY <1>3, <1>4, <1>5
<1>7. /\ \A i \in Mine(key) : Values(key)[i] = slot[key[1]][i].value
      /\ \A i \in Mine(key)' : Values(key)'[i] = slot'[key[1]][i].value
  BY DEF Values
<1>8. \A i \in Mine(key) \ {x} : Values(key)[i] = Values(key)'[i]
  BY <1>3, <1>6, <1>7
<1>9. \A i : /\ i \in Mine(key) => Values(key)[i] \in Int
             /\ i \in Mine(key)' => Values(key)'[i] \in Int
  BY <1>1, <1>2
<1> HIDE DEF Mine, Values
<1>10. PendingOf(key)' = PendingOf(key)
           + (IF x \in Mine(key)' THEN Values(key)'[x] ELSE 0)
           - (IF x \in Mine(key) THEN Values(key)[x] ELSE 0)
  BY <1>1, <1>2, <1>6, <1>8, <1>9, SumChange
<1> QED
  BY <1>3, <1>4, <1>7, <1>10

\* What is pending of a key stays when its slots do.
LEMMA PendingSame ==
    ASSUME Good, Good', NEW key \in Key, Left(key[1])' = Left(key[1]),
           \A i \in Left(key[1]) : slot'[key[1]][i] = slot[key[1]][i]
    PROVE  PendingOf(key)' = PendingOf(key)
<1>1. -1 \notin Left(key[1])
  <2>1. key[1] \in Kinds /\ count[key[1]] \in Nat
    BY DEF Key, Good, TypeOK
  <2> QED
    BY <2>1 DEF Left, Recorded
<1>2. PendingOf(key)' = PendingOf(key) + 0 - 0
  BY <1>1, PendingChange
<1>3. PendingOf(key) \in Nat
  BY PendingIs DEF PendingIsSum
<1> QED
  BY <1>2, <1>3

\* What is left is what is recorded, before the destructor begins, and what it has not
\* printed yet then.
LeftIs ==
    \A k \in Kinds :
        /\ ~exited => Left(k) = Recorded(k)
        /\ exited => Left(k) = {i \in 0..(count[k] - 1) :
                       pc[Wrapper(Main)] \in {Printing(k), Clearing(k)} =>
                           i >= pos[Wrapper(Main)]}

\* Only the destructor prints, when nothing is in flight.
LEMMA LeftFacts == Good => LeftIs
<1> SUFFICES ASSUME Good, NEW k \in Kinds
             PROVE  /\ ~exited => Left(k) = Recorded(k)
                    /\ exited => Left(k) = {i \in 0..(count[k] - 1) :
                       pc[Wrapper(Main)] \in {Printing(k), Clearing(k)} =>
                           i >= pos[Wrapper(Main)]}
  BY DEF LeftIs
<1>1. Printing(k) \in DumpPC /\ Clearing(k) \in DumpPC
  BY DEF Printing, Clearing, DumpPC
<1>2. \A c \in Context : pc[c] \in {Printing(k), Clearing(k)} => exited /\ c = Wrapper(Main)
  BY <1>1 DEF Good, QInv, Control
<1>3. ~exited => Left(k) = Recorded(k)
  BY <1>2 DEF Left, AlreadyPrinted
<1>4. ASSUME exited PROVE Recorded(k) = 0..(count[k] - 1)
  <2>1. \A c \in Context : ~Writing(c)
    BY <1>4 DEF Good, QInv, Control, Writing, DumpPC
  <2> QED
    BY <2>1 DEF Recorded, InFlight
<1>5. count[k] \in Nat /\ pos[Wrapper(Main)] \in Nat /\ Wrapper(Main) \in Context
  BY ContextIs DEF Good, TypeOK
<1>6. \A i : i \in AlreadyPrinted(k) <=> /\ i \in 0..(count[k] - 1)
                                         /\ pc[Wrapper(Main)] \in {Printing(k), Clearing(k)}
                                         /\ i < pos[Wrapper(Main)]
  BY <1>2, <1>5 DEF AlreadyPrinted
<1>7. ASSUME exited
      PROVE  Left(k) = {i \in 0..(count[k] - 1) :
                       pc[Wrapper(Main)] \in {Printing(k), Clearing(k)} =>
                           i >= pos[Wrapper(Main)]}
  <2>1. \A i : i \in Left(k) <=> i \in 0..(count[k] - 1) /\ i \notin AlreadyPrinted(k)
    BY <1>4, <1>7 DEF Left
  <2>2. \A i \in 0..(count[k] - 1) : (i < pos[Wrapper(Main)]) <=> ~ (i >= pos[Wrapper(Main)])
    BY <1>5
  <2> QED
    BY <1>6, <2>1, <2>2
<1> QED
  BY <1>3, <1>7

\* The same of the next state.
LEMMA LeftFactsThen == Good' => LeftIs'
  BY LeftFacts, PTL

\* The log's other variables stay: nobody begins or completes a record, or fails to open.
Quiet == (\A key \in Key : TakenOf(key)' = TakenOf(key)) /\ Failing' = Failing

\* What a step of one context does to the samples being recorded and to the failed opens.
LEMMA OneSteps ==
    ASSUME NEW c \in Context,
           \A d \in Context \ {c} : pc'[d] = pc[d] /\ cur'[d] = cur[d]
    PROVE  /\ \A key \in Key :
                  TakenOf(key)' = IF <<key[2], key[1]>> = c
                                     THEN IF cur'[c] = key[3] /\ pc'[c] \in RecordPC THEN 1 ELSE 0
                                     ELSE TakenOf(key)
           /\ \A key \in Key : <<key[2], key[1]>> = c =>
                  TakenOf(key) = IF cur[c] = key[3] /\ pc[c] \in RecordPC THEN 1 ELSE 0
           /\ Failing' = IF pc'[c] = "clear_failed" THEN Failing \cup {c} ELSE Failing \ {c}
<1>1. \A key \in Key : <<key[2], key[1]>> \in Context
  BY DEF Key, Context
<1>2. ASSUME NEW key \in Key
      PROVE  TakenOf(key)' = IF <<key[2], key[1]>> = c
                                THEN IF cur'[c] = key[3] /\ pc'[c] \in RecordPC THEN 1 ELSE 0
                                ELSE TakenOf(key)
  BY <1>1 DEF TakenOf, RecordPC
<1>3. ASSUME NEW key \in Key, <<key[2], key[1]>> = c
      PROVE  TakenOf(key) = IF cur[c] = key[3] /\ pc[c] \in RecordPC THEN 1 ELSE 0
  BY <1>3 DEF TakenOf, RecordPC
<1>4. Failing' = IF pc'[c] = "clear_failed" THEN Failing \cup {c} ELSE Failing \ {c}
  BY DEF Failing
<1> QED
  BY <1>2, <1>3, <1>4

\* A step inside a record, or outside of all, that is not about a failed open.
LEMMA QuietIs ==
    ASSUME NEW c \in Context,
           \A d \in Context \ {c} : pc'[d] = pc[d] /\ cur'[d] = cur[d],
           cur'[c] = cur[c], pc'[c] \in RecordPC <=> pc[c] \in RecordPC,
           pc'[c] = "clear_failed" <=> pc[c] = "clear_failed"
    PROVE  Quiet
<1>1. ASSUME NEW key \in Key PROVE TakenOf(key)' = TakenOf(key)
  BY <1>1, OneSteps
<1>2. Failing' = Failing
  <2>1. c \in Failing <=> pc[c] = "clear_failed"
    BY DEF Failing
  <2> QED
    BY <2>1, OneSteps
<1> QED
  BY <1>1, <1>2 DEF Quiet

\* When nothing that is pending changes, and the rest stays, the log stutters.
LEMMA LogStutter ==
    ASSUME \A key \in Key : PendingOf(key)' = PendingOf(key), UNCHANGED printed, Quiet
    PROVE  UNCHANGED Log!logvars
  BY DEF Log!logvars, Quiet

\* One more sample of one key is being recorded.
LEMMA LogTake ==
    ASSUME NEW key \in Key, UNCHANGED printed, Failing' = Failing,
           \A any \in Key : PendingOf(any)' = PendingOf(any),
           \A any \in Key : TakenOf(any)' = IF any = key THEN TakenOf(any) + 1 ELSE TakenOf(any)
    PROVE  Log!LogNext
<1>1. Log!Take(key)
  BY DEF Log!Take
<1> QED
  BY <1>1 DEF Log!LogNext

\* One that was being recorded is pending.
LEMMA LogRecord ==
    ASSUME NEW key \in Key, UNCHANGED printed, Failing' = Failing, TakenOf(key) > 0,
           \A any \in Key : TakenOf(any)' = IF any = key THEN TakenOf(any) - 1 ELSE TakenOf(any),
           \A any \in Key :
               PendingOf(any)' = IF any = key THEN PendingOf(any) + 1 ELSE PendingOf(any)
    PROVE  Log!LogNext
<1>1. Log!Record(key)
  BY DEF Log!Record
<1> QED
  BY <1>1 DEF Log!LogNext

\* Less pending of one key, and printed, is an output.
LEMMA LogEmit ==
    ASSUME TypeOK, Quiet, NEW key \in Key, NEW n \in Nat, n \in 1..PendingOf(key),
           printed' = [printed EXCEPT ![key] = @ + n],
           \A any \in Key :
               PendingOf(any)' = IF any = key THEN PendingOf(any) - n ELSE PendingOf(any)
    PROVE  Log!LogNext
<1>1. n = printed'[key] - printed[key] /\ printed[key] \in Nat
  BY DEF TypeOK
<1>2. Log!Emit(key)
  BY <1>1 DEF Log!Emit, Quiet
<1> QED
  BY <1>2 DEF Log!LogNext

\* An open fails.
LEMMA LogFail ==
    ASSUME NEW c \in Context, c \notin Failing, Failing' = Failing \cup {c}, UNCHANGED printed,
           \A key \in Key : PendingOf(key)' = PendingOf(key) /\ TakenOf(key)' = TakenOf(key)
    PROVE  Log!LogNext
<1>1. Log!Fail(c)
  BY DEF Log!Fail
<1> QED
  BY <1>1 DEF Log!LogNext

\* No vertex data pending any more is what follows a failed open.
LEMMA LogForget ==
    ASSUME NEW c \in Context, c \in Failing, Failing' = Failing \ {c}, UNCHANGED printed,
           \A key \in Key : TakenOf(key)' = TakenOf(key),
           \A any \in Key : PendingOf(any)' = IF any[1] = "v" THEN 0 ELSE PendingOf(any)
    PROVE  Log!LogNext
<1>1. Log!Forget(c)
  BY DEF Log!Forget
<1> QED
  BY <1>1 DEF Log!LogNext

\* A step that leaves the slots and what is left of them leaves what is pending.
LEMMA SamePending ==
    ASSUME Good, Good', \A k \in Kinds : Left(k)' = Left(k),
           \A k \in Kinds : \A i \in Left(k) : slot'[k][i] = slot[k][i]
    PROVE  \A key \in Key : PendingOf(key)' = PendingOf(key)
<1>1. \A key \in Key : key[1] \in Kinds
  BY DEF Key
<1> QED
  BY <1>1, PendingSame

\* When the samples being recorded and the failed opens stay too, it is none of the log.
LEMMA SameLog ==
    ASSUME Good, Good', \A k \in Kinds : Left(k)' = Left(k),
           \A k \in Kinds : \A i \in Left(k) : slot'[k][i] = slot[k][i], UNCHANGED printed, Quiet
    PROVE  UNCHANGED Log!logvars
  BY SamePending, LogStutter

\* One more is recorded: it is added to a recorded slot, or in a new one.
LEMMA OneMore ==
    ASSUME Good, Good', NEW c \in Context, NEW k \in Kinds, NEW x, cur[c] \in PathsOf[Thread(c)],
           \A d \in Context \ {c} : pc'[d] = pc[d], UNCHANGED cur, k = Kind(c),
           pc[c] \in RecordPC, pc'[c] = "check",
           UNCHANGED printed, Left(k)' = Left(k) \cup {x},
           \A l \in Kinds \ {k} : Left(l)' = Left(l) /\ slot'[l] = slot[l],
           \A i \in Left(k) \ {x} : slot'[k][i] = slot[k][i],
           slot'[k][x].tid = Thread(c) /\ slot'[k][x].path = cur[c],
           IF x \in Left(k) THEN slot'[k][x] = [slot[k][x] EXCEPT !.value = @ + 1]
                            ELSE slot'[k][x].value = 1
    PROVE  Log!LogNext
<1> DEFINE key == <<k, Thread(c), cur[c]>>
<1>1. key \in Key
  BY ContextType, ThreadAssumption DEF Key
<1>2. \A i : i \in Left(k)' <=> i \in Left(k) \/ i = x
  OBVIOUS
<1>3. Left(k)' \ {x} = Left(k) \ {x} /\ x \in Left(k)'
  BY <1>2
<1>4. \A any \in Key : any = <<any[1], any[2], any[3]>> /\ any[1] \in Kinds
  BY DEF Key
<1>5. x \in Left(k) => slot[k][x] \in Slot
  <2>1. x \in Left(k) => x \in Recorded(k)
    BY DEF Left
  <2>2. Recorded(k) \subseteq 0..(count[k] - 1) /\ count[k] \in Nat
        /\ \A i \in 0..count[k] : slot[k][i] \in Slot
    BY RecordedIs DEF Good
  <2> QED
    BY <2>1, <2>2
<1>6. ASSUME NEW any \in Key
      PROVE  PendingOf(any)' = IF any = key THEN PendingOf(any) + 1 ELSE PendingOf(any)
  <2>0. PendingOf(any) \in Nat
    BY PendingIs DEF Good, PendingIsSum
  <2>1. CASE any[1] # k
    <3>1. PendingOf(any)' = PendingOf(any)
      BY <1>4, <2>1, PendingSame
    <3> QED
      BY <2>1, <3>1
  <2>2. CASE any[1] = k
    <3>1. PendingOf(any)' = PendingOf(any)
              + (IF Has(k, x, any)' THEN slot'[k][x].value ELSE 0)
              - (IF x \in Left(k) /\ Has(k, x, any) THEN slot[k][x].value ELSE 0)
      BY <1>3, <2>2, PendingChange
    <3>2. Has(k, x, any)' <=> any = key
      BY <1>4, <2>2 DEF Has
    <3>3. CASE x \in Left(k)
      <4>1. /\ slot'[k][x].path = slot[k][x].path /\ slot'[k][x].tid = slot[k][x].tid
            /\ slot'[k][x].value = slot[k][x].value + 1 /\ slot[k][x].value \in Nat
        BY <1>5, <3>3 DEF Slot
      <4>2. Has(k, x, any) <=> any = key
        BY <3>2, <4>1 DEF Has
      <4> HIDE DEF key
      <4> QED
        BY <2>0, <3>1, <3>2, <3>3, <4>1, <4>2
    <3>4. CASE x \notin Left(k)
      BY <2>0, <3>1, <3>2, <3>4
    <3> QED
      BY <3>3, <3>4
  <2> QED
    BY <2>1, <2>2
<1>7. c = <<Thread(c), k>> /\ key[1] = k /\ key[2] = Thread(c) /\ key[3] = cur[c]
  BY ContextType
<1>8. TakenOf(key) = 1
  BY <1>1, <1>7, OneSteps
<1>9. ASSUME NEW any \in Key
      PROVE  TakenOf(any)' = IF any = key THEN TakenOf(any) - 1 ELSE TakenOf(any)
  <2>1. /\ <<any[2], any[1]>> # c => TakenOf(any)' = TakenOf(any)
        /\ <<any[2], any[1]>> = c => TakenOf(any)' = 0
        /\ <<any[2], any[1]>> = c => TakenOf(any) = IF cur[c] = any[3] THEN 1 ELSE 0
    BY OneSteps DEF RecordPC
  <2>2. any = key <=> <<any[2], any[1]>> = c /\ cur[c] = any[3]
    BY <1>4, <1>7
  <2> QED
    BY <1>8, <2>1, <2>2
<1>10. Failing' = Failing
  <2>1. c \notin Failing
    BY DEF Failing, RecordPC
  <2> QED
    BY <2>1, OneSteps
<1> HIDE DEF key
<1> QED
  BY <1>1, <1>6, <1>8, <1>9, <1>10, LogRecord

\* Before the destructor begins, a record adds one when it is complete.
LEMMA RecordRefines ==
    ASSUME Good, Good', MainAlone, NEW c \in Context,
           \/ \E p \in PathsOf[Thread(c)] : Call(c, p)
           \/ Query(c) \/ Load(c) \/ Store(c) \/ Reserve(c) \/ Write(c) \/ Check(c)
    PROVE  Log!LogNext \/ UNCHANGED Log!logvars
<1>0. TypeOK /\ QInv /\ NoneFull
  BY DEF Good
<1>1. ~exited /\ UNCHANGED <<exited, printed>>
  BY <1>0, LiveIs DEF Call, Query, Load, Store, Reserve, Write, Check, RecordPC, Writing
<1>2. \A k \in Kinds : Left(k) = Recorded(k) /\ Left(k)' = Recorded(k)'
  BY <1>1, LeftFacts, LeftFactsThen DEF LeftIs
<1>3. ASSUME UNCHANGED <<slot, cur>>, \A k \in Kinds : Recorded(k)' = Recorded(k),
             NEW l \in PC, Goto(c, l), l \in RecordPC <=> pc[c] \in RecordPC,
             l # "clear_failed", pc[c] # "clear_failed"
      PROVE  UNCHANGED Log!logvars
  <2>1. pc'[c] = l /\ \A d \in Context \ {c} : pc'[d] = pc[d]
    BY <1>0, <1>3 DEF Goto, TypeOK
  <2>2. Quiet
    BY <1>3, <2>1, QuietIs
  <2> QED
    BY <1>1, <1>2, <1>3, <2>2, SameLog
<1>4. ASSUME NEW p \in PathsOf[Thread(c)], Call(c, p) PROVE Log!LogNext
  <2> DEFINE key == <<Kind(c), Thread(c), p>>
  <2>1. \A k \in Kinds : Recorded(k)' = Recorded(k)
    BY <1>0, <1>4, CallStep
  <2>2. \A any \in Key : PendingOf(any)' = PendingOf(any)
    BY <1>2, <1>4, <2>1, SamePending DEF Call
  <2>3. /\ pc[c] = "idle" /\ pc'[c] \in {"query", "reserve"} /\ cur'[c] = p
        /\ \A d \in Context \ {c} : pc'[d] = pc[d] /\ cur'[d] = cur[d]
    BY <1>0, <1>4 DEF Call, Goto, TypeOK
  <2>4. /\ key \in Key /\ c = <<Thread(c), Kind(c)>>
        /\ \A any \in Key : any = <<any[1], any[2], any[3]>>
    BY ContextType, ThreadAssumption DEF Key
  <2>5. ASSUME NEW any \in Key
        PROVE  TakenOf(any)' = IF any = key THEN TakenOf(any) + 1 ELSE TakenOf(any)
    <3>1. /\ <<any[2], any[1]>> # c => TakenOf(any)' = TakenOf(any)
          /\ <<any[2], any[1]>> = c => TakenOf(any) = 0
          /\ <<any[2], any[1]>> = c => TakenOf(any)' = IF p = any[3] THEN 1 ELSE 0
      BY <2>3, OneSteps DEF RecordPC
    <3>2. any = key <=> <<any[2], any[1]>> = c /\ p = any[3]
      BY <2>4
    <3> QED
      BY <3>1, <3>2
  <2>6. Failing' = Failing
    <3>1. c \notin Failing
      BY <2>3 DEF Failing
    <3> QED
      BY <2>3, <3>1, OneSteps
  <2> HIDE DEF key
  <2> QED
    BY <1>1, <2>2, <2>4, <2>5, <2>6, LogTake
<1>5. ASSUME Query(c) PROVE UNCHANGED Log!logvars
  <2>1. \A k \in Kinds : Recorded(k)' = Recorded(k)
    BY <1>0, <1>5, QueryStep
  <2> QED
    BY <1>3, <1>5, <2>1 DEF Query, RecordPC, PC
<1>6. ASSUME Load(c) PROVE UNCHANGED Log!logvars
  <2>1. \A k \in Kinds : Recorded(k)' = Recorded(k)
    BY <1>0, <1>6, LoadStep
  <2> QED
    BY <1>3, <1>6, <2>1 DEF Load, RecordPC, PC
<1>7. ASSUME Reserve(c) PROVE UNCHANGED Log!logvars
  <2>1. \A k \in Kinds : Recorded(k)' = Recorded(k)
    BY <1>0, <1>7, ReserveStep
  <2> QED
    BY <1>3, <1>7, <2>1 DEF Reserve, RecordPC, PC
<1>8. ASSUME Check(c) PROVE UNCHANGED Log!logvars
  <2>1. \A k \in Kinds : Recorded(k)' = Recorded(k)
    BY <1>0, <1>8, CheckStep
  <2> QED
    BY <1>3, <1>8, <2>1 DEF Check, RecordPC, PC
<1>9. ASSUME Store(c) PROVE Log!LogNext
  <2>1. "v" \in Kinds /\ cur[c] \in PathsOf[Thread(c)]
    BY <1>0, <1>9, LiveIs DEF Store, RecordPC, Kinds
  <2>2. \A k \in Kinds : Recorded(k)' = Recorded(k)
    BY <1>0, <1>9, StoreStep
  <2>3. PICK i \in Recorded("v") :
            /\ KeyOf("v", i) = <<cur[c], Thread(c)>>
            /\ slot'["v"][i] = [slot["v"][i] EXCEPT !.value = @ + 1]
            /\ \A j \in Recorded("v") : j # i => slot'["v"][j] = slot["v"][j]
            /\ \A k \in Kinds : k # "v" => slot'[k] = slot[k]
    BY <1>0, <1>9, StoreStep
  <2>4. slot["v"][i] \in Slot
    BY <1>0, <2>1, <2>3, RecordedIs
  <2>5. slot'["v"][i].tid = Thread(c) /\ slot'["v"][i].path = cur[c]
    BY <2>3, <2>4 DEF KeyOf, Slot
  <2>6. Left("v")' = Left("v") \cup {i} /\ i \in Left("v")
    BY <1>2, <2>1, <2>2, <2>3
  <2>7. \A l \in Kinds \ {"v"} : Left(l)' = Left(l) /\ slot'[l] = slot[l]
    BY <1>2, <2>2, <2>3
  <2>8. \A j \in Left("v") \ {i} : slot'["v"][j] = slot["v"][j]
    BY <1>2, <2>1, <2>3
  <2>9. /\ pc[c] \in RecordPC /\ Kind(c) = "v" /\ pc'[c] = "check" /\ UNCHANGED cur
        /\ \A d \in Context \ {c} : pc'[d] = pc[d]
    BY <1>0, <1>9 DEF Store, Goto, TypeOK, QInv, Control, RecordPC
  <2> QED
    BY <1>1, <2>1, <2>3, <2>5, <2>6, <2>7, <2>8, <2>9, OneMore
<1>10. ASSUME Write(c) PROVE Log!LogNext \/ UNCHANGED Log!logvars
  <2> DEFINE k == Kind(c)
  <2>0. PICK n : n = idx[c]
    OBVIOUS
  <2>1. /\ \A l \in Kinds : \A j \in Recorded(l) : slot'[l][j] = slot[l][j]
        /\ \A l \in Kinds : l # k => Recorded(l)' = Recorded(l)
        /\ \/ Recorded(k)' = Recorded(k) /\ Writing(c)'
           \/ /\ pc'[c] = "check" /\ n \notin Recorded(k)
              /\ Recorded(k)' = Recorded(k) \cup {n}
              /\ slot'[k][n] = [path |-> cur[c], tid |-> Thread(c), value |-> 1]
    BY <1>0, <1>10, <2>0, WriteStep
  <2>2. /\ k \in Kinds /\ cur[c] \in PathsOf[Thread(c)] /\ Writing(c) /\ UNCHANGED cur
        /\ \A l \in Kinds : l # k => slot'[l] = slot[l]
        /\ \A d \in Context \ {c} : pc'[d] = pc[d]
    BY <1>0, <1>10, WriteIs, ContextType
  <2>3. CASE Recorded(k)' = Recorded(k) /\ Writing(c)'
    <3>1. \A l \in Kinds : Left(l)' = Left(l)
      BY <1>2, <2>1, <2>3
    <3>2. Quiet
      BY <2>2, <2>3, QuietIs DEF Writing, RecordPC
    <3> QED
      BY <1>1, <1>2, <2>1, <3>1, <3>2, SameLog
  <2>4. CASE ~ (Recorded(k)' = Recorded(k) /\ Writing(c)')
    <3>0. k = Kind(c) /\ pc[c] \in RecordPC /\ pc'[c] = "check"
      BY <2>1, <2>2, <2>4 DEF Writing, RecordPC
    <3> HIDE DEF k
    <3>1. /\ n \notin Recorded(k) /\ Recorded(k)' = Recorded(k) \cup {n}
          /\ slot'[k][n].tid = Thread(c) /\ slot'[k][n].path = cur[c] /\ slot'[k][n].value = 1
      BY <2>1, <2>4
    <3>2. Left(k)' = Left(k) \cup {n} /\ n \notin Left(k)
      BY <1>2, <2>2, <3>1
    <3>3. \A l \in Kinds \ {k} : Left(l)' = Left(l) /\ slot'[l] = slot[l]
      BY <1>2, <2>1, <2>2
    <3>4. \A j \in Left(k) \ {n} : slot'[k][j] = slot[k][j]
      BY <1>2, <2>1, <2>2
    <3>5. /\ cur[c] \in PathsOf[Thread(c)] /\ UNCHANGED cur /\ UNCHANGED printed
          /\ k \in Kinds /\ \A d \in Context \ {c} : pc'[d] = pc[d]
      BY <1>1, <2>2
    <3>6. IF n \in Left(k) THEN slot'[k][n] = [slot[k][n] EXCEPT !.value = @ + 1]
                           ELSE slot'[k][n].value = 1
      BY <3>1, <3>2
    <3> QED
      BY <3>0, <3>1, <3>2, <3>3, <3>4, <3>5, <3>6, OneMore
  <2> QED
    BY <2>3, <2>4
<1> QED
  BY <1>4, <1>5, <1>6, <1>7, <1>8, <1>9, <1>10

\* The destructor prints everything before it clears: every step keeps this.
LEMMA DumpingStep ==
    ASSUME Good, Good', DInv, [Next]_vars
    PROVE  DInv'
<1> DEFINE w == Wrapper(Main)
<1>0. TypeOK /\ w \in Context
  BY ContextIs DEF Good
<1>1. \A d \in Context : pc[d] \in DumpPC => exited /\ d = w
  BY DEF Good, QInv, Control
<1>2. \A d \in Context : pc'[d] \in DumpPC => exited' /\ d = w
  BY DEF Good, QInv, Control
<1>3. SUFFICES ASSUME exited' PROVE Dumping(w)'
  BY <1>2, <1>3 DEF DInv, Dumping, DumpPC
<1>4. Dumping(w)
  BY <1>0 DEF DInv
<1>5. ASSUME NEW c \in Context, Open(c) PROVE Dumping(w)'
  BY <1>0, <1>1, <1>5 DEF Open, Goto, TypeOK, Dumping, DumpPC
<1>6. ASSUME NEW c \in Context, Clear(c) PROVE Dumping(w)'
  BY <1>0, <1>1, <1>6 DEF Clear, Goto, TypeOK, Dumping, DumpPC, Kinds
<1>7. ASSUME NEW c \in Context, Reset(c) PROVE Dumping(w)'
  BY <1>0, <1>1, <1>7 DEF Reset, Goto, TypeOK, Dumping, DumpPC, Kinds
<1>8. ASSUME NEW c \in Context, NEW k \in Kinds, PrintRecord(c, k) PROVE Dumping(w)'
  <2>1. pc[c] = Printing(k) /\ c = w /\ UNCHANGED count
    BY <1>1, <1>8 DEF PrintRecord, Printing, DumpPC
  <2>2. CASE UNCHANGED pc
    BY <2>1, <2>2 DEF Dumping, Printing
  <2>3. CASE Goto(c, Clearing(k)) /\ pos[c] >= count[k] /\ UNCHANGED pos
    <3>1. pc'[w] = Clearing(k)
      BY <1>0, <2>1, <2>3 DEF Goto, TypeOK
    <3> QED
      BY <2>1, <2>3, <3>1 DEF Dumping, Clearing, Kinds
  <2> QED
    BY <1>8, <2>2, <2>3 DEF PrintRecord
<1>9. ASSUME NEW c \in Context,
             \/ \E p \in PathsOf[Thread(c)] : Call(c, p)
             \/ Query(c) \/ Load(c) \/ Store(c) \/ Reserve(c) \/ Write(c) \/ Check(c)
      PROVE  Dumping(w)'
  <2>1. ~exited /\ UNCHANGED exited
    BY <1>0, <1>9, LiveIs DEF Good, Call, Query, Load, Store, Reserve, Write, Check,
                                      RecordPC, Writing
  <2> QED
    BY <1>3, <2>1
<1>10. CASE Fini
  BY <1>0, <1>10 DEF Fini, Goto, TypeOK, Dumping
<1>11. CASE UNCHANGED vars
  BY <1>4, <1>11 DEF vars, Dumping
<1> QED
  BY <1>5, <1>6, <1>7, <1>8, <1>9, <1>10, <1>11 DEF Next, Step, Terminated

\* Nothing is printed when the file is opened, or cannot be, or the destructor begins.
LEMMA OpenRefines ==
    ASSUME Good, Good', NEW c \in Context, Open(c) \/ Fini
    PROVE  Log!LogNext \/ UNCHANGED Log!logvars
<1> DEFINE w == Wrapper(Main)
<1>0. TypeOK /\ QInv /\ w \in Context
  BY ContextIs DEF Good
<1>1. UNCHANGED <<slot, count, printed>>
  BY DEF Open, Fini
<1>2. \A k \in Kinds : /\ Printing(k) \in {"print_v", "print_e"}
                       /\ Clearing(k) \in {"clear_v", "clear_e"}
  BY DEF Printing, Clearing
<1>3. ASSUME NEW k \in Kinds PROVE Left(k)' = 0..(count[k] - 1)
  <2>1. exited' /\ count'[k] = count[k] /\ count[k] \in Nat
    BY <1>0, <1>1, DumpIs DEF Fini, QInv, Control, TypeOK
  <2>2. pc'[w] \in {"open", "clear_failed"} \/ (pc'[w] = "print_v" /\ pos'[w] = 0)
    <3>1. Open(c) => c = w
      BY <1>0 DEF Open, QInv, Control, DumpPC
    <3> QED
      BY <1>0, <3>1 DEF Open, Fini, Goto, TypeOK
  <2>3. Left(k)' = {i \in 0..(count'[k] - 1) :
                       pc'[w] \in {Printing(k), Clearing(k)} => i >= pos'[w]}
    BY <2>1, LeftFactsThen DEF LeftIs
  <2> QED
    BY <1>2, <2>1, <2>2, <2>3
<1>4. ASSUME NEW k \in Kinds PROVE Left(k) = 0..(count[k] - 1)
  <2>1. CASE Open(c)
    <3>1. exited /\ c = w /\ pc[w] = "open"
      BY <1>0, <2>1 DEF Open, QInv, Control, DumpPC
    <3> QED
      BY <1>2, <3>1, LeftFacts DEF LeftIs
  <2>2. CASE Fini
    <3>1. ~exited /\ \A d \in Context : ~Writing(d)
      BY <2>2 DEF Fini, AllIdle, Writing
    <3> QED
      BY <3>1, LeftFacts DEF LeftIs, Recorded, InFlight
  <2> QED
    BY <2>1, <2>2
<1>5. PICK d \in Context : /\ pc[d] \in {"open", "idle"} /\ UNCHANGED cur
                           /\ pc'[d] \in {"open", "print_v", "clear_failed"}
                           /\ \A e \in Context \ {d} : pc'[e] = pc[e]
  <2>1. CASE Open(c)
    BY <1>0, <2>1 DEF Open, Goto, TypeOK
  <2>2. CASE Fini
    BY <1>0, <2>2 DEF Fini, AllIdle, Goto, TypeOK
  <2> QED
    BY <2>1, <2>2
<1>6. CASE pc'[d] # "clear_failed"
  <2>1. Quiet
    BY <1>5, <1>6, QuietIs DEF RecordPC
  <2> QED
    BY <1>1, <1>3, <1>4, <2>1, SameLog
<1>7. CASE pc'[d] = "clear_failed"
  <2>1. \A key \in Key : PendingOf(key)' = PendingOf(key)
    BY <1>1, <1>3, <1>4, SamePending
  <2>2. ASSUME NEW key \in Key PROVE TakenOf(key)' = TakenOf(key)
    BY <1>5, <1>7, OneSteps DEF RecordPC
  <2>3. d \notin Failing /\ Failing' = Failing \cup {d}
    BY <1>5, <1>7, OneSteps DEF Failing
  <2> QED
    BY <1>1, <2>1, <2>2, <2>3, LogFail
<1> QED
  BY <1>6, <1>7

\* A slot is printed: it is no longer pending.
LEMMA PrintRefines ==
    ASSUME Good, Good', MainAlone, NEW c \in Context, NEW k \in Kinds, PrintRecord(c, k)
    PROVE  Log!LogNext \/ UNCHANGED Log!logvars
<1> DEFINE w == Wrapper(Main)
<1>0. TypeOK /\ QInv /\ NoneFull /\ w \in Context
  BY ContextIs DEF Good
<1>1. exited /\ c = w /\ pc[w] = Printing(k) /\ UNCHANGED <<slot, count, exited>>
  BY <1>0, DumpIs DEF PrintRecord, QInv, Control
<1>2. pos[w] \in Nat /\ \A l \in Kinds : count[l] \in Nat
  BY <1>0 DEF TypeOK
<1>3. /\ \A l \in Kinds : Left(l) = {i \in 0..(count[l] - 1) :
                                        pc[w] \in {Printing(l), Clearing(l)} => i >= pos[w]}
      /\ \A l \in Kinds : Left(l)' = {i \in 0..(count[l] - 1) :
                                        pc'[w] \in {Printing(l), Clearing(l)} => i >= pos'[w]}
  BY <1>1, LeftFacts, LeftFactsThen DEF LeftIs
<1>4. CASE Goto(c, Clearing(k)) /\ UNCHANGED <<printed, pos>>
  <2>1. pc'[w] = Clearing(k)
    BY <1>0, <1>1, <1>4 DEF Goto, TypeOK
  <2>2. \A l \in Kinds :
            pc'[w] \in {Printing(l), Clearing(l)} <=> pc[w] \in {Printing(l), Clearing(l)}
    BY <1>1, <2>1 DEF Printing, Clearing, Kinds
  <2>3. \A l \in Kinds : Left(l)' = Left(l)
    BY <1>3, <1>4, <2>2
  <2>4. Quiet
    <3>1. UNCHANGED cur /\ \A d \in Context \ {w} : pc'[d] = pc[d]
      BY <1>0, <1>1, <1>4 DEF PrintRecord, Goto, TypeOK
    <3> QED
      BY <1>0, <1>1, <2>1, <3>1, QuietIs DEF RecordPC, Printing, Clearing
  <2> QED
    BY <1>1, <1>4, <2>3, <2>4, SameLog
<1>5. CASE pos[c] < count[k] /\ UNCHANGED pc
  <2>1. PICK x : x = pos[c]
    OBVIOUS
  <2> DEFINE s == slot[k][x]
             key == <<k, s.tid, s.path>>
  <2>2. x \in 0..(count[k] - 1) /\ pos'[w] = x + 1 /\ x \in Nat
    BY <1>0, <1>1, <1>2, <1>5, <2>1 DEF PrintRecord, TypeOK
  <2>3. x \in Left(k) /\ Left(k)' = Left(k) \ {x}
    <3>1. pc[w] \in {Printing(k), Clearing(k)} /\ pc'[w] \in {Printing(k), Clearing(k)}
      BY <1>1, <1>5
    <3>2. \A i \in 0..(count[k] - 1) : i >= x + 1 <=> i >= x /\ i # x
      BY <1>2, <2>2
    <3>3. /\ Left(k) = {i \in 0..(count[k] - 1) : i >= x}
          /\ Left(k)' = {i \in 0..(count[k] - 1) : i >= x + 1}
      BY <1>1, <1>3, <2>1, <2>2, <3>1
    <3> QED
      BY <1>2, <2>2, <3>2, <3>3
  <2>4. \A l \in Kinds \ {k} : Left(l)' = Left(l)
    <3>1. \A l \in Kinds \ {k} : pc[w] \notin {Printing(l), Clearing(l)}
      BY <1>1 DEF Printing, Clearing, Kinds
    <3> QED
      BY <1>3, <1>5, <3>1
  <2>5. At(k, x) = s /\ s \in Slot
    <3>1. x \in 0..count[k]
      BY <1>2, <2>2
    <3> QED
      BY <1>0, <3>1, RecordedIs
  <2>6. s.value > 0 /\ s.path \in PathsOf[s.tid] /\ s.tid \in Threads /\ s.value \in Nat
    <3>1. x \in Recorded(k)
      BY <2>3 DEF Left
    <3> QED
      BY <1>0, <2>5, <3>1 DEF QInv, Slots, Slot
  <2>7. key \in Key
    BY <2>6, ThreadAssumption DEF Key
  <2>8. printed' = [printed EXCEPT ![key] = @ + s.value]
    <3>1. ~ (pos[c] >= count[k])
      BY <1>1, <1>2, <1>5
    <3>2. LET r == At(k, x) IN
          printed' = IF <<k, r.tid, r.path>> \in Key
                        THEN [printed EXCEPT ![<<k, r.tid, r.path>>] = @ + r.value] ELSE printed
      BY <2>1, <3>1 DEF PrintRecord
    <3> QED
      BY <2>5, <2>7, <3>2
  <2>9. \A any \in Key : any = <<any[1], any[2], any[3]>> /\ any[1] \in Kinds
    BY DEF Key
  <2>10. ASSUME NEW any \in Key
         PROVE  /\ PendingOf(any)' = IF any = key THEN PendingOf(any) - s.value ELSE PendingOf(any)
                /\ PendingOf(any) \in Nat /\ PendingOf(any)' \in Nat
    <3>0. PendingOf(any) \in Nat /\ PendingOf(any)' \in Nat
      BY PendingIs, PendingIsThen DEF PendingIsSum
    <3>1. CASE any[1] # k
      <4>1. PendingOf(any)' = PendingOf(any)
        BY <1>1, <2>4, <2>9, <3>1, PendingSame
      <4> QED
        BY <3>0, <3>1, <4>1
    <3>2. CASE any[1] = k
      <4>1. Left(k)' \ {x} = Left(k) \ {x} /\ x \notin Left(k)'
        BY <2>3
      <4>2. PendingOf(any)' = PendingOf(any)
                + 0 - (IF x \in Left(k) /\ Has(k, x, any) THEN s.value ELSE 0)
        BY <1>1, <3>2, <4>1, PendingChange
      <4>3. Has(k, x, any) <=> any = key
        BY <2>9, <3>2 DEF Has
      <4> HIDE DEF s, key
      <4> QED
        BY <2>3, <2>6, <3>0, <4>2, <4>3
    <3> QED
      BY <3>1, <3>2
  <2>11. s.value \in 1..PendingOf(key)
    <3>1. PendingOf(key) - s.value \in Nat /\ PendingOf(key) \in Nat
      BY <2>7, <2>10
    <3> QED
      BY <2>6, <3>1
  <2> HIDE DEF key
  <2>14. Quiet
    BY <1>5, QuietIs DEF PrintRecord
  <2>12. PICK n \in Nat : n = s.value
    BY <2>6
  <2>13. PICK kk \in Key : kk = key
    BY <2>7
  <2> HIDE DEF s
  <2> QED
    BY <1>0, <2>8, <2>10, <2>11, <2>12, <2>13, <2>14, LogEmit
<1> QED
  BY <1>1, <1>4, <1>5 DEF PrintRecord

\* What was printed is cleared; a file that cannot be opened loses the vertex data.
LEMMA ClearRefines ==
    ASSUME Good, Good', DInv, NEW c \in Context, Clear(c) \/ Reset(c)
    PROVE  Log!LogNext \/ UNCHANGED Log!logvars
<1> DEFINE w == Wrapper(Main)
<1>0. TypeOK /\ QInv /\ w \in Context /\ "v" \in Kinds /\ "e" \in Kinds
  BY ContextIs DEF Good, Kinds
<1>1. exited /\ c = w /\ UNCHANGED <<slot, printed, exited>>
  BY <1>0, DumpIs DEF Clear, Reset, QInv, Control
<1>2. pos[w] \in Nat /\ \A l \in Kinds : count[l] \in Nat
  BY <1>0 DEF TypeOK
<1>3. /\ \A l \in Kinds : Left(l) = {i \in 0..(count[l] - 1) :
                                        pc[w] \in {Printing(l), Clearing(l)} => i >= pos[w]}
      /\ \A l \in Kinds : Left(l)' = {i \in 0..(count'[l] - 1) :
                                        pc'[w] \in {Printing(l), Clearing(l)} => i >= pos'[w]}
  BY <1>1, LeftFacts, LeftFactsThen DEF LeftIs
<1>4. \A l \in Kinds : Left(l)' = Left(l) \/ (l = "v" /\ pc[w] = "clear_failed" /\ Left(l)' = {})
  <2>1. Dumping(w)
    BY <1>0 DEF DInv
  <2>2. /\ Left("v") = {i \in 0..(count["v"] - 1) : pc[w] \in {"print_v", "clear_v"} => i >= pos[w]}
        /\ Left("e") = {i \in 0..(count["e"] - 1) : pc[w] \in {"print_e", "clear_e"} => i >= pos[w]}
        /\ Left("v")' = {i \in 0..(count'["v"] - 1) :
                             pc'[w] \in {"print_v", "clear_v"} => i >= pos'[w]}
        /\ Left("e")' = {i \in 0..(count'["e"] - 1) :
                             pc'[w] \in {"print_e", "clear_e"} => i >= pos'[w]}
    BY <1>0, <1>3 DEF Printing, Clearing
  <2>3. CASE Clear(w)
    <3>1. CASE pc[w] = "clear_v"
      <4>1. /\ pc'[w] = "reset_v" /\ count'["v"] = 0 /\ count'["e"] = count["e"]
            /\ pos[w] >= count["v"]
        BY <1>0, <2>1, <2>3, <3>1 DEF Clear, Goto, TypeOK, Dumping
      <4>2. Left("v") = {} /\ Left("v")' = {}
        BY <1>0, <1>2, <2>2, <3>1, <4>1
      <4>3. Left("e")' = Left("e")
        BY <2>2, <3>1, <4>1
      <4> QED
        BY <4>2, <4>3 DEF Kinds
    <3>2. CASE pc[w] = "clear_e"
      <4>1. /\ pc'[w] = "reset_e" /\ count'["e"] = 0 /\ count'["v"] = count["v"]
            /\ pos[w] >= count["e"]
        BY <1>0, <2>1, <2>3, <3>2 DEF Clear, Goto, TypeOK, Dumping
      <4>2. Left("e") = {} /\ Left("e")' = {}
        BY <1>0, <1>2, <2>2, <3>2, <4>1
      <4>3. Left("v")' = Left("v")
        BY <2>2, <3>2, <4>1
      <4> QED
        BY <4>2, <4>3 DEF Kinds
    <3>3. CASE pc[w] = "clear_failed"
      <4>1. pc'[w] = "reset_failed" /\ count'["v"] = 0 /\ count'["e"] = count["e"]
        BY <1>0, <2>3, <3>3 DEF Clear, Goto, TypeOK
      <4>2. Left("v")' = {}
        BY <2>2, <4>1
      <4>3. Left("e")' = Left("e")
        BY <2>2, <3>3, <4>1
      <4> QED
        BY <3>3, <4>2, <4>3 DEF Kinds
    <3> QED
      BY <2>3, <3>1, <3>2, <3>3 DEF Clear
  <2>4. CASE Reset(w)
    <3>1. /\ pc[w] \in {"reset_v", "reset_e", "reset_failed"} /\ count' = count /\ pos'[w] = 0
          /\ pc[w] = "reset_e" => pc'[w] = "idle" /\ count["e"] = 0
          /\ pc[w] = "reset_failed" => pc'[w] = "idle" /\ count["v"] = 0
          /\ pc[w] = "reset_v" => pc'[w] = "print_e" /\ count["v"] = 0
      BY <1>0, <2>1, <2>4 DEF Reset, Goto, TypeOK, Dumping
    <3>2. Left("v") = 0..(count["v"] - 1) /\ Left("e") = 0..(count["e"] - 1)
      BY <2>2, <3>1
    <3>3. Left("v")' = 0..(count["v"] - 1) /\ Left("e")' = 0..(count["e"] - 1)
      <4>1. pc'[w] \in {"idle", "print_e"} /\ count'["v"] = count["v"] /\ count'["e"] = count["e"]
        BY <3>1
      <4>2. Left("v")' = 0..(count["v"] - 1)
        BY <2>2, <4>1
      <4>3. \A i \in 0..(count["e"] - 1) : i >= pos'[w]
        BY <1>0, <1>2, <3>1
      <4> QED
        BY <2>2, <4>1, <4>2, <4>3
    <3> QED
      BY <3>2, <3>3 DEF Kinds
  <2> QED
    BY <1>1, <2>3, <2>4
<1>7. /\ \A d \in Context \ {w} : pc'[d] = pc[d] /\ cur'[d] = cur[d]
      /\ UNCHANGED cur /\ pc[w] \notin RecordPC /\ pc'[w] \notin RecordPC \cup {"clear_failed"}
  BY <1>0, <1>1 DEF Clear, Reset, Goto, TypeOK, RecordPC
<1>5. CASE pc[w] # "clear_failed"
  <2>1. Quiet
    BY <1>0, <1>5, <1>7, QuietIs
  <2>2. \A l \in Kinds : Left(l)' = Left(l)
    BY <1>4, <1>5
  <2> QED
    BY <1>1, <2>1, <2>2, SameLog
<1>6. CASE pc[w] = "clear_failed"
  <2>0. Left("v")' = {} /\ Left("e")' = Left("e")
    <3>1. Left("e")' = Left("e")
      BY <1>0, <1>4
    <3>2. count'["v"] = 0
      BY <1>0, <1>1, <1>6 DEF Clear, Reset, TypeOK
    <3>3. Left("v")' = {}
      BY <1>0, <1>3, <3>2
    <3> QED
      BY <3>1, <3>3
  <2>1. \A any \in Key : any[1] \in {"v", "e"}
    BY DEF Key, Kinds
  <2>2. \A any \in Key : any[1] = "e" => PendingOf(any)' = PendingOf(any)
    BY <1>1, <2>0, PendingSame
  <2>3. ASSUME NEW any \in Key, any[1] = "v" PROVE PendingOf(any)' = 0
    <3>1. Mine(any)' = {}
      BY <2>0, <2>3 DEF Mine
    <3>2. /\ IsFiniteSet(Mine(any)') /\ \A i \in Mine(any)' : Values(any)'[i] \in Int
          /\ PendingOf(any)' = SumFunctionOnSet(Values(any)', Mine(any)')
      BY PendingIsThen DEF PendingIsSum
    <3> QED
      BY <3>1, <3>2, SumIs
  <2>4. ASSUME NEW key \in Key PROVE TakenOf(key)' = TakenOf(key)
    BY <1>0, <1>7, OneSteps
  <2>5. w \in Failing /\ Failing' = Failing \ {w}
    BY <1>0, <1>6, <1>7, OneSteps DEF Failing
  <2> QED
    BY <1>0, <1>1, <2>1, <2>2, <2>3, <2>4, <2>5, LogForget
<1> QED
  BY <1>5, <1>6

\* At first nothing is recorded and nothing was printed.
LEMMA InitRefines == Init => Log!LogInit
<1> SUFFICES ASSUME Init PROVE Log!LogInit
  OBVIOUS
<1>1. \A key \in Key : key[1] \in Kinds /\ count[key[1]] = 0
  BY DEF Key, Init
<1>2. \A key \in Key : PendingOf(key) = 0
  <2>1. SUFFICES ASSUME NEW key \in Key PROVE PendingOf(key) = 0
    OBVIOUS
  <2>2. Unwritten(key[1]) = {}
    BY <1>1 DEF Unwritten
  <2>3. IsFiniteSet({}) /\ \A F : SumFunctionOnSet(F, {}) = 0
    BY FS_EmptySet, SumIs
  <2> QED
    BY <2>2, <2>3 DEF PendingOf
<1>3. \A key \in Key : TakenOf(key) = 0
  <2>1. SUFFICES ASSUME NEW key \in Key PROVE TakenOf(key) = 0
    OBVIOUS
  <2>2. <<key[2], key[1]>> \in Context
    BY DEF Key, Context
  <2>3. pc[<<key[2], key[1]>>] = "idle"
    BY <2>2 DEF Init
  <2> QED
    BY <2>3 DEF TakenOf
<1>4. Failing = {}
  BY DEF Failing, Init
<1> QED
  BY <1>2, <1>3, <1>4 DEF Log!LogInit, Init

\* Every step is one of the log or none.
LEMMA StepRefines ==
    MainAlone /\ Good /\ Good' /\ DInv /\ [Next]_vars => Log!LogNext \/ UNCHANGED Log!logvars
<1> SUFFICES ASSUME MainAlone, Good, Good', DInv, [Next]_vars
             PROVE  Log!LogNext \/ UNCHANGED Log!logvars
  OBVIOUS
<1>1. ASSUME NEW c \in Context, Step(c) PROVE Log!LogNext \/ UNCHANGED Log!logvars
  BY <1>1, RecordRefines, OpenRefines, ClearRefines, PrintRefines DEF Step
<1>2. CASE Fini
  BY <1>2, ContextIs, OpenRefines
<1>3. CASE UNCHANGED vars
  <2>1. \A k \in Kinds : Left(k)' = Left(k)
    BY <1>3 DEF vars, Left, Recorded, InFlight, AlreadyPrinted, Writing
  <2>2. Quiet
    BY <1>3 DEF vars, Quiet, TakenOf, Failing
  <2> QED
    BY <1>3, <2>1, <2>2, SameLog DEF vars
<1> QED
  BY <1>1, <1>2, <1>3 DEF Next, Terminated

\* NoSampleLostOrDoubled: while no buffer has reached its threshold, each call of Record*Data
\* records its sample once for its thread and call path, and the destructor prints it once, or
\* forgets it (of vertex data) when its open failed, whatever the order of the threads' and
\* their handlers' loads, stores and reservations (perf_data.cpp, 197-247 and 291-336).
THEOREM LogImplemented == ASSUME MainAlone PROVE Spec /\ []NoneFull => NoSampleLostOrDoubled
<1>1. Init => TypeOK /\ QInv /\ DInv /\ Log!LogInit
  <2>1. Init => DInv
    BY DEF Init, DInv, Dumping
  <2> QED
    BY <2>1, InitType, InitQ, InitRefines
<1>2. TypeOK /\ QInv /\ NoneFull /\ [Next]_vars => (TypeOK /\ QInv)'
  BY StepType, StepQ
<1>3. Good /\ Good' /\ DInv /\ [Next]_vars => DInv'
  BY DumpingStep
<1>4. Good /\ Good' /\ DInv /\ [Next]_vars => [Log!LogNext]_(Log!logvars)
  BY StepRefines
<1>5. Good <=> TypeOK /\ NoneFull /\ QInv
  BY DEF Good
<1> QED
  BY <1>1, <1>2, <1>3, <1>4, <1>5, PTL DEF Spec, NoSampleLostOrDoubled, Log!LogSpec
===============================================================================
