---------------------------- MODULE MCFunctionGraph ----------------------------
(***************************************************************************)
(* Functions of five blocks: short and long ones, calls of functions of    *)
(* the binary (5 bytes), and calls through a register (2 bytes), with or   *)
(* without instructions in front of them.  A call returns to the block     *)
(* behind it, so that no loop ends with one.                               *)
(***************************************************************************)
EXTENDS FunctionGraph

Kinds == {[len |-> 2, last |-> 2, call |-> FALSE, known |-> FALSE],
          [len |-> 16, last |-> 3, call |-> FALSE, known |-> FALSE],
          [len |-> 5, last |-> 5, call |-> TRUE, known |-> TRUE],
          [len |-> 2, last |-> 2, call |-> TRUE, known |-> FALSE],
          [len |-> 6, last |-> 2, call |-> TRUE, known |-> FALSE]}

LoopOf(p, h, bs) == [parent |-> p, header |-> h, blocks |-> bs]
Forests == {<<>>,
            <<LoopOf(0, 2, 2..4)>>,
            <<LoopOf(0, 1, 1..4), LoopOf(1, 3, 2..3)>>,              \* entered in the middle
            <<LoopOf(0, 3, 3..4), LoopOf(0, 1, 1..2)>>,              \* side by side
            <<LoopOf(0, 1, 1..5), LoopOf(1, 2, 2..5), LoopOf(2, 3, 3..4)>>,
            <<LoopOf(0, 1, 1..5), LoopOf(1, 2, 2..3), LoopOf(1, 4, 4..5)>>,
            <<LoopOf(0, 2, {2, 3, 5})>>,                              \* around a block it leaves to
            <<LoopOf(0, 1, {1, 2, 5}), LoopOf(0, 3, 3..4)>>}         \* woven into each other

Layout(kinds, forest, shared) ==
    LET end[i \in 0..5] == IF i = 0 THEN 100 ELSE end[i - 1] + kinds[i].len
    IN  [blocks |-> [i \in 1..5 |-> [start |-> end[i - 1], last |-> end[i] - kinds[i].last,
                                     end |-> end[i], call |-> kinds[i].call, known |-> kinds[i].known]],
         loops |-> forest, shared |-> shared]

Returns(f) == \A l \in DOMAIN f.loops, b \in 1..5 :
                  b \in f.loops[l].blocks /\ f.blocks[b].call => b + 1 \in f.loops[l].blocks

\* What two functions share is a tail of both, and has the loops it goes into as a whole.
Tails == {{}} \cup {n..5 : n \in 2..5}
EndsWithShared(f) == \A l \in DOMAIN f.loops : f.loops[l].blocks \cap f.shared \in {{}, f.loops[l].blocks}

MCFunctions == {f \in {Layout(k, forest, shared) : k \in [1..5 -> Kinds], forest \in Forests, shared \in Tails} :
                    Returns(f) /\ EndsWithShared(f)}
===============================================================================
