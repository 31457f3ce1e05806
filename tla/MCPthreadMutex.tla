---------------------------- MODULE MCPthreadMutex ----------------------------
(* Instances of PthreadMutex for TLC. *)
EXTENDS PthreadMutex

CONSTANTS m, w1, w2, w3,  \* the main thread and three workers
          k1, k2, k3,     \* kernel thread ids
          l1, l2          \* mutexes

\* w1 and w2 run one after the other with the same kernel id.
MCTidOf  == [t \in Threads |-> CASE t = m -> k1 [] t = w3 -> k3 [] OTHER -> k2]
===============================================================================
