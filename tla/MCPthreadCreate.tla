---------------------------- MODULE MCPthreadCreate ---------------------------
(* Instances of PthreadCreate for TLC. *)
EXTENDS PthreadCreate, TLC

CONSTANTS m, w1, w2, w3,  \* the main thread and three others
          h1, h2,         \* pthread_t values
          b1, b2          \* argument blocks

Symmetric == Permutations({w1, w2, w3}) \cup Permutations({h1, h2}) \cup Permutations({b1, b2})
===============================================================================
