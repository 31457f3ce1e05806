------------------------------ MODULE SampleLog ------------------------------
(***************************************************************************)
(* What PerfData promises to the samplers, with no buffer, slot or thread  *)
(* in sight: every sample that is taken is recorded, one that is recorded  *)
(* is pending until it is written out, and it is written out once.  Key is *)
(* what a record is identified by: its kind ("v" vertex data, "e" edge     *)
(* data), its thread and its call path.  The one loss that is promised is  *)
(* that of a failed open of Dump, which forgets, once, the vertex data it  *)
(* could not write (perf_data.cpp, 197-201).                               *)
(***************************************************************************)
EXTENDS Naturals

CONSTANTS Key,      \* the identities of records
          Volatile, \* the keys a failed open forgets: those of vertex data
          Opener    \* who may open the output

VARIABLES taken,    \* how many samples of each key are being recorded
          pending,  \* how much of each key is recorded and not yet written
          output,   \* how much of each key was ever written out
          failing   \* the openers whose open failed and has still to forget

logvars == <<taken, pending, output, failing>>

LogInit == /\ taken   = [key \in Key |-> 0]
           /\ pending = [key \in Key |-> 0]
           /\ output  = [key \in Key |-> 0]
           /\ failing = {}

\* A sample of one key is taken: Record*Data is called.
Take(key) == /\ taken' = [taken EXCEPT ![key] = @ + 1]
             /\ UNCHANGED <<pending, output, failing>>

\* It is recorded, under that key.
Record(key) == /\ taken[key] > 0
               /\ taken' = [taken EXCEPT ![key] = @ - 1]
               /\ pending' = [pending EXCEPT ![key] = @ + 1]
               /\ UNCHANGED <<output, failing>>

\* Pending samples of one key are written out.
Emit(key) == LET n == output'[key] - output[key] IN
             /\ n \in 1..pending[key]
             /\ output'  = [output EXCEPT ![key] = @ + n]
             /\ pending' = [pending EXCEPT ![key] = @ - n]
             /\ UNCHANGED <<taken, failing>>

\* The output could not be opened.
Fail(o) == /\ o \notin failing
           /\ failing' = failing \cup {o}
           /\ UNCHANGED <<taken, pending, output>>

\* That open forgets what it could not write.
Forget(o) == /\ o \in failing
             /\ failing' = failing \ {o}
             /\ pending' = [key \in Key |-> IF key \in Volatile THEN 0 ELSE pending[key]]
             /\ UNCHANGED <<taken, output>>

LogNext == \/ \E key \in Key : Take(key) \/ Record(key) \/ Emit(key)
           \/ \E o \in Opener : Fail(o) \/ Forget(o)

LogSpec == LogInit /\ [][LogNext]_logvars
==============================================================================
