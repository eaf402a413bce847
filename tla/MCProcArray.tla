---------------------------- MODULE MCProcArray ----------------------------
(* ProcArray with interchangeable readers and interchangeable other backends. *)
EXTENDS ProcArray, TLC

Symmetry == Permutations(Readers) \cup Permutations(Procs \ Readers)
====
