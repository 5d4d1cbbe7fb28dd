------------------------------- MODULE MCPipe --------------------------------
(* Instances of Pipe for TLC.                                              *)
EXTENDS Pipe, TLC

\* The objects are interchangeable, and so are the tasks that are not the first.
MCSymmetry == Permutations(Obj) \cup Permutations(Task \ {First})
=============================================================================
