------------------------------- MODULE MCHeap --------------------------------
(* Heap on a few bytes. Clients store a byte that looks like nothing, or   *)
(* one that looks like the header of a hole.                               *)
EXTENDS Heap

MCWords == {Blank, HeaderCell(TRUE, 2)}
==============================================================================
