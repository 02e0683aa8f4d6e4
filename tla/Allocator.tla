------------------------------ MODULE Allocator ------------------------------
(***************************************************************************)
(* What the clients of stdlib/src/stdlib.c _malloc and _free rely on,      *)
(* stated without holes, headers or footers: every pointer handed out owns *)
(* a set of addresses nobody else owns, and an owned address keeps what    *)
(* its owner last stored there until the pointer is freed, whatever the    *)
(* allocator does meanwhile for the other pointers.                        *)
(***************************************************************************)

CONSTANTS
  Addr,     (* The addresses of the heap.                                  *)
  Words     (* What a client may store at an address it owns.              *)

VARIABLES
  owned,    (* pointer handed out and not freed -> the addresses it owns   *)
  data      (* owned address -> what it holds                              *)

vars == <<owned, data>>

OwnedAddrs == UNION {owned[p] : p \in DOMAIN owned}

Init ==
  /\ owned = [p \in {} |-> {}]
  /\ data  = [a \in {} |-> {}]

(* A new pointer owns addresses no other pointer owns. Their content is    *)
(* unspecified (memory is not cleared); all owned content is kept.         *)
Alloc ==
  \E p \in Addr \ DOMAIN owned :
    /\ DOMAIN owned' = DOMAIN owned \cup {p}
    /\ \A q \in DOMAIN owned : owned'[q] = owned[q]
    /\ owned'[p] \subseteq Addr \ OwnedAddrs
    /\ DOMAIN data' = DOMAIN data \cup owned'[p]
    /\ \A a \in DOMAIN data : data'[a] = data[a]

(* Freeing a pointer gives up its addresses and no others.                 *)
Release ==
  \E p \in DOMAIN owned :
    /\ owned' = [q \in DOMAIN owned \ {p} |-> owned[q]]
    /\ data'  = [a \in DOMAIN data \ owned[p] |-> data[a]]

(* The client overwrites the whole payload of a pointer it holds.          *)
Store ==
  \E p \in DOMAIN owned, w \in Words :
    /\ data' = [a \in DOMAIN data |-> IF a \in owned[p] THEN w ELSE data[a]]
    /\ UNCHANGED owned

Next == Alloc \/ Release \/ Store

Spec == Init /\ [][Next]_vars

(* Two live pointers never share an address.                               *)
Disjoint ==
  \A p, q \in DOMAIN owned : p /= q => owned[p] \cap owned[q] = {}
==============================================================================
